--------------------------------- MODULE Cli ---------------------------------
(***************************************************************************)
(* The exit code the command gives a real-model run: main of cli.py, for   *)
(* --provider anthropic.  A second run of the command on the same output   *)
(* directory is a second submission.                                       *)
(***************************************************************************)
EXTENDS InvestigatorRefinement

\* Mutant: no exception is caught, and the interpreter exits with 1.
ExitCodeUncaught(answer) ==
  IF answer.kind = "raised" THEN 1
  ELSE IF answer.view.result = None THEN 2
  ELSE CASE answer.view.result.status = "likely_benign"        -> 0
         [] answer.view.result.status = "confirmed_suspicious" -> 1
         [] OTHER                                              -> 2

\* main catches InvestigationError, KeyError and TypeError; on any other the
\* interpreter ends with a traceback and 1.
ExitCode(answer) ==
  IF answer.kind = "raised" THEN IF answer.error \in Errors THEN 2 ELSE 1
  ELSE IF answer.view.result = None THEN 2
  ELSE CASE answer.view.result.status = "likely_benign"        -> 0
         [] answer.view.result.status = "confirmed_suspicious" -> 1
         [] OTHER                                              -> 2

Exited == {s \in Submissions : outcome[s].kind # "none"}

\* No two runs of the command that reached one key end with opposite codes,
\* whatever crashes, write failures or uncaught exceptions lie between them.
ExitsNeverContradict ==
  \A s, t \in Exited :
    config[s] # None /\ config[t] # None =>
      (ExitCode(outcome[s]) = 0 => ExitCode(outcome[t]) # 1)

\* docs/architecture.md: "Save a schema-valid result, then atomically mark the
\* terminal record. Do not return success if persistence fails.": exit code 0
\* is only given for a record that was marked terminal.
SuccessOnlyWhenTerminal ==
  \A s \in Exited :
    ExitCode(outcome[s]) = 0 => outcome[s].view.state \in TERMINAL
=============================================================================
