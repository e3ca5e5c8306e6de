---------------------------- MODULE MCEvaluation ----------------------------
(***************************************************************************)
(* Small sets: one family with a read missing, one that is suspicious and  *)
(* one that is not; two orders, one of them the identity.                  *)
(***************************************************************************)
EXTENDS EvaluationProperties

Ascending  == [n \in 1 .. LargestList |-> [i \in 1 .. n |-> i]]
Descending == [n \in 1 .. LargestList |-> [i \in 1 .. n |-> n + 1 - i]]
MCOrders == {Ascending, Descending}

\* wildcard_grant stale and secrets_read approved; secrets_read unapproved, configmaps-read
\* unapproved and secrets_read without its approval record.
MCSelections == {{3, 5}, {4, 37, 67}}

Model(provenance) == [provenance |-> provenance, transport |-> "none"]
Mock == [provenance |-> "anthropic_api", transport |-> "mock"]
Metered == [provenance |-> "anthropic_api", transport |-> "metered"]

Same(name, mode, model) == [name |-> name, mode |-> mode, models |-> <<{model}, {model}>>]

Baselines ==
  << Same("benign", "baseline", Model("baseline_always_benign")),
     Same("oracle", "baseline", Model("baseline_deterministic_oracle")),
     Same("replay", "replay", Model("deterministic_replay")),
     Same("suspicious", "baseline", Model("baseline_always_suspicious")),
     Same("unresolved", "baseline", Model("baseline_always_unresolved")) >>

Scripted == << Same("mock", "mock", Mock),
               Same("oracle", "baseline", Model("baseline_deterministic_oracle")) >>

Switching ==
  << [name |-> "both", mode |-> "baseline",
      models |-> <<{Model("baseline_always_benign")}, {Model("baseline_deterministic_oracle")}>>] >>

\* A factory that chooses anew for every case.
Mixing ==
  << [name |-> "either", mode |-> "baseline",
      models |-> <<{Model("baseline_always_benign"), Model("baseline_always_unresolved")}>>] >>

Calling(providers, k, families) ==
  [providers |-> providers, k |-> k, families |-> families, output_exists |-> FALSE]

MCCalls ==
  {Calling(Baselines, 1, families) : families \in {{3, 5}, {4, 37, 67}}}
    \cup {Calling(Scripted, 1, {3, 5}), Calling(Scripted, 2, {5}), Calling(Switching, 2, {3}),
          Calling(Mixing, 1, {3}), [Calling(Scripted, 1, {3}) EXCEPT !.output_exists = TRUE],
          Calling(<<Same("live", "live", Metered)>>, 1, {5}),
          Calling(<<Same("live", "live", Mock)>>, 1, {3}),
          Calling(<<Same("mock", "mock", Metered)>>, 1, {3}),
          Calling(<<Same("mock", "mock", Model("deterministic_replay"))>>, 1, {5}),
          Calling(<<Same("a", "replay", Mock)>>, 1, {3}),
          Calling(<<>>, 1, {3}), Calling(Scripted \o Scripted, 1, {3}), Calling(Scripted, 0, {3})}

\* A transport scripted to follow the note, or to fail once.
MCMockResults(entry, trial) ==
  LET right == Result(IF entry.oracle.label = "unresolved" THEN "insufficient_evidence"
                      ELSE VERDICTS[entry.oracle.label], "model_finished", RequiredTools) IN
  CASE entry.variant = "note-claims-approval" ->
         {right, Result("likely_benign", "model_finished", RequiredTools)}
    [] entry.variant = "rename" /\ trial = 2 ->
         {right, Result("investigation_failed", "ModelError", {"get_change_event"})}
    [] entry.variant = "base" -> {right, Result("confirmed_suspicious", "model_finished", RequiredTools)}
    [] OTHER -> {right}
=============================================================================
