--------------------------- MODULE MCInvestigator ---------------------------
(***************************************************************************)
(* Small instances of Investigator for TLC, with a model that may answer   *)
(* anything the action and draft schemas allow.                            *)
(***************************************************************************)
EXTENDS InvestigatorProperties, TLC

CONSTANTS s1, s2

Event ==
  [event_id |-> "e1", before_version |-> "role-1", after_version |-> "role-2",
   subject_id |-> "u1", change_id |-> "c1"]

\* The smallest limits under which a verdict can be reached: any counter that
\* reaches its limit stops the next call, so five reads need limits of six and
\* the seventh model call needs a limit of seven.
Limits == [model_calls |-> 7, tool_calls |-> 6, evidence_items |-> 6]

Policy ==
  [allowed_tools |-> Tools, limits |-> Limits,
   resource_scope |->
     [event_ids |-> {"e1"}, rbac_objects |-> {"role-1", "role-2"},
      subject_ids |-> {"u1"}, change_ids |-> {"c1"}]]

Config(event, policy, provider, callable) ==
  [event |-> event, policy |-> policy, provider |-> provider, callable |-> callable]

Trusted == Config(Event, Policy, "p1", Tools)

\* A role change whose two versions are the same needs only four reads, which
\* leaves one call of either kind to spare.
SameVersion ==
  Config([Event EXCEPT !.after_version = "role-1"],
         Policy, "p1", Tools)

\* A policy without the approval tool, and limits that end the loop early.
NoApproval ==
  Config(Event, [Policy EXCEPT !.allowed_tools = Tools \ {"get_approval_record"},
                               !.limits = [model_calls |-> 4, tool_calls |-> 3,
                                           evidence_items |-> 2]], "p1", Tools)

NoModelCalls ==
  Config(Event, [Policy EXCEPT !.limits["model_calls"] = 0], "p1", Tools)

TwoCalls ==
  Config(Event, [Policy EXCEPT !.limits = [model_calls |-> 3, tool_calls |-> 2,
                                           evidence_items |-> 2]], "p1", Tools)

OutOfScope ==
  Config(Event, [Policy EXCEPT !.resource_scope["event_ids"] = {"e2"}], "p1", Tools)

\* The same key brought by a caller with another provider.
OtherProvider == [OutOfScope EXCEPT !.provider = "p2"]

Unwired == Config(Event, Policy, "p1", Tools \ {"get_subject_bindings"})

Required == RequiredRequests(Event)

\* Reads a model may ask for and must not be given.
Refused ==
  { [tool |-> "shell", keys |-> {"command"}, sound |-> TRUE, value |-> "c1"],
    [Read("get_approval_record", "c1") EXCEPT !.keys = {"change_id", "force"}],
    [Read("get_subject_bindings", "u1") EXCEPT !.sound = FALSE],
    Read("get_rbac_object", "role-9") }

AllRequests == Required \cup Refused
FewRequests ==
  {Read("get_change_event", "e1"), Read("get_approval_record", "c1")} \cup Refused

SomeRequests ==
  {Read("get_change_event", "e1"), Read("get_rbac_object", "role-9")}

ShortConfigs == {NoApproval, NoModelCalls, OutOfScope, Unwired}
TightConfigs == {TwoCalls, OtherProvider}
AllConfigs   == {Trusted, SameVersion} \cup ShortConfigs

\* Of the 2^(n+1) citations of a draft: none, all that was collected, all and
\* a fabricated one, all but one.
Citations(ledger) ==
  {{}, ledger, ledger \cup {Fabricated}} \cup {ledger \ {item} : item \in ledger}

FewCitations(s) ==
  work'[s].answer.kind = "draft" =>
    work'[s].answer.draft.cited \in Citations(work[s].ledger)

\* A read returns another content only in the short investigations.
FewContents(s) ==
  work'[s].answer = Response("other content") => config[s] \in ShortConfigs

MCNext == Next /\ \A s \in Submissions : FewCitations(s) /\ FewContents(s)
MCSpec == Init /\ [][MCNext]_vars
MCFairSpec == MCSpec /\ Fairness
=============================================================================
