---------------------------- MODULE ReplayModel ----------------------------
(***************************************************************************)
(* Investigator.run driven by the deterministic adapters of the replay     *)
(* command: ReplayModel asks for the first required read that has not been *)
(* collected, finishes when there is none and cites everything it has;     *)
(* FixtureTools answers a read from its one matching entry and raises      *)
(* ToolExecutionError without one.  The record's metadata do not cover the  *)
(* entries, so two submissions may be run with different ones.             *)
(***************************************************************************)
EXTENDS InvestigatorProperties

CONSTANT Fixtures   \* sets of reads that have exactly one fixture entry

VARIABLES
  fixture,   \* the reads that have one
  verdict    \* verdict[s]: what the contents of the entries s is run with
             \* make the model conclude

\* requests_for keeps the order of required_requests.
RequestsFor(event) ==
  << Read("get_change_event", event.event_id),
     Read("get_rbac_object", event.before_version),
     Read("get_rbac_object", event.after_version),
     Read("get_subject_bindings", event.subject_id),
     Read("get_approval_record", event.change_id) >>

Uncollected(event, ledger) ==
  {i \in 1..5 : RequestsFor(event)[i] \notin Collected(ledger)}

ChooseAction(event, ledger) ==
  LET left == Uncollected(event, ledger) IN
  IF left = {} THEN Finish
  ELSE Ask(RequestsFor(event)[CHOOSE i \in left : \A j \in left : i <= j])

ProduceResult(ledger, status) ==
  Draft([status |-> status, risk |-> ExpectedRisk(status), cited |-> ledger,
         missing |-> FALSE])

\* What the adapters do in a step that ends the wait of submission s.
Scripted(s) ==
  pc[s] = "waiting" /\ ~expired[s] /\ pc'[s] # "waiting" /\ pc'[s] # "crashed" =>
    LET w == work[s] IN
    CASE w.operation = "choose_action" ->
           pc'[s] = "answered"
             /\ work'[s].answer = ChooseAction(config[s].event, w.ledger)
      [] w.operation = "produce_result" ->
           pc'[s] = "answered" /\ work'[s].answer = ProduceResult(w.ledger, verdict[s])
      [] w.operation = "tool" ->
           IF w.request \in fixture
           THEN pc'[s] = "answered" /\ work'[s].answer.kind = "response"
           ELSE pc'[s] = "failing" /\ work'[s].reason = "ToolExecutionError"

ReplayInit ==
  /\ Init
  /\ fixture \in Fixtures
  /\ verdict \in [Submissions -> Conclusive]

ReplayNext ==
  /\ Next
  /\ \A s \in Submissions : Scripted(s)
  /\ UNCHANGED <<fixture, verdict>>

ReplayVars == <<vars, fixture, verdict>>

ReplaySpec == ReplayInit /\ [][ReplayNext]_ReplayVars
=============================================================================
