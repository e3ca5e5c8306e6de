----------------------- MODULE InvestigatorRefinement -----------------------
(***************************************************************************)
(* Investigator.run and the JSON repository implement the register of one  *)
(* idempotency key: the claim directory is the claim, save_result resolves *)
(* it and mark_terminal closes it.                                         *)
(***************************************************************************)
EXTENDS InvestigatorProperties

PhaseOf ==
  CASE ~dir                      -> "free"
    [] record.state \in TERMINAL -> "closed"
    [] OTHER -> IF record.result = None THEN "claimed" ELSE "resolved"

ToldTo(s) ==
  CASE outcome[s].kind = "none"     -> [kind |-> "untold"]
    [] outcome[s].kind = "raised"   -> [kind |-> "refused"]
    [] outcome[s].kind = "returned" ->
         [kind |-> "told", final |-> outcome[s].view.state \in TERMINAL,
          verdict |-> outcome[s].view.result]

Register ==
  INSTANCE InvestigationRegister WITH
    Callers  <- Submissions,
    Verdicts <- Results,
    phase    <- PhaseOf,
    verdict  <- record.result,
    told     <- [s \in Submissions |-> ToldTo(s)]

\* Every behaviour of Investigator is one of the register: the key is claimed
\* once, gets one verdict that is never replaced, is closed after it, and every
\* caller is answered with one snapshot of it.
ImplementsRegister == Register!RegisterSpec
=============================================================================
