----------------------- MODULE InvestigationRegister -----------------------
(***************************************************************************)
(* What one idempotency key is to its callers: a register that is claimed  *)
(* once, resolved once and closed once.  Every caller is told what the     *)
(* register holds at one instant, and whether that is final, or is         *)
(* refused; nobody is ever told a verdict the register does not keep.      *)
(***************************************************************************)
CONSTANTS Callers, Verdicts, None

VARIABLES phase, verdict, told

registerVars == <<phase, verdict, told>>

Untold  == "untold"
Refused == "refused"

RegisterInit ==
  /\ phase = "free"
  /\ verdict = None
  /\ told = [c \in Callers |-> [kind |-> Untold]]

TakeClaim == phase = "free" /\ phase' = "claimed" /\ UNCHANGED verdict
Resolve   == phase = "claimed" /\ phase' = "resolved" /\ verdict' \in Verdicts
Close     == phase = "resolved" /\ phase' = "closed" /\ UNCHANGED verdict

Answered(c, answer) ==
  told[c].kind = Untold /\ told' = [told EXCEPT ![c] = answer]

Refuse(c) == Answered(c, [kind |-> Refused])
Tell(c) ==
  /\ phase # "free"
  /\ Answered(c, [kind |-> "told", final |-> phase = "closed", verdict |-> verdict])

\* A caller may be refused in the very step that advances the register: its
\* own write took effect and then failed.
RegisterNext ==
  \/ /\ TakeClaim \/ Resolve \/ Close
     /\ UNCHANGED told \/ \E c \in Callers : Refuse(c)
  \/ /\ \E c \in Callers : Refuse(c) \/ Tell(c)
     /\ UNCHANGED <<phase, verdict>>

RegisterSpec == RegisterInit /\ [][RegisterNext]_registerVars
=============================================================================
