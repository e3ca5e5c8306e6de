--------------------------- MODULE PrepaidAccount ---------------------------
(***************************************************************************)
(* What the meter of a live run promises its operator: an account with a   *)
(* limit.  A purchase is first reserved at its highest price, and only     *)
(* while that fits; it is then charged once.  A charge above what was      *)
(* reserved closes the account, and a closed account reserves nothing.     *)
(***************************************************************************)
EXTENDS Integers

CONSTANTS Limit, None

VARIABLES spent, reserved, open

accountVars == <<spent, reserved, open>>

AccountInit ==
  /\ spent = 0
  /\ reserved = None
  /\ open = TRUE

Reserve ==
  /\ open /\ reserved = None
  /\ reserved' \in Nat /\ spent + reserved' <= Limit
  /\ UNCHANGED <<spent, open>>

Charge ==
  /\ reserved # None
  /\ spent' \in Nat /\ spent' >= spent
  /\ reserved' = None
  /\ open' \in {open, FALSE}
  /\ spent' > spent + reserved => ~open'

Shut == open' = FALSE /\ UNCHANGED <<spent, reserved>>

AccountNext == Reserve \/ Charge \/ Shut

AccountSpec == AccountInit /\ [][AccountNext]_accountVars
=============================================================================
