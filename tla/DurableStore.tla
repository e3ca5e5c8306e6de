---------------------------- MODULE DurableStore ----------------------------
(***************************************************************************)
(* What one key of the result store promises, however many files and       *)
(* system calls stand behind it: a claim, whole records that follow one    *)
(* another, and a power loss that takes either the whole claim or at most  *)
(* the records that were not acknowledged.                                 *)
(***************************************************************************)
EXTENDS Integers

CONSTANTS Owners, LastRecord, Unclaimed, Empty

VARIABLES
  value,         \* Unclaimed, Empty, or the record [owner, n]
  acknowledged   \* the number of the last record whose write returned, or 0

storeVars == <<value, acknowledged>>

Records == [owner : Owners, n : 1 .. LastRecord]
Number(v) == IF v \in Records THEN v.n ELSE 0

StoreInit == value = Unclaimed /\ acknowledged = 0

ClaimKey == value = Unclaimed /\ value' = Empty /\ UNCHANGED acknowledged

Put ==
  /\ value # Unclaimed
  /\ value' \in Records /\ value'.n = Number(value) + 1
  /\ value # Empty => value'.owner = value.owner
  /\ UNCHANGED acknowledged

Acknowledge == acknowledged' = Number(value) /\ UNCHANGED value

LosePower ==
  \/ value' = Unclaimed /\ acknowledged' = 0
  \/ /\ value # Unclaimed /\ value' \in Records \cup {Empty}
     /\ Number(value') \in acknowledged .. Number(value)
     /\ value' \in Records => value'.owner = value.owner
     /\ UNCHANGED acknowledged

StoreSpec ==
  StoreInit /\ [][ClaimKey \/ Put \/ Acknowledge \/ LosePower]_storeVars
=============================================================================
