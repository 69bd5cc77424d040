--------------------------- MODULE FeeCollection ---------------------------
(***************************************************************************)
(* What a settlement promises, whoever charges and refunds it and in       *)
(* whatever order webhooks speak: its money is collected once, and once    *)
(* more at most for each charge that Stripe forgot before it was recorded; *)
(* it is recalled once and returned once, in this order; and what its row  *)
(* says may be behind the money but is never ahead of it.                  *)
(***************************************************************************)
EXTENDS Naturals

CONSTANT Settlement

VARIABLES
  charges,  \* charges[s]: how often the money of settlement s was collected
  lapses,   \* lapses[s]: how often Stripe forgot a charge not on record
  back,     \* back[s]: how far money of s is on its way back
  says      \* says[s]: what the settlement's row says of it

collectionVars == <<charges, lapses, back, says>>

Back == {"none", "recalled", "returned"}
Word == {"open", "paid", "returning", "refunded"}

CollectionTypeOK ==
  /\ charges \in [Settlement -> Nat] /\ lapses \in [Settlement -> Nat]
  /\ back \in [Settlement -> Back] /\ says \in [Settlement -> Word]

CollectionInit ==
  /\ charges = [s \in Settlement |-> 0] /\ lapses = [s \in Settlement |-> 0]
  /\ back = [s \in Settlement |-> "none"]
  /\ says = [s \in Settlement |-> "open"]

(* Stripe collects the fee. *)
Collect(s) ==
  /\ charges[s] <= lapses[s]
  /\ charges' = [charges EXCEPT ![s] = @ + 1]
  /\ UNCHANGED <<lapses, back, says>>

Lapse(s) ==
  /\ lapses' = [lapses EXCEPT ![s] = @ + 1]
  /\ UNCHANGED <<charges, back, says>>

(* A refund is put on record; Stripe returns the money. *)
Recall(s) ==
  /\ charges[s] > 0 /\ back[s] = "none"
  /\ back' = [back EXCEPT ![s] = "recalled"]
  /\ UNCHANGED <<charges, lapses, says>>

Return(s) ==
  /\ back[s] = "recalled"
  /\ back' = [back EXCEPT ![s] = "returned"]
  /\ UNCHANGED <<charges, lapses, says>>

(* Whether the row may go over to a word.  It may fall behind the money,   *)
(* when an update comes late; a refund starts from 'paid'.                 *)
MaySay(s, word) ==
  CASE word = "open"      -> TRUE
    [] word = "paid"      -> charges[s] > 0
    [] word = "returning" -> says[s] = "paid"
    [] word = "refunded"  -> back[s] = "returned"

Say(s) ==
  /\ \E word \in Word :
       MaySay(s, word) /\ says' = [says EXCEPT ![s] = word]
  /\ UNCHANGED <<charges, lapses, back>>

CollectionNext ==
  \E s \in Settlement :
    Collect(s) \/ Lapse(s) \/ Recall(s) \/ Return(s) \/ Say(s)

CollectionSpec == CollectionInit /\ [][CollectionNext]_collectionVars

(* The row's word never runs ahead of the money. *)
WordIsCovered ==
  \A s \in Settlement :
    /\ says[s] \in {"paid", "returning"} => charges[s] > 0
    /\ says[s] = "refunded" => back[s] = "returned"

=============================================================================
