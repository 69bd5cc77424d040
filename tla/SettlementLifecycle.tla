------------------------ MODULE SettlementLifecycle ------------------------
(***************************************************************************)
(* One settlement from its first charge to its refund: the drains and the  *)
(* invoice webhooks of SettlementCharge and the refund calls and refund    *)
(* webhooks of SettlementRefund, all on the same row.                      *)
(***************************************************************************)
EXTENDS SettlementCharge, SettlementRefund

chargeLocals == <<stripeVars, run, hook, audited, chargingEnabled, crashes, history>>
lifecycleVars == <<tables, chargeLocals, refundLocals>>

LifecycleTypeOK == ChargeTypeOK /\ RefundTypeOK

LifecycleInit == ChargeInit /\ RefundLocalsInit

LifecycleNext ==
  \/ ChargeNext /\ UNCHANGED refundLocals
  \/ RefundStep /\ UNCHANGED chargeLocals

LifecycleSpec == LifecycleInit /\ [][LifecycleNext]_lifecycleVars

-----------------------------------------------------------------------------
(* What a settlement has come to, in the terms of FeeCollection: the money *)
(* as Stripe and the refund rows have it, the word as the row has it.      *)
(* Money that came back twice is no state of FeeCollection.                *)
RefundsOnFile(s) == {j \in RefundRowSlot : refundRows[s][j].status # "none"}
DoneRefunds(s) == {k \in RefundSlot : refunds[s][k] = "succeeded"}

MovedTwice(S) == \E a, b \in S : a # b

BackOf(s) ==
  IF MovedTwice(DoneRefunds(s)) THEN "twice"
  ELSE IF DoneRefunds(s) # {} THEN "returned"
  ELSE IF RefundsOnFile(s) # {} THEN "recalled" ELSE "none"

WordOf(s) ==
  CASE row[s].status = "paid" -> "paid"
    [] row[s].status = "refund_pending" -> "returning"
    [] row[s].status = "refunded" -> "refunded"
    [] OTHER -> "open"

Fees == INSTANCE FeeCollection
          WITH charges <- [s \in Settlement |-> Cardinality(PaidInvoices(s))],
               back <- [s \in Settlement |-> BackOf(s)],
               says <- [s \in Settlement |-> WordOf(s)]

(* The charge and the refund of a settlement, with the webhooks of both,   *)
(* implement FeeCollection: collected once, but for the charges that       *)
(* Stripe forgot; recalled and returned once, in this order and after the  *)
(* money came; a refund starts from 'paid'; no status is ahead of it.      *)
ImplementsFeeCollection == Fees!CollectionSpec

=============================================================================
