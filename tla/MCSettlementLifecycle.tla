----------------------- MODULE MCSettlementLifecycle -----------------------
EXTENDS SettlementLifecycle

CONSTANTS s1, u1, l1

MCSubscriberOf == [s \in Settlement |-> u1]
MCFeeCents == [l \in Line |-> 1]
MCInitialBooks == {[lines |-> {l1}, lineCount |-> 1, totalCents |-> 1]}

(* Once a charge lapsed, no payment is declined, and a refund is asked for *)
(* once and settled by its call alone.                                     *)
LapseOrDecline ==
  \A s \in Settlement :
    lapses[s] > 0 => /\ \A e \in events : e.type = "payment_succeeded"
                     /\ refundRows[s][2].status = "none"
                     /\ \A h \in RefundHook : refundHook[h] = IdleRefundHook

=============================================================================
