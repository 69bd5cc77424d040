------------------------- MODULE MCSettlementRefund -------------------------
EXTENDS SettlementRefund, TLC

CONSTANTS s1, u1

MCSubscriberOf == [s \in Settlement |-> u1]
NoFees == [l \in Line |-> 0]

Symmetry == Permutations(Caller)

=============================================================================
