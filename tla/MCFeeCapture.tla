---------------------------- MODULE MCFeeCapture ----------------------------
EXTENDS FeeCapture, TLC

CONSTANTS i1, p1, p2

(* Two payments in part of one overdue invoice of 3, each in a             *)
(* notification of its own, or one of them in both.                        *)
MCInvoiceOf == [p \in Payment |-> i1]
MCAmountCents == [p \in Payment |-> 1]
MCFaceCents == [i \in Invoice |-> 3]
MCDueDate == [i \in Invoice |-> 1]
OneEach == {<<p>> : p \in Payment}
BothThenOne == {<<p1, p2>>, <<p2>>}

=============================================================================
