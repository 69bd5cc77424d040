----------------------------- MODULE QuickBooks -----------------------------
(***************************************************************************)
(* QuickBooks as lib/qbo uses it (external code): invoices of one realm,   *)
(* the payments that people record against them, and the instant and date  *)
(* QuickBooks keeps of each.  A payment is recorded once; what is left of  *)
(* an invoice is its face value less the payments recorded so far.         *)
(***************************************************************************)
EXTENDS Naturals, FiniteSets, FiniteSetsExt

CONSTANTS
  Invoice,        \* QBO Invoice Ids (invoices.external_id)
  Payment,        \* QBO Payment Ids
  InvoiceOf,      \* the first invoice a payment is linked to
  AmountCents,    \* Payment.TotalAmt in cents
  FaceCents,      \* Invoice.TotalAmt in cents
  DueDate,        \* Invoice.DueDate, as a day; 0 when QuickBooks has none
  Undated,        \* payments whose MetaData.CreateTime is absent or unreadable
  MaxBackdating,  \* bound: days by which a payment's TxnDate may lie back
  MaxTime         \* bound: the last instant

VARIABLES
  clock,          \* now
  qbo             \* the payments recorded so far

ASSUME QuickBooksAssumption ==
  /\ IsFiniteSet(Payment)
  /\ InvoiceOf \in [Payment -> Invoice]
  /\ AmountCents \in [Payment -> Nat \ {0}]
  /\ FaceCents \in [Invoice -> Nat]
  /\ DueDate \in [Invoice -> Nat]
  /\ Undated \subseteq Payment
  /\ MaxTime \in Nat /\ MaxBackdating \in Nat

(* Two instants a day; the clock starts just before the midnight of day 1. *)
Day(t) == t \div 2
FirstInstant == 3

Never == 0       \* a timestamp column that is NULL, a payment not recorded

NotRecorded == [at |-> Never, txnDate |-> Never]

Recorded(p) == qbo[p].at # Never

BooksTypeOK ==
  /\ clock \in Nat
  /\ qbo \in [Payment -> [at : Nat, txnDate : Nat]]

BooksInit ==
  /\ clock = FirstInstant
  /\ qbo = [p \in Payment |-> NotRecorded]

PaymentsOf(i) == {p \in Payment : InvoiceOf[p] = i /\ Recorded(p)}

(* Invoice.Balance.                                                        *)
Balance(i) ==
  FaceCents[i] - MapThenSumSet(LAMBDA p : AmountCents[p], PaymentsOf(i))

(* MetaData.CreateTime, when the reader can use it.                        *)
CreateTime(p) == IF p \in Undated THEN Never ELSE qbo[p].at

(* Somebody records a payment, dated today or earlier, for no more than is *)
(* due.                                                                    *)
RecordPayment(p) ==
  /\ ~Recorded(p)
  /\ AmountCents[p] <= Balance(InvoiceOf[p])
  /\ \E d \in 1..Day(clock) :
       /\ Day(clock) <= d + MaxBackdating
       /\ qbo' = [qbo EXCEPT ![p] = [at |-> clock, txnDate |-> d]]
  /\ UNCHANGED clock

Tick ==
  /\ clock < MaxTime
  /\ clock' = clock + 1
  /\ UNCHANGED qbo

=============================================================================
