--------------------------- MODULE FeeSettlements ---------------------------
(***************************************************************************)
(* The tables the settlement subsystem shares: fee_settlements (one row    *)
(* per subscriber and cycle), fee_settlement_lines (the ledger rows folded *)
(* into it, frozen to cents) and the two subscribers columns that the      *)
(* charge path reads.  The sweep writes the books of a settlement, the     *)
(* drain, the refund call and the Stripe webhooks move its status.         *)
(***************************************************************************)
EXTENDS Naturals, FiniteSets, FiniteSetsExt

CONSTANTS
  Settlement,     \* fee_settlements.id values
  Subscriber,     \* subscribers.id values
  SubscriberOf,   \* fee_settlements.subscriber_id, fixed at insert
  Line,           \* rev_share_ledger ids a settlement may list
  FeeCents,       \* fee_settlement_lines.fee_cents of each ledger row
  MaxAttempts,    \* fee_settlements.max_attempts (5 in the schema)
  MaxInvoices,    \* bound: Stripe invoices that may exist for one settlement
  Subscribers     \* bound: the subscriber states the environment takes

VARIABLES
  row,            \* fee_settlements: the mutable columns
  books,          \* line_count and total_fee_cents of a settlement, and its lines
  sub             \* the subscriber as the charge path sees it

(* The values the code writes.  'invoiced' and 'void' are in the CHECK     *)
(* constraint but no code path of src/ writes 'invoiced', so the void      *)
(* branches that start from it cannot run.  "absent": not inserted yet.    *)
Status == {"absent", "pending", "charging", "paid", "failed",
           "refund_pending", "refunded"}

(* claimed_at, as the compare-and-sets distinguish it: older than          *)
(* STALE_CLAIM_MS or not.                                                  *)
Claim == {"none", "fresh", "stale"}

Slot == 1..MaxInvoices      \* the invoices of a settlement, in creation order
NoInvoice == 0              \* stripe_invoice_id IS NULL

Row == [status : Status, attempts : Nat, claim : Claim,
        invoice : Slot \cup {NoInvoice}]

Books == [lines : SUBSET Line, lineCount : Nat, totalCents : Nat]

(* "inactive" stands for test_user, a status other than 'active' and a     *)
(* subscriber that is gone; "no_customer" for an active subscriber whose   *)
(* stripe_customer_id is still NULL.                                       *)
SubscriberState == {"chargeable", "no_customer", "inactive"}

ASSUME SettlementAssumption ==
  /\ SubscriberOf \in [Settlement -> Subscriber]
  /\ IsFiniteSet(Line)
  /\ FeeCents \in [Line -> Nat]
  /\ MaxAttempts \in Nat \ {0}
  /\ MaxInvoices \in Nat \ {0}
  /\ Subscribers \subseteq SubscriberState

NewRow == [status |-> "pending", attempts |-> 0, claim |-> "none",
           invoice |-> NoInvoice]

AbsentRow == [NewRow EXCEPT !.status = "absent"]

NoBooks == [lines |-> {}, lineCount |-> 0, totalCents |-> 0]

SumCents(lines) == MapThenSumSet(LAMBDA l : FeeCents[l], lines)

(* reconcileSettlement over the lines a caller has loaded: both the line   *)
(* count and the sum of the cents match what the settlement row claims.    *)
Reconciles(b, lines) ==
  /\ Cardinality(lines) = b.lineCount
  /\ SumCents(lines) = b.totalCents

(* Subscription webhooks, checkouts and operators move a subscriber; a     *)
(* Stripe customer, once set, stays.                                       *)
SubscriberMoves(u) ==
  \E x \in Subscribers \ {sub[u]} :
    /\ sub[u] = "chargeable" => x = "inactive"
    /\ sub' = [sub EXCEPT ![u] = x]

TablesTypeOK ==
  /\ row \in [Settlement -> Row]
  /\ books \in [Settlement -> Books]
  /\ sub \in [Subscriber -> SubscriberState]

=============================================================================
