--------------------------- MODULE StripeInvoices ---------------------------
(***************************************************************************)
(* Stripe's side of a settlement, as lib/stripe.ts and chargeSettlement.ts *)
(* use it (external code).  An invoice is created as a draft under the     *)
(* settlement's idempotency key, gets one keyed item per line, is          *)
(* finalized once and paid once; finalize and pay carry no key and are     *)
(* refused on an invoice in another state.  A payment outcome also becomes *)
(* an event that reaches the webhook late, repeatedly or never.            *)
(***************************************************************************)
EXTENDS FeeSettlements

CONSTANTS
  KeysExpire,     \* may Stripe forget an idempotency key (it keeps one for 24h)
  MaxDeclines     \* bound: declined payments of one settlement

ASSUME StripeAssumption == KeysExpire \in BOOLEAN /\ MaxDeclines \in Nat

VARIABLES
  invoices,       \* the invoices of each settlement
  liveKey,        \* the invoice that replaying the create key returns
  itemKeys,       \* the lines whose item key replays
  events          \* events Stripe has emitted

stripeVars == <<invoices, liveKey, itemKeys, events>>

Invoice == [status : {"none", "draft", "open", "paid"}, items : [Line -> Nat]]

NoItems == [l \in Line |-> 0]

(* n tells the event ids of repeated declines apart.                       *)
Event == [type : {"payment_succeeded", "payment_failed"}, s : Settlement,
          invoice : Slot, n : 0..MaxDeclines]

StripeTypeOK ==
  /\ invoices \in [Settlement -> [Slot -> Invoice]]
  /\ liveKey \in [Settlement -> Slot \cup {NoInvoice}]
  /\ itemKeys \in [Settlement -> SUBSET Line]
  /\ events \subseteq Event

StripeInit ==
  /\ invoices = [s \in Settlement |->
                   [i \in Slot |-> [status |-> "none", items |-> NoItems]]]
  /\ liveKey = [s \in Settlement |-> NoInvoice]
  /\ itemKeys = [s \in Settlement |-> {}]
  /\ events = {}

Finalized(s, i) == invoices[s][i].status \in {"open", "paid"}

(* Mutant: a create without its idempotency key.                           *)
CreateUnkeyed(s, i) ==
  /\ invoices[s][i].status = "none"
  /\ \A j \in 1..(i - 1) : invoices[s][j].status # "none"
  /\ invoices' = [invoices EXCEPT ![s][i].status = "draft"]
  /\ liveKey' = [liveKey EXCEPT ![s] = i]
  /\ UNCHANGED <<itemKeys, events>>

(* POST /invoices with the settlement's key returns i: the invoice already *)
(* created under the key, or a new draft in the next free slot.            *)
CreateInvoice(s, i) ==
  /\ \/ /\ liveKey[s] = i
        /\ UNCHANGED <<invoices, liveKey>>
     \/ /\ liveKey[s] = NoInvoice
        /\ invoices[s][i].status = "none"
        /\ \A j \in 1..(i - 1) : invoices[s][j].status # "none"
        /\ invoices' = [invoices EXCEPT ![s][i].status = "draft"]
        /\ liveKey' = [liveKey EXCEPT ![s] = i]
  /\ UNCHANGED <<itemKeys, events>>

(* Mutant: items added without their idempotency keys.                     *)
AddUnkeyedItem(s, i, l) ==
  /\ invoices[s][i].status = "draft"
  /\ invoices[s][i].items[l] < 2
  /\ invoices' = [invoices EXCEPT ![s][i].items[l] = @ + 1]
  /\ UNCHANGED <<liveKey, itemKeys, events>>

(* POST /invoiceitems under the line's key: replayed, or added to a draft. *)
AddInvoiceItem(s, i, l) ==
  /\ \/ /\ l \in itemKeys[s]
        /\ UNCHANGED <<invoices, itemKeys>>
     \/ /\ l \notin itemKeys[s]
        /\ invoices[s][i].status = "draft"
        /\ invoices' = [invoices EXCEPT ![s][i].items[l] = @ + 1]
        /\ itemKeys' = [itemKeys EXCEPT ![s] = @ \cup {l}]
  /\ UNCHANGED <<liveKey, events>>

(* POST /invoices/:id/finalize is accepted on a draft only.                *)
FinalizeInvoice(s, i) ==
  /\ invoices[s][i].status = "draft"
  /\ invoices' = [invoices EXCEPT ![s][i].status = "open"]
  /\ UNCHANGED <<liveKey, itemKeys, events>>

(* The money of an open invoice is collected, and Stripe says so.          *)
CollectPayment(s, i) ==
  /\ invoices[s][i].status = "open"
  /\ invoices' = [invoices EXCEPT ![s][i].status = "paid"]
  /\ events' = events \cup
       {[type |-> "payment_succeeded", s |-> s, invoice |-> i, n |-> 0]}
  /\ UNCHANGED <<liveKey, itemKeys>>

(* A payment attempt on an open invoice is declined: a new failure event.  *)
DeclinePayment(s, i) ==
  /\ invoices[s][i].status = "open"
  /\ \E n \in 1..MaxDeclines :
       LET Failure(k) == [type |-> "payment_failed", s |-> s, invoice |-> i,
                          n |-> k]
       IN /\ \A k \in 1..MaxDeclines : Failure(k) \in events <=> k < n
          /\ events' = events \cup {Failure(n)}
  /\ UNCHANGED <<invoices, liveKey, itemKeys>>

(* Stripe prunes the keys of a settlement once they are old enough.        *)
ExpireKeys(s) ==
  /\ KeysExpire
  /\ liveKey[s] # NoInvoice
  /\ invoices[s][MaxInvoices].status = "none"
  /\ liveKey' = [liveKey EXCEPT ![s] = NoInvoice]
  /\ itemKeys' = [itemKeys EXCEPT ![s] = {}]
  /\ UNCHANGED <<invoices, events>>

=============================================================================
