--------------------------- MODULE Subscriptions ---------------------------
(*************************************************************************)
(* A subscriber of the platform: its Stripe customer, its checkout of a  *)
(* paid plan, and the webhooks that keep its row, its payments ledger    *)
(* and its mails in step with Stripe's subscriptions.                    *)
(*   lib/stripe-customer.ts, lib/stripe.ts                               *)
(*   app/api/stripe/checkout/route.ts                                    *)
(*   app/api/stripe-webhook/route.ts (subscriptions, payments, refunds)  *)
(*                                                                       *)
(* The webhook answers 200 before it works, so Stripe never repeats an   *)
(* event because its processing failed; it may still deliver one twice,  *)
(* and in any order.  One subscriber: rows of two share nothing here.    *)
(* The entitlement flags follow the Free plan and nothing else writes    *)
(* them; they are left out.                                              *)
(*************************************************************************)
EXTENDS Integers, Sequences, Functions

CONSTANTS
    Request,        \* the subscriber's requests: a sign-in or a checkout
    Handler,        \* webhook deliveries processed at once
    Free,           \* the plan every subscriber starts with
    SelfServe,      \* the paid plans that go through Checkout
    Faults,         \* which calls may fail, and "death" of a function
    MaxSubscriptions, \* bound on Stripe's subscriptions
    MaxEvents,      \* bound on Stripe's events
    MaxDeliveries   \* bound on the deliveries of one event

ASSUME SubscriptionsAssumption ==
    /\ Free \notin SelfServe
    /\ Faults \subseteq {"lookup", "unchecked", "write", "audit", "death"}
    /\ {MaxSubscriptions, MaxEvents, MaxDeliveries} \subseteq Nat

VARIABLES
    customer,       \* subscribers.stripe_customer_id, 0 while it is null
    status,         \* subscribers.subscription_status
    plan,           \* subscribers.plan_id
    payments,       \* the payments ledger
    audit,          \* the events of audit_log's canceled and refunded rows
    mails,          \* mails sent for each event
    customers,      \* how many customers Stripe has made: they are 1, 2, ..
    sessions,       \* open Checkout Sessions
    subscriptions,  \* Stripe's subscriptions, each paid once
    events,         \* Stripe's events
    heard,          \* how often each event was delivered
    request,        \* the requests of the subscriber
    handler,        \* the deliveries being processed
    unread,         \* history: customers used after a second read that failed
    unguarded       \* history: events the audit trail could not guard

rowVars == <<customer, status, plan>>
bookVars == <<payments, audit, mails>>
stripeVars == <<customers, sessions, subscriptions, events>>
historyVars == <<unread, unguarded>>
subVars == <<rowVars, bookVars, stripeVars, heard, request, handler, historyVars>>

Fails(kind) == IF kind \in Faults THEN BOOLEAN ELSE {FALSE}
NoRequest == [at |-> "idle", made |-> 0, wants |-> Free]
NoHandler == [at |-> "idle", event |-> 0]

(*************************************************************************)
(* Requests.  handle_new_auth_user makes the row at sign-up, on the Free *)
(* plan and with no customer.                                            *)
(*************************************************************************)
SubInit ==
    /\ customer = 0 /\ status = "active" /\ plan = Free
    /\ payments = <<>> /\ audit = {} /\ mails = [e \in 1..MaxEvents |-> 0]
    /\ customers = 0 /\ sessions = {} /\ subscriptions = <<>> /\ events = <<>>
    /\ heard = [e \in 1..MaxEvents |-> 0]
    /\ request = [r \in Request |-> NoRequest]
    /\ handler = [h \in Handler |-> NoHandler]
    /\ unread = {} /\ unguarded = {}

Goes(r, step) == request' = [request EXCEPT ![r].at = step]
Ends(r) == request' = [request EXCEPT ![r] = [@ EXCEPT !.at = "done", !.made = 0]]

Arrives(r, wanted) ==
    /\ request[r].at = "idle"
    /\ request' = [request EXCEPT ![r] = [@ EXCEPT !.at = "reads", !.wants = wanted]]
    /\ UNCHANGED <<rowVars, bookVars, stripeVars, heard, handler, historyVars>>

(* A sign-in wants nothing but the customer.                             *)
SignsIn(r) == Arrives(r, Free)

(* A checkout is refused for a plan that is Free, sold by hand, or has   *)
(* no product.                                                           *)
StartsCheckout(r) == \E wanted \in SelfServe : Arrives(r, wanted)

(* What the request does once it holds a customer.                       *)
HasCustomer(r, id) ==
    IF request[r].wants = Free THEN Ends(r)
    ELSE request' = [request EXCEPT ![r] = [@ EXCEPT !.at = "opens", !.made = id]]

(* The stored customer is used as it is; a failed read ends the request. *)
ReadSubscriber(r) ==
    /\ request[r].at = "reads"
    /\ \E failed \in Fails("lookup") :
         IF failed THEN Ends(r)
         ELSE IF customer # 0 THEN HasCustomer(r, customer)
         ELSE Goes(r, "creates")
    /\ UNCHANGED <<rowVars, bookVars, stripeVars, heard, handler, historyVars>>

(* Stripe makes a customer; its answer may be lost, and the request ends *)
(* with a customer nobody knows.                                         *)
CreateCustomer(r) ==
    /\ request[r].at = "creates"
    /\ customers' = customers + 1
    /\ \E lost \in Fails("lookup") :
         IF lost THEN Ends(r)
         ELSE request' = [request EXCEPT ![r] = [@ EXCEPT !.at = "stores", !.made = customers']]
    /\ UNCHANGED <<rowVars, bookVars, sessions, subscriptions, events, heard, handler, historyVars>>

(* Mutant: the id is stored whatever the row holds by now.               *)
StoresAnyway == TRUE
(* Whether the conditional write finds the column still null.            *)
StillUnset == customer = 0

(* The customer is stored only while none is; a caller that lost reads   *)
(* the row again and defers to what it finds.                            *)
StoreCustomer(r) ==
    /\ request[r].at = "stores"
    /\ \/ /\ TRUE \in Fails("write") /\ Ends(r) /\ UNCHANGED customer
       \/ /\ StillUnset
          /\ customer' = request[r].made
          /\ HasCustomer(r, request[r].made)
       \/ /\ ~StillUnset /\ Goes(r, "rereads") /\ UNCHANGED customer
    /\ UNCHANGED <<status, plan, bookVars, stripeVars, heard, handler, historyVars>>

(* The error of this read is not looked at: when it fails the request    *)
(* goes on with the customer it made itself.                             *)
RereadCustomer(r) ==
    /\ request[r].at = "rereads"
    /\ \E failed \in Fails("unchecked") :
         /\ HasCustomer(r, IF failed THEN request[r].made ELSE customer)
         /\ unread' = IF failed THEN unread \union {request[r].made} ELSE unread
    /\ UNCHANGED <<rowVars, bookVars, stripeVars, heard, handler, unguarded>>

(* The subscription-mode session names the customer, and the subscriber  *)
(* in the metadata of the subscription to be.                            *)
NewSession(r) == [customer |-> request[r].made, plan |-> request[r].wants, by |-> r]

(* The price lookup or the call to Stripe may fail.                      *)
OpenSession(r) ==
    /\ request[r].at = "opens"
    /\ \E failed \in Fails("lookup") :
         sessions' = IF failed THEN sessions ELSE sessions \union {NewSession(r)}
    /\ Ends(r)
    /\ UNCHANGED <<rowVars, bookVars, customers, subscriptions, events, heard, handler, historyVars>>

RequestDies(r) ==
    /\ "death" \in Faults
    /\ request[r].at \notin {"idle", "done"}
    /\ Ends(r)
    /\ UNCHANGED <<rowVars, bookVars, stripeVars, heard, handler, historyVars>>

(*************************************************************************)
(* Stripe.  A paid session becomes a live subscription; it is renewed or *)
(* changed, fails to be paid, is refunded in part and then in full, and  *)
(* is canceled.  Each emits its event.                                   *)
(*************************************************************************)
Emits(new) ==
    /\ Len(events) + Len(new) <= MaxEvents
    /\ events' = events \o new

Word(kind, u, total) == [type |-> kind, of |-> u, total |-> total]

PaySession(o) ==
    /\ Len(subscriptions) < MaxSubscriptions
    /\ sessions' = sessions \ {o}
    /\ subscriptions' = Append(subscriptions,
           [customer |-> o.customer, plan |-> o.plan, live |-> TRUE, refunded |-> 0])
    /\ LET u == Len(subscriptions) + 1
       IN  Emits(<<Word("updated", u, 0), Word("paid", u, 0)>>)
    /\ UNCHANGED <<rowVars, bookVars, customers, heard, request, handler, historyVars>>

SubscriptionMoves(u) ==
    /\ \/ /\ subscriptions[u].live
          /\ subscriptions' = [subscriptions EXCEPT ![u].live = FALSE]
          /\ Emits(<<Word("deleted", u, 0)>>)
       \/ /\ subscriptions[u].live
          /\ \E kind \in {"updated", "failed"} : Emits(<<Word(kind, u, 0)>>)
          /\ UNCHANGED subscriptions
       \/ /\ subscriptions[u].refunded < 2
          /\ subscriptions' = [subscriptions EXCEPT ![u].refunded = @ + 1]
          /\ Emits(<<Word("refunded", u, subscriptions[u].refunded + 1)>>)
    /\ UNCHANGED <<rowVars, bookVars, customers, sessions, heard, request, handler, historyVars>>

(*************************************************************************)
(* The webhook.                                                          *)
(*************************************************************************)
At(h, step) == handler[h].at = step
Of(h) == events[handler[h].event]
Turns(h, step) == handler' = [handler EXCEPT ![h].at = step]
Stops(h) == handler' = [handler EXCEPT ![h] = NoHandler]
GoesOn(h, failed, step) == IF failed THEN Stops(h) ELSE Turns(h, step)

(* POST checks the signature, answers 200 and hands the event to         *)
(* processEvent, which picks the handler by the event's type.            *)
Delivered(h, e) ==
    /\ At(h, "idle")
    /\ heard[e] < MaxDeliveries
    /\ heard' = [heard EXCEPT ![e] = @ + 1]
    /\ handler' = [handler EXCEPT ![h] = [at |-> events[e].type, event |-> e]]
    /\ UNCHANGED <<rowVars, bookVars, stripeVars, request, historyVars>>

HandlerDies(h) ==
    /\ "death" \in Faults
    /\ ~At(h, "idle")
    /\ Stops(h)
    /\ UNCHANGED <<rowVars, bookVars, stripeVars, heard, request, historyVars>>

(* The subscriber of the event's customer, found only by the customer    *)
(* that is stored.                                                       *)
IsStored(u) == subscriptions[u].customer = customer

(* The metadata, then the subscription id, which no row ever holds, then *)
(* the customer.  A failed read counts as a row that is not there.       *)
Resolves(u) ==
    IF "unchecked" \in Faults THEN {TRUE, IsStored(u), FALSE} ELSE {TRUE}

(* A created or updated subscription makes the subscriber active,        *)
(* whatever the subscription's own status, and gives it the plan of the  *)
(* product if one is found; a failed payment makes it past due.  Nothing *)
(* compares the event with what the row already says.                    *)
UpdateSubscriberStatus(h) ==
    /\ At(h, "updated") \/ At(h, "failed")
    /\ IF IsStored(Of(h).of)
         THEN \/ /\ status' = IF At(h, "updated") THEN "active" ELSE "past_due"
                 /\ \E matched \in {TRUE} \union {~failed : failed \in Fails("unchecked")} :
                      plan' = IF At(h, "updated") /\ matched
                              THEN subscriptions[Of(h).of].plan ELSE plan
              \/ TRUE \in Fails("write") \union Fails("lookup") /\ UNCHANGED <<status, plan>>
         ELSE UNCHANGED <<status, plan>>
    /\ Stops(h)
    /\ UNCHANGED <<customer, bookVars, stripeVars, heard, request, historyVars>>

(* Mutant: the unique event id is not enforced.                          *)
InsertsAgain(e) == FALSE
(* A payments row of this event is already there: the insert answers     *)
(* 23505 and the delivery stops.                                         *)
IsDuplicate(e) == \E p \in Range(payments) : p.event = e

(* The payment goes into the ledger first; the audit row that follows is *)
(* read by nobody.                                                       *)
RecordPayment(h) ==
    /\ At(h, "paid")
    /\ \E found \in Resolves(Of(h).of), failed \in Fails("write") :
         payments' = IF ~found \/ failed \/ IsDuplicate(handler[h].event) THEN payments
             ELSE Append(payments, [event |-> handler[h].event, of |-> Of(h).of,
                                    status |-> "succeeded", refunded |-> 0])
    /\ Stops(h)
    /\ UNCHANGED <<rowVars, audit, mails, stripeVars, heard, request, historyVars>>

(* Mutant: the audit trail is not consulted.                             *)
NeverHandled(e) == FALSE
(* The subscriber's audit trail names this very event.                   *)
AlreadyProcessed(e) == e \in audit

(* What the read of the audit trail says: its error is not looked at, so *)
(* a failed read says that nothing was handled.                          *)
SaysProcessed(e) == {AlreadyProcessed(e) /\ ~failed : failed \in Fails("unchecked")}

(* Past the check and not yet in the trail.                              *)
Untraced == {"downgrades", "settles", "audits"}

(* History: a delivery passes the check although the trail names its     *)
(* event, or beside another one that has passed it.                      *)
PassesUnguarded(h) ==
    \/ AlreadyProcessed(handler[h].event)
    \/ \E k \in Handler \ {h} : handler[k].event = handler[h].event /\ handler[k].at \in Untraced

Checks(h, ends, step) ==
    /\ GoesOn(h, ends, step)
    /\ unguarded' = IF ~ends /\ PassesUnguarded(h)
                    THEN unguarded \union {handler[h].event} ELSE unguarded

(* A deletion: resolve, consult the trail, read the Free plan.           *)
CheckDeletion(h) ==
    /\ At(h, "deleted")
    /\ \E found \in Resolves(Of(h).of), already \in SaysProcessed(handler[h].event),
         failed \in Fails("lookup") :
         Checks(h, ~found \/ already \/ failed, "downgrades")
    /\ UNCHANGED <<rowVars, bookVars, stripeVars, heard, request, unread>>

(* Whatever subscription the subscriber has by now, it is on Free.       *)
Downgrade(h) ==
    /\ At(h, "downgrades")
    /\ \E failed \in Fails("write") :
         /\ status' = IF failed THEN status ELSE "canceled"
         /\ plan' = IF failed THEN plan ELSE Free
         /\ GoesOn(h, failed, "audits")
    /\ UNCHANGED <<customer, bookVars, stripeVars, heard, request, historyVars>>

(* A refund: find the payment by its intent, then by its charge; consult *)
(* the trail.  A payment that is not in the ledger yet ends the work.    *)
CheckRefund(h) ==
    /\ At(h, "refunded")
    /\ \E already \in SaysProcessed(handler[h].event), failed \in Fails("unchecked") :
         Checks(h, failed \/ already \/ (\A p \in Range(payments) : p.of # Of(h).of), "settles")
    /\ UNCHANGED <<rowVars, bookVars, stripeVars, heard, request, unread>>

(* The row takes the event's running total, even when it is an old one.  *)
MarkRefunded(h) ==
    /\ At(h, "settles")
    /\ \E failed \in Fails("write") :
         /\ payments' = IF failed THEN payments ELSE
              [k \in DOMAIN payments |->
                 IF payments[k].of # Of(h).of THEN payments[k]
                 ELSE [payments[k] EXCEPT !.status = "refunded", !.refunded = Of(h).total]]
         /\ GoesOn(h, failed, "audits")
    /\ UNCHANGED <<rowVars, audit, mails, stripeVars, heard, request, historyVars>>

(* The trail is written before the mail, so that a mail that throws is   *)
(* never tried again.  writeAudit logs a failed insert and goes on.      *)
WriteAudit(h) ==
    /\ At(h, "audits")
    /\ \E failed \in Fails("audit") :
         /\ audit' = IF failed THEN audit ELSE audit \union {handler[h].event}
         /\ unguarded' = IF failed THEN unguarded \union {handler[h].event} ELSE unguarded
    /\ Turns(h, "mails")
    /\ UNCHANGED <<rowVars, payments, mails, stripeVars, heard, request, unread>>

(* The mail: the subscriber may have no address, or the sender throw.    *)
SendMail(h) ==
    /\ At(h, "mails")
    /\ \E sent \in BOOLEAN :
         mails' = IF sent THEN [mails EXCEPT ![handler[h].event] = @ + 1] ELSE mails
    /\ Stops(h)
    /\ UNCHANGED <<rowVars, payments, audit, stripeVars, heard, request, historyVars>>

(* processEvent: a deletion, then a refund of the subscription's payment.*)
CancelSubscription(h) == CheckDeletion(h) \/ Downgrade(h)
RefundPayment(h) == CheckRefund(h) \/ MarkRefunded(h)

SubNext ==
    \/ \E r \in Request :
         \/ SignsIn(r) \/ StartsCheckout(r) \/ ReadSubscriber(r) \/ CreateCustomer(r)
         \/ StoreCustomer(r) \/ RereadCustomer(r) \/ OpenSession(r) \/ RequestDies(r)
    \/ \E o \in sessions : PaySession(o)
    \/ \E u \in DOMAIN subscriptions : SubscriptionMoves(u)
    \/ \E h \in Handler :
         \/ \E e \in DOMAIN events : Delivered(h, e)
         \/ UpdateSubscriberStatus(h) \/ RecordPayment(h) \/ CancelSubscription(h)
         \/ RefundPayment(h) \/ WriteAudit(h) \/ SendMail(h) \/ HandlerDies(h)

SubSpec == SubInit /\ [][SubNext]_subVars

(*************************************************************************)
(* Properties.                                                           *)
(*************************************************************************)
(* Every Checkout Session is opened for the customer the subscriber's    *)
(* row holds, however many requests make one at once: a session on       *)
(* another would be paid for a customer whose events find no subscriber  *)
(* (stripe-customer.ts, the guarded write and the deferral).  The one    *)
(* exception is a request that lost the race and whose second read       *)
(* failed, which nobody looks at.                                        *)
SessionsUseStoredCustomer ==
    \A o \in sessions : o.customer # customer => o.customer \in unread

(* The ledger has a row per payment Stripe took, once, and says of none  *)
(* that more was returned than Stripe returned, nor that it was refunded *)
(* before Stripe refunded it (handlePaymentSucceeded and                 *)
(* handleChargeRefunded under repeated and reordered events).            *)
LedgerIsStripes ==
    /\ \A k, m \in DOMAIN payments : payments[k].of = payments[m].of => k = m
    /\ \A p \in Range(payments) :
         /\ p.refunded <= subscriptions[p.of].refunded
         /\ p.status = "refunded" <=> p.refunded > 0

(* A cancellation or a refund is mailed at most once, though its event   *)
(* is delivered again and a delivery may die anywhere ("this guard keeps *)
(* Stripe duplicate deliveries from sending a second email",             *)
(* stripe-webhook/route.ts:208), unless the trail could not guard it: a  *)
(* delivery passed the check beside another one, could not read the      *)
(* trail, or could not write to it.                                      *)
OneMailPerEvent == \A e \in 1..MaxEvents \ unguarded : mails[e] <= 1

(* A subscriber that pays for a plan is not put on Free: the downgrade   *)
(* happens when no subscription to that plan is live.  It does not hold  *)
(* once there are two: the downgrade never asks which one was deleted.   *)
PayingIsKept ==
    [][plan' = Free /\ plan # Free =>
         \A u \in DOMAIN subscriptions : subscriptions[u].live => plan # subscriptions[u].plan]_subVars
=============================================================================
