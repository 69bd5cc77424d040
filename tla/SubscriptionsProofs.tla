------------------------ MODULE SubscriptionsProofs ------------------------
(*************************************************************************)
(* What holds of Subscriptions for every number of requests, deliveries  *)
(* and events: a Checkout Session names the subscriber's own customer,   *)
(* an event is mailed about once, and the ledger is Stripe's.            *)
(*************************************************************************)
EXTENDS Subscriptions, TLAPS

(*************************************************************************)
(* Sessions.  The customer is written once, from null; a request holds   *)
(* one to open a session with only when it is that one, or one it went   *)
(* on with after a second read that failed.                              *)
(*************************************************************************)
RequestStep == {"idle", "reads", "creates", "stores", "rereads", "opens", "done"}

RequestsOK ==
    /\ customers \in Nat
    /\ customer \in Nat
    /\ request \in [Request -> [at : RequestStep, made : Nat, wants : SelfServe \union {Free}]]

MayBeUsed(id) == id = customer \/ id \in unread
HeldIsStored ==
    \A r \in Request :
        /\ request[r].at = "stores" => request[r].made # 0
        /\ request[r].at = "rereads" => customer # 0
        /\ request[r].at = "opens" => MayBeUsed(request[r].made) /\ customer # 0

SessionsAreStored == \A o \in sessions : MayBeUsed(o.customer) /\ customer # 0

CustomerInv == RequestsOK /\ HeldIsStored /\ SessionsAreStored

LEMMA CustomerInit == SubInit => CustomerInv
BY SMT DEF SubInit, CustomerInv, RequestsOK, RequestStep, HeldIsStored,
           SessionsAreStored, MayBeUsed, NoRequest

(* A request that ends holds nothing.                                    *)
LEMMA EndsOK ==
  ASSUME CustomerInv, NEW r \in Request, Ends(r),
         UNCHANGED <<customer, sessions, unread>>, customers' \in Nat
  PROVE  CustomerInv'
<1>1. /\ request'[r].at = "done"
      /\ \A q \in Request : q # r => request'[q] = request[q]
      /\ request' \in [Request -> [at : RequestStep, made : Nat,
                                   wants : SelfServe \union {Free}]]
  BY DEF CustomerInv, RequestsOK, RequestStep, Ends
<1>2. HeldIsStored'
  BY <1>1 DEF CustomerInv, HeldIsStored, MayBeUsed
<1>3. QED
  BY <1>1, <1>2 DEF CustomerInv, RequestsOK, SessionsAreStored, MayBeUsed

(* A request goes on with the stored customer, written just now or not,  *)
(* or with the one it made itself, unread.                               *)
LEMMA HasCustomerOK ==
  ASSUME CustomerInv, NEW r \in Request, NEW id \in Nat, HasCustomer(r, id),
         id = customer' \/ id \in unread', unread \subseteq unread',
         customer' \in Nat \ {0}, customer = 0 \/ customer' = customer,
         UNCHANGED <<customers, sessions>>
  PROVE  CustomerInv'
<1>1. /\ request' \in [Request -> [at : RequestStep, made : Nat,
                                   wants : SelfServe \union {Free}]]
      /\ \A q \in Request : q # r => request'[q] = request[q]
      /\ request'[r].at \in {"done", "opens"}
      /\ request'[r].at = "opens" => request'[r].made = id
  <2>1. CASE request[r].wants = Free
    <3>1. request' = [request EXCEPT ![r] = [@ EXCEPT !.at = "done", !.made = 0]]
      BY <2>1 DEF HasCustomer, Ends
    <3>2. QED
      BY <3>1 DEF CustomerInv, RequestsOK, RequestStep
  <2>2. CASE request[r].wants # Free
    <3>1. request' = [request EXCEPT ![r] = [@ EXCEPT !.at = "opens", !.made = id]]
      BY <2>2 DEF HasCustomer
    <3>2. QED
      BY <3>1 DEF CustomerInv, RequestsOK, RequestStep
  <2>3. QED
    BY <2>1, <2>2
<1>2. HeldIsStored'
  <2> SUFFICES ASSUME NEW q \in Request
               PROVE  /\ request'[q].at = "stores" => request'[q].made # 0
                      /\ request'[q].at = "rereads" => customer' # 0
                      /\ request'[q].at = "opens" =>
                           /\ request'[q].made = customer' \/ request'[q].made \in unread'
                           /\ customer' # 0
    BY DEF HeldIsStored, MayBeUsed
  <2>1. CASE q = r
    BY <2>1, <1>1
  <2>2. CASE q # r
    BY <2>2, <1>1 DEF CustomerInv, HeldIsStored, MayBeUsed
  <2>3. QED
    BY <2>1, <2>2
<1>3. SessionsAreStored'
  BY DEF CustomerInv, SessionsAreStored, MayBeUsed
<1>4. QED
  BY <1>1, <1>2, <1>3 DEF CustomerInv, RequestsOK

(* A request that only takes its next step keeps what it holds.          *)
LEMMA GoesOK ==
  ASSUME CustomerInv, NEW r \in Request, NEW step \in {"creates", "rereads"},
         Goes(r, step), step = "rereads" => customer # 0,
         UNCHANGED <<customer, customers, sessions, unread>>
  PROVE  CustomerInv'
<1>1. /\ request' \in [Request -> [at : RequestStep, made : Nat,
                                   wants : SelfServe \union {Free}]]
      /\ request'[r].at = step
      /\ \A q \in Request : q # r => request'[q] = request[q]
  BY DEF CustomerInv, RequestsOK, RequestStep, Goes
<1>2. HeldIsStored'
  BY <1>1 DEF CustomerInv, HeldIsStored, MayBeUsed
<1>3. QED
  BY <1>1, <1>2 DEF CustomerInv, RequestsOK, SessionsAreStored, MayBeUsed

LEMMA CustomerStep ==
  ASSUME CustomerInv, [SubNext]_subVars
  PROVE  CustomerInv'
<1> USE DEF rowVars, bookVars, stripeVars, historyVars
<1>1. ASSUME NEW r \in Request, NEW wanted \in SelfServe \union {Free}, Arrives(r, wanted)
      PROVE  CustomerInv'
  <2>1. request' = [request EXCEPT ![r] = [@ EXCEPT !.at = "reads", !.wants = wanted]]
    BY <1>1 DEF Arrives
  <2>2. /\ request' \in [Request -> [at : RequestStep, made : Nat,
                                     wants : SelfServe \union {Free}]]
        /\ request'[r].at = "reads"
        /\ \A q \in Request : q # r => request'[q] = request[q]
    BY <2>1 DEF CustomerInv, RequestsOK, RequestStep
  <2>3. UNCHANGED <<customer, customers, sessions, unread>>
    BY <1>1 DEF Arrives
  <2>4. HeldIsStored'
    BY <2>2, <2>3 DEF CustomerInv, HeldIsStored, MayBeUsed
  <2>5. QED
    BY <2>2, <2>3, <2>4 DEF CustomerInv, RequestsOK, SessionsAreStored, MayBeUsed
<1>2. ASSUME NEW r \in Request, ReadSubscriber(r)
      PROVE  CustomerInv'
  <2>1. /\ UNCHANGED <<customer, customers, sessions, unread>>
        /\ customer \in Nat /\ customers \in Nat
    BY <1>2 DEF ReadSubscriber, CustomerInv, RequestsOK
  <2>2. \/ Ends(r)
        \/ customer # 0 /\ HasCustomer(r, customer)
        \/ Goes(r, "creates")
    BY <1>2 DEF ReadSubscriber
  <2>3. customer' = customer
    BY <2>1
  <2>4. QED
    BY <2>1, <2>2, <2>3, EndsOK, HasCustomerOK, GoesOK
<1>3. ASSUME NEW r \in Request, CreateCustomer(r)
      PROVE  CustomerInv'
  <2>1. customers' \in Nat \ {0} /\ UNCHANGED <<customer, sessions, unread>>
    BY <1>3 DEF CreateCustomer, CustomerInv, RequestsOK
  <2>2. CASE Ends(r)
    BY <2>1, <2>2, EndsOK
  <2>3. CASE request' = [request EXCEPT ![r] = [@ EXCEPT !.at = "stores", !.made = customers']]
    <3>1. /\ request' \in [Request -> [at : RequestStep, made : Nat,
                                       wants : SelfServe \union {Free}]]
          /\ request'[r].at = "stores" /\ request'[r].made # 0
          /\ \A q \in Request : q # r => request'[q] = request[q]
      BY <2>1, <2>3 DEF CustomerInv, RequestsOK, RequestStep
    <3>2. HeldIsStored'
      BY <3>1, <2>1 DEF CustomerInv, HeldIsStored, MayBeUsed
    <3>3. QED
      BY <3>1, <3>2, <2>1 DEF CustomerInv, RequestsOK, SessionsAreStored, MayBeUsed
  <2>4. QED
    BY <1>3, <2>2, <2>3 DEF CreateCustomer
<1>4. ASSUME NEW r \in Request, StoreCustomer(r)
      PROVE  CustomerInv'
  <2>1. /\ UNCHANGED <<customers, sessions, unread>>
        /\ customers \in Nat /\ customer \in Nat
    BY <1>4 DEF StoreCustomer, CustomerInv, RequestsOK
  <2>2. CASE Ends(r) /\ UNCHANGED customer
    BY <2>1, <2>2, EndsOK
  <2>3. CASE /\ StillUnset
             /\ customer' = request[r].made
             /\ HasCustomer(r, request[r].made)
    <3>1. customer' \in Nat \ {0}
      BY <1>4, <2>3 DEF StoreCustomer, CustomerInv, RequestsOK, HeldIsStored
    <3>2. customer = 0 /\ HasCustomer(r, customer')
      BY <2>3 DEF StillUnset
    <3>3. QED
      BY <2>1, <3>1, <3>2, HasCustomerOK
  <2>4. CASE ~StillUnset /\ Goes(r, "rereads") /\ UNCHANGED customer
    BY <2>1, <2>4, GoesOK DEF StillUnset
  <2>5. QED
    BY <1>4, <2>2, <2>3, <2>4 DEF StoreCustomer
<1>5. ASSUME NEW r \in Request, RereadCustomer(r)
      PROVE  CustomerInv'
  <2>1. /\ UNCHANGED <<customer, customers, sessions>>
        /\ customer \in Nat \ {0} /\ request[r].made \in Nat
    BY <1>5 DEF RereadCustomer, CustomerInv, RequestsOK, HeldIsStored
  <2>2. \/ HasCustomer(r, customer) /\ UNCHANGED unread
        \/ HasCustomer(r, request[r].made) /\ unread' = unread \union {request[r].made}
    BY <1>5 DEF RereadCustomer
  <2>3. QED
    BY <2>1, <2>2, HasCustomerOK
<1>6. ASSUME NEW r \in Request, OpenSession(r)
      PROVE  CustomerInv'
  <2>1. /\ UNCHANGED <<customer, customers, unread>> /\ Ends(r)
        /\ MayBeUsed(request[r].made) /\ customer # 0
        /\ \A o \in sessions' : o \in sessions \/ o.customer = request[r].made
    BY <1>6 DEF OpenSession, NewSession, CustomerInv, HeldIsStored
  <2>2. /\ request'[r].at = "done"
        /\ \A q \in Request : q # r => request'[q] = request[q]
        /\ request' \in [Request -> [at : RequestStep, made : Nat,
                                     wants : SelfServe \union {Free}]]
    BY <2>1 DEF CustomerInv, RequestsOK, RequestStep, Ends
  <2>3. HeldIsStored'
    BY <2>1, <2>2 DEF CustomerInv, HeldIsStored, MayBeUsed
  <2>4. SessionsAreStored'
    BY <2>1 DEF CustomerInv, SessionsAreStored, MayBeUsed
  <2>5. QED
    BY <2>1, <2>2, <2>3, <2>4 DEF CustomerInv, RequestsOK
<1>7. ASSUME NEW r \in Request, RequestDies(r)
      PROVE  CustomerInv'
  <2>1. Ends(r) /\ UNCHANGED <<customer, sessions, unread>> /\ customers' \in Nat
    BY <1>7 DEF RequestDies, CustomerInv, RequestsOK
  <2>2. QED
    BY <2>1, EndsOK
<1>8. ASSUME UNCHANGED <<customer, customers, request, unread>>, sessions' \subseteq sessions
      PROVE  CustomerInv'
  BY <1>8 DEF CustomerInv, RequestsOK, HeldIsStored, SessionsAreStored, MayBeUsed
<1>9. ASSUME NEW o \in sessions, PaySession(o)
      PROVE  CustomerInv'
  BY <1>8, <1>9 DEF PaySession
<1>10. ASSUME NEW u \in DOMAIN subscriptions, SubscriptionMoves(u)
       PROVE  CustomerInv'
  BY <1>8, <1>10 DEF SubscriptionMoves
<1>11. ASSUME NEW h \in Handler,
              \/ \E e \in DOMAIN events : Delivered(h, e)
              \/ UpdateSubscriberStatus(h) \/ RecordPayment(h) \/ CancelSubscription(h)
              \/ RefundPayment(h) \/ WriteAudit(h) \/ SendMail(h) \/ HandlerDies(h)
       PROVE  CustomerInv'
  <2>1. UNCHANGED <<customer, customers, request, sessions, unread>>
    BY <1>11 DEF Delivered, UpdateSubscriberStatus, RecordPayment, CancelSubscription,
         CheckDeletion, Downgrade, RefundPayment, CheckRefund, MarkRefunded, WriteAudit,
         SendMail, HandlerDies
  <2>2. QED
    BY <1>8, <2>1
<1>12. CASE UNCHANGED subVars
  BY <1>8, <1>12 DEF subVars
<1>13. QED
  BY <1>1, <1>2, <1>3, <1>4, <1>5, <1>6, <1>7, <1>9, <1>10, <1>11, <1>12
     DEF SubNext, SignsIn, StartsCheckout

(* Every Checkout Session is opened for the customer the subscriber's    *)
(* row holds, however many requests make one at once, unless the request *)
(* lost the race and its second read failed (stripe-customer.ts:37-58).  *)
THEOREM SessionsUseStored == SubSpec => []SessionsUseStoredCustomer
<1>1. CustomerInv => SessionsUseStoredCustomer
  BY DEF CustomerInv, SessionsAreStored, MayBeUsed, SessionsUseStoredCustomer
<1>2. CustomerInv /\ [SubNext]_subVars => CustomerInv'
  BY CustomerStep
<1>3. QED
  BY CustomerInit, <1>1, <1>2, PTL DEF SubSpec

(*************************************************************************)
(* Mails.  Of an event the trail could guard, one delivery at most is    *)
(* past the check, it found the event untouched, and a mailed event is   *)
(* in the trail.                                                         *)
(*************************************************************************)
EventType == {"updated", "deleted", "paid", "failed", "refunded"}
Working == {"downgrades", "settles", "audits", "mails"}
EventId == 1..MaxEvents

Event == [type : EventType, of : Nat, total : Nat]
Subscription ==
    [customer : Nat, plan : SelfServe \union {Free}, live : BOOLEAN, refunded : Nat]
StripeOK ==
    /\ sessions \subseteq [customer : Nat, plan : SelfServe \union {Free}, by : Request]
    /\ subscriptions \in Seq(Subscription)
    /\ events \in Seq(Event)
    /\ Len(events) <= MaxEvents
HandlersOK ==
    /\ handler \in [Handler -> [at : EventType \union Working \union {"idle"}, event : Nat]]
    /\ \A h \in Handler :
         IF handler[h].at = "idle" THEN handler[h].event = 0 ELSE handler[h].event \in EventId

MailedAreAudited ==
    /\ mails \in [EventId -> Nat]
    /\ \A e \in EventId \ unguarded : mails[e] <= 1 /\ (mails[e] # 0 => e \in audit)
WorksAlone ==
    \A h \in Handler : handler[h].at \in Working /\ handler[h].event \notin unguarded =>
        /\ mails[handler[h].event] = 0
        /\ handler[h].at = "mails" => handler[h].event \in audit
        /\ \A k \in Handler \ {h} :
             handler[k].at \in Working => handler[k].event # handler[h].event

MailInv == HandlersOK /\ MailedAreAudited /\ WorksAlone

LEMMA MailInit == SubInit => StripeOK /\ MailInv
<1> SUFFICES ASSUME SubInit
             PROVE  StripeOK /\ MailInv
  OBVIOUS
<1>1. StripeOK
  BY SubscriptionsAssumption DEF SubInit, StripeOK
<1>2. HandlersOK
  BY DEF SubInit, HandlersOK, NoHandler
<1>3. MailedAreAudited /\ WorksAlone
  BY DEF SubInit, MailedAreAudited, WorksAlone, NoHandler, Working, EventId
<1>4. QED
  BY <1>1, <1>2, <1>3 DEF MailInv

(* A delivery that stops leaves the others as they are.                  *)
LEMMA StopsOK ==
  ASSUME MailInv, NEW h \in Handler, Stops(h), UNCHANGED <<mails, audit>>,
         unguarded \subseteq unguarded'
  PROVE  MailInv'
<1>1. /\ handler' \in [Handler -> [at : EventType \union Working \union {"idle"}, event : Nat]]
      /\ handler'[h] = NoHandler
      /\ \A k \in Handler : k # h => handler'[k] = handler[k]
  BY DEF MailInv, HandlersOK, Stops, NoHandler
<1>2. HandlersOK'
  BY <1>1 DEF MailInv, HandlersOK, NoHandler
<1>3. MailedAreAudited'
  BY DEF MailInv, MailedAreAudited
<1>4. WorksAlone'
  BY <1>1 DEF MailInv, WorksAlone, NoHandler, Working
<1>5. QED
  BY <1>2, <1>3, <1>4 DEF MailInv

(* A delivery may take its next step when its event is not mailed yet    *)
(* and no other is past the check for it.                                *)
LEMMA TurnsOK ==
  ASSUME MailInv, NEW h \in Handler, NEW step \in {"downgrades", "settles", "audits"},
         Turns(h, step), handler[h].at # "idle",
         UNCHANGED <<mails, audit>>, unguarded \subseteq unguarded',
         handler[h].event \notin unguarded' =>
           /\ mails[handler[h].event] = 0
           /\ \A k \in Handler \ {h} :
                handler[k].at \in Working => handler[k].event # handler[h].event
  PROVE  MailInv'
<1>1. /\ handler' \in [Handler -> [at : EventType \union Working \union {"idle"}, event : Nat]]
      /\ handler'[h].at = step /\ handler'[h].event = handler[h].event
      /\ \A k \in Handler : k # h => handler'[k] = handler[k]
      /\ step # "idle" /\ step # "mails"
  BY DEF MailInv, HandlersOK, Turns, Working
<1>2. HandlersOK'
  BY <1>1 DEF MailInv, HandlersOK
<1>3. MailedAreAudited'
  BY DEF MailInv, MailedAreAudited
<1>4. WorksAlone'
  <2> SUFFICES ASSUME NEW g \in Handler, handler'[g].at \in Working,
                      handler'[g].event \notin unguarded'
               PROVE  /\ mails[handler'[g].event] = 0
                      /\ handler'[g].at = "mails" => handler'[g].event \in audit
                      /\ \A k \in Handler \ {g} :
                           handler'[k].at \in Working => handler'[k].event # handler'[g].event
    BY DEF WorksAlone
  <2>1. CASE g = h
    BY <1>1, <2>1
  <2>2. CASE g # h
    BY <1>1, <2>2 DEF MailInv, WorksAlone
  <2>3. QED
    BY <2>1, <2>2
<1>5. QED
  BY <1>2, <1>3, <1>4 DEF MailInv

(* Stripe's own records stay well formed.                                *)
LEMMA StripeStep ==
  ASSUME RequestsOK, StripeOK, [SubNext]_subVars
  PROVE  StripeOK'
<1> USE DEF rowVars, bookVars, stripeVars, historyVars
<1>1. ASSUME NEW r \in Request, OpenSession(r)
      PROVE  StripeOK'
  <2>1. request[r].made \in Nat /\ request[r].wants \in SelfServe \union {Free}
    BY DEF RequestsOK
  <2>2. QED
    BY <1>1, <2>1 DEF OpenSession, NewSession, StripeOK
<1>2. ASSUME NEW o \in sessions, PaySession(o)
      PROVE  StripeOK'
  <2> DEFINE u == Len(subscriptions) + 1
             new == <<Word("updated", u, 0), Word("paid", u, 0)>>
  <2>1. new \in Seq(Event)
    BY DEF StripeOK, Word, Event, EventType
  <2>2. Emits(new) /\ sessions' \subseteq sessions
    BY <1>2 DEF PaySession
  <2>3. [customer |-> o.customer, plan |-> o.plan, live |-> TRUE, refunded |-> 0]
          \in Subscription
    BY DEF StripeOK, Subscription
  <2>4. subscriptions' \in Seq(Subscription)
    BY <1>2, <2>3 DEF PaySession, StripeOK
  <2>5. events' \in Seq(Event) /\ Len(events') <= MaxEvents
    BY <2>1, <2>2 DEF Emits, StripeOK
  <2>6. QED
    BY <2>2, <2>4, <2>5 DEF StripeOK
<1>3. ASSUME NEW u \in DOMAIN subscriptions, SubscriptionMoves(u)
      PROVE  StripeOK'
  <2>1. u \in Nat /\ subscriptions[u].refunded \in Nat
    <3>1. u \in 1..Len(subscriptions) /\ subscriptions[u] \in Subscription
      BY DEF StripeOK
    <3>2. QED
      BY <3>1 DEF Subscription
  <2>2. \E new \in Seq(Event) : Emits(new)
    <3>1. /\ <<Word("deleted", u, 0)>> \in Seq(Event)
          /\ <<Word("refunded", u, subscriptions[u].refunded + 1)>>
                \in Seq(Event)
          /\ \A kind \in {"updated", "failed"} :
               <<Word(kind, u, 0)>> \in Seq(Event)
      BY <2>1 DEF Word, Event, EventType
    <3>2. QED
      BY <1>3, <3>1 DEF SubscriptionMoves
  <2>3. /\ UNCHANGED sessions
        /\ \/ UNCHANGED subscriptions
           \/ subscriptions' = [subscriptions EXCEPT ![u].live = FALSE]
           \/ subscriptions' = [subscriptions EXCEPT ![u].refunded = @ + 1]
    BY <1>3 DEF SubscriptionMoves
  <2>4. subscriptions' \in Seq(Subscription)
    <3>1. u \in 1..Len(subscriptions) /\ subscriptions[u] \in Subscription
      BY DEF StripeOK
    <3>2. /\ [subscriptions[u] EXCEPT !.live = FALSE] \in Subscription
          /\ [subscriptions[u] EXCEPT !.refunded = @ + 1] \in Subscription
      <4>1. \A t \in Subscription, n \in Nat :
              /\ [t EXCEPT !.live = FALSE] \in Subscription
              /\ [t EXCEPT !.refunded = n] \in Subscription
        BY DEF Subscription
      <4>2. subscriptions[u].refunded + 1 \in Nat
        BY <2>1
      <4>3. QED
        BY <3>1, <4>1, <4>2
    <3>3. \A new \in Subscription :
            [subscriptions EXCEPT ![u] = new] \in Seq(Subscription)
      BY <3>1 DEF StripeOK
    <3>4. QED
      BY <2>3, <3>2, <3>3 DEF StripeOK
  <2>5. events' \in Seq(Event) /\ Len(events') <= MaxEvents
    BY <2>2 DEF Emits, StripeOK
  <2>6. QED
    BY <2>3, <2>4, <2>5 DEF StripeOK
<1>4. ASSUME UNCHANGED <<sessions, subscriptions, events>>
      PROVE  StripeOK'
  BY <1>4 DEF StripeOK
<1>5. ASSUME NEW r \in Request,
             \/ SignsIn(r) \/ StartsCheckout(r) \/ ReadSubscriber(r)
             \/ CreateCustomer(r) \/ StoreCustomer(r) \/ RereadCustomer(r) \/ RequestDies(r)
      PROVE  StripeOK'
  BY <1>4, <1>5 DEF Arrives, SignsIn, StartsCheckout, ReadSubscriber, CreateCustomer,
     StoreCustomer, RereadCustomer,
     RequestDies
<1>6. ASSUME NEW h \in Handler,
             \/ \E e \in DOMAIN events : Delivered(h, e)
             \/ UpdateSubscriberStatus(h) \/ RecordPayment(h) \/ CancelSubscription(h)
             \/ RefundPayment(h) \/ WriteAudit(h) \/ SendMail(h) \/ HandlerDies(h)
      PROVE  StripeOK'
  BY <1>4, <1>6 DEF Delivered, UpdateSubscriberStatus, RecordPayment, CancelSubscription,
     CheckDeletion, Downgrade, RefundPayment, CheckRefund, MarkRefunded, WriteAudit,
     SendMail, HandlerDies
<1>7. CASE UNCHANGED subVars
  BY <1>4, <1>7 DEF subVars
<1>8. QED
  BY <1>1, <1>2, <1>3, <1>5, <1>6, <1>7 DEF SubNext

(* A new delivery is not past the check.                                 *)
LEMMA DeliveredOK ==
  ASSUME StripeOK, MailInv, NEW h \in Handler, NEW e \in DOMAIN events,
         Delivered(h, e)
  PROVE  MailInv'
<1>1. e \in EventId /\ e \in Nat \ {0} /\ events[e].type \in EventType
  <2>1. e \in 1..Len(events) /\ events[e] \in Event
    BY DEF StripeOK
  <2>2. QED
    BY <2>1, SubscriptionsAssumption DEF StripeOK, EventId, Event
<1>2. /\ handler' = [handler EXCEPT ![h] = [at |-> events[e].type, event |-> e]]
      /\ UNCHANGED <<mails, audit, unguarded>>
  BY DEF Delivered, bookVars, historyVars
<1>3. /\ handler' \in [Handler -> [at : EventType \union Working \union {"idle"}, event : Nat]]
      /\ handler'[h].at = events[e].type /\ handler'[h].event = e
      /\ \A k \in Handler : k # h => handler'[k] = handler[k]
  BY <1>1, <1>2 DEF MailInv, HandlersOK
<1>4. events[e].type \notin Working \union {"idle"}
  BY <1>1 DEF EventType, Working
<1>5. HandlersOK'
  BY <1>1, <1>3, <1>4 DEF MailInv, HandlersOK
<1>6. MailedAreAudited'
  BY <1>2 DEF MailInv, MailedAreAudited
<1>7. WorksAlone'
  BY <1>2, <1>3, <1>4 DEF MailInv, WorksAlone
<1>8. QED
  BY <1>5, <1>6, <1>7 DEF MailInv

(* A delivery that passes the check of an event it leaves guarded found  *)
(* the event unmailed, and no other past the check.                      *)
LEMMA CheckedOK ==
  ASSUME MailInv, NEW h \in Handler, NEW step \in {"downgrades", "settles"},
         handler[h].at # "idle", NEW ends \in BOOLEAN, Checks(h, ends, step),
         UNCHANGED <<mails, audit>>
  PROVE  MailInv'
<1>1. unguarded \subseteq unguarded'
  BY DEF Checks
<1>2. CASE ends
  BY <1>1, <1>2, StopsOK DEF Checks, GoesOn
<1>3. CASE ~ends
  <2>1. Turns(h, step)
    BY <1>3 DEF Checks, GoesOn
  <2>2. ASSUME handler[h].event \notin unguarded'
        PROVE  /\ mails[handler[h].event] = 0
               /\ \A k \in Handler \ {h} :
                    handler[k].at \in Working => handler[k].event # handler[h].event
    <3>1. ~PassesUnguarded(h) /\ handler[h].event \notin unguarded
      BY <1>3, <2>2 DEF Checks
    <3>2. /\ handler[h].event \notin audit
          /\ \A k \in Handler \ {h} :
               handler[k].event = handler[h].event => handler[k].at \notin Untraced
      BY <3>1 DEF PassesUnguarded, AlreadyProcessed
    <3>3. mails[handler[h].event] = 0
      BY <3>1, <3>2 DEF MailInv, HandlersOK, MailedAreAudited
    <3>4. \A k \in Handler \ {h} :
             handler[k].at = "mails" => handler[k].event # handler[h].event
      BY <3>1, <3>2 DEF MailInv, WorksAlone, Working
    <3>5. QED
      BY <3>2, <3>3, <3>4 DEF Untraced, Working
  <2>3. QED
    BY <1>1, <2>1, <2>2, TurnsOK
<1>4. QED
  BY <1>2, <1>3

(* The write between the check and the audit row.                        *)
LEMMA WrittenOK ==
  ASSUME MailInv, NEW h \in Handler, handler[h].at \in {"downgrades", "settles"},
         NEW failed \in BOOLEAN, GoesOn(h, failed, "audits"),
         UNCHANGED <<mails, audit, unguarded>>
  PROVE  MailInv'
<1>1. handler[h].at # "idle" /\ handler[h].at \in Working
  BY DEF Working
<1>2. handler[h].event \notin unguarded' =>
        /\ mails[handler[h].event] = 0
        /\ \A k \in Handler \ {h} :
             handler[k].at \in Working => handler[k].event # handler[h].event
  BY <1>1 DEF MailInv, WorksAlone
<1>3. Stops(h) \/ Turns(h, "audits")
  BY DEF GoesOn
<1>4. CASE Stops(h)
  BY <1>4, StopsOK
<1>5. CASE Turns(h, "audits")
  BY <1>1, <1>2, <1>5, TurnsOK
<1>6. QED
  BY <1>3, <1>4, <1>5

(* The trail takes the event, or the event is left unguarded.            *)
LEMMA AuditedOK ==
  ASSUME MailInv, NEW h \in Handler, WriteAudit(h)
  PROVE  MailInv'
<1> DEFINE e == handler[h].event
<1>1. /\ handler[h].at = "audits" /\ mails' = mails
      /\ handler' = [handler EXCEPT ![h].at = "mails"]
      /\ audit \subseteq audit' /\ unguarded \subseteq unguarded'
      /\ e \in audit' \/ e \in unguarded'
  BY DEF WriteAudit, At, Turns
<1>2. /\ handler' \in [Handler -> [at : EventType \union Working \union {"idle"}, event : Nat]]
      /\ handler'[h].at = "mails" /\ handler'[h].event = e
      /\ \A k \in Handler : k # h => handler'[k] = handler[k]
  BY <1>1 DEF MailInv, HandlersOK, Working
<1>3. HandlersOK'
  BY <1>1, <1>2 DEF MailInv, HandlersOK
<1>4. MailedAreAudited'
  BY <1>1 DEF MailInv, MailedAreAudited
<1>5. WorksAlone'
  BY <1>1, <1>2 DEF MailInv, WorksAlone, Working
<1>6. QED
  BY <1>3, <1>4, <1>5 DEF MailInv

(* The mail is the first of an event that is guarded.                    *)
LEMMA MailSentOK ==
  ASSUME MailInv, NEW h \in Handler, SendMail(h)
  PROVE  MailInv'
<1> DEFINE e == handler[h].event
<1>1. handler[h].at = "mails" /\ handler[h].at \in Working /\ e \in EventId
  BY DEF SendMail, At, MailInv, HandlersOK, Working
<1>2. /\ UNCHANGED <<audit, unguarded>>
      /\ mails' = mails \/ mails' = [mails EXCEPT ![e] = @ + 1]
      /\ handler' = [handler EXCEPT ![h] = NoHandler]
  BY DEF SendMail, Stops, historyVars
<1>3. /\ handler' \in [Handler -> [at : EventType \union Working \union {"idle"}, event : Nat]]
      /\ handler'[h] = NoHandler
      /\ \A k \in Handler : k # h => handler'[k] = handler[k]
  BY <1>2 DEF MailInv, HandlersOK, NoHandler
<1>4. HandlersOK'
  BY <1>3 DEF MailInv, HandlersOK, NoHandler
<1>5. /\ mails' \in [EventId -> Nat]
      /\ mails'[e] = mails[e] \/ mails'[e] = mails[e] + 1
      /\ \A d \in EventId : d # e => mails'[d] = mails[d]
  BY <1>1, <1>2 DEF MailInv, MailedAreAudited
<1>6. e \notin unguarded => mails[e] = 0 /\ e \in audit
  BY <1>1 DEF MailInv, WorksAlone
<1>7. MailedAreAudited'
  BY <1>2, <1>5, <1>6 DEF MailInv, MailedAreAudited
<1>8. WorksAlone'
  <2> SUFFICES ASSUME NEW g \in Handler, handler'[g].at \in Working,
                      handler'[g].event \notin unguarded
               PROVE  /\ mails'[handler'[g].event] = 0
                      /\ handler'[g].at = "mails" => handler'[g].event \in audit
                      /\ \A k \in Handler \ {g} :
                           handler'[k].at \in Working => handler'[k].event # handler'[g].event
    BY <1>2 DEF WorksAlone
  <2>1. g # h /\ handler'[g] = handler[g] /\ handler[g].event \in EventId
    BY <1>3 DEF NoHandler, Working, MailInv, HandlersOK
  <2>2. handler[g].event # e
    BY <1>1, <2>1 DEF MailInv, WorksAlone
  <2>3. mails'[handler[g].event] = 0
    BY <1>5, <2>1, <2>2 DEF MailInv, WorksAlone
  <2>4. \A k \in Handler \ {g} :
           handler'[k].at \in Working => handler'[k].event # handler'[g].event
    BY <1>3, <2>1 DEF MailInv, WorksAlone, NoHandler, Working
  <2>5. QED
    BY <2>1, <2>3, <2>4 DEF MailInv, WorksAlone
<1>9. QED
  BY <1>4, <1>7, <1>8 DEF MailInv

LEMMA MailStep ==
  ASSUME StripeOK, MailInv, [SubNext]_subVars
  PROVE  MailInv'
<1> USE DEF rowVars, bookVars, stripeVars, historyVars
<1>1. ASSUME UNCHANGED <<handler, mails, audit, unguarded>>
      PROVE  MailInv'
  BY <1>1 DEF MailInv, HandlersOK, MailedAreAudited, WorksAlone
<1>2. ASSUME NEW r \in Request,
             \/ SignsIn(r) \/ StartsCheckout(r) \/ ReadSubscriber(r)
             \/ CreateCustomer(r) \/ StoreCustomer(r) \/ RereadCustomer(r) \/ OpenSession(r) \/ RequestDies(r)
      PROVE  MailInv'
  BY <1>1, <1>2 DEF Arrives, SignsIn, StartsCheckout, ReadSubscriber, CreateCustomer,
     StoreCustomer, RereadCustomer,
     OpenSession, RequestDies
<1>3. ASSUME \/ \E o \in sessions : PaySession(o)
             \/ \E u \in DOMAIN subscriptions : SubscriptionMoves(u)
      PROVE  MailInv'
  BY <1>1, <1>3 DEF PaySession, SubscriptionMoves
<1>4. ASSUME NEW h \in Handler, NEW e \in DOMAIN events, Delivered(h, e)
      PROVE  MailInv'
  BY <1>4, DeliveredOK
<1>5. ASSUME NEW h \in Handler,
             UpdateSubscriberStatus(h) \/ RecordPayment(h) \/ HandlerDies(h)
      PROVE  MailInv'
  BY <1>5, StopsOK DEF UpdateSubscriberStatus, RecordPayment, HandlerDies
<1>6. ASSUME NEW h \in Handler, CheckDeletion(h)
      PROVE  MailInv'
  <2>1. PICK found \in Resolves(Of(h).of), already \in SaysProcessed(handler[h].event),
             failed \in Fails("lookup") :
          Checks(h, ~found \/ already \/ failed, "downgrades")
    BY <1>6 DEF CheckDeletion
  <2>2. handler[h].at # "idle" /\ UNCHANGED <<mails, audit>>
    BY <1>6 DEF CheckDeletion, At
  <2>3. (~found \/ already \/ failed) \in BOOLEAN
    OBVIOUS
  <2>4. QED
    BY <2>1, <2>2, <2>3, CheckedOK
<1>7. ASSUME NEW h \in Handler, CheckRefund(h)
      PROVE  MailInv'
  <2>1. PICK already \in SaysProcessed(handler[h].event), failed \in Fails("unchecked") :
          Checks(h, failed \/ already \/ (\A p \in Range(payments) : p.of # Of(h).of), "settles")
    BY <1>7 DEF CheckRefund
  <2>2. handler[h].at # "idle" /\ UNCHANGED <<mails, audit>>
    BY <1>7 DEF CheckRefund, At
  <2> DEFINE ends == failed \/ already \/ (\A p \in Range(payments) : p.of # Of(h).of)
  <2>3. ends \in BOOLEAN
    OBVIOUS
  <2>4. Checks(h, ends, "settles")
    BY <2>1
  <2>5. QED
    BY <2>2, <2>3, <2>4, CheckedOK
<1>8. ASSUME NEW h \in Handler, Downgrade(h) \/ MarkRefunded(h)
      PROVE  MailInv'
  <2>1. /\ handler[h].at \in {"downgrades", "settles"}
        /\ \E failed \in BOOLEAN : GoesOn(h, failed, "audits")
        /\ UNCHANGED <<mails, audit, unguarded>>
    BY <1>8 DEF Downgrade, MarkRefunded, At, Fails
  <2>2. QED
    BY <2>1, WrittenOK
<1>9. ASSUME NEW h \in Handler, WriteAudit(h) \/ SendMail(h)
      PROVE  MailInv'
  BY <1>9, AuditedOK, MailSentOK
<1>10. CASE UNCHANGED subVars
  BY <1>1, <1>10 DEF subVars
<1>11. QED
  BY <1>2, <1>3, <1>4, <1>5, <1>6, <1>7, <1>8, <1>9, <1>10
     DEF SubNext, CancelSubscription, RefundPayment

(* A cancellation or a refund is mailed at most once, however its        *)
(* deliveries repeat and overlap and wherever they die, unless the trail *)
(* could not guard it (stripe-webhook/route.ts:205-296).                 *)
THEOREM MailedOnce == SubSpec => []OneMailPerEvent
<1> DEFINE Inv == CustomerInv /\ StripeOK /\ MailInv
<1>1. SubInit => Inv
  BY CustomerInit, MailInit
<1>2. Inv /\ [SubNext]_subVars => Inv'
  BY CustomerStep, StripeStep, MailStep DEF CustomerInv
<1>3. Inv => OneMailPerEvent
  <2>1. ASSUME MailInv, NEW e \in 1..MaxEvents \ unguarded
        PROVE  mails[e] <= 1
    BY <2>1 DEF MailInv, MailedAreAudited, EventId
  <2>2. QED
    BY <2>1 DEF OneMailPerEvent
<1>4. QED
  BY <1>1, <1>2, <1>3, PTL DEF SubSpec

(*************************************************************************)
(* The ledger.  Stripe says of a subscription once that it was paid and, *)
(* of every refund, a total it has returned by then; a delivery works on *)
(* an event of its kind, and a payment is the row of its event.          *)
(*************************************************************************)
(* Requests stay well formed whatever fails.                             *)
LEMMA RequestsStep ==
  ASSUME RequestsOK, [SubNext]_subVars
  PROVE  RequestsOK'
<1> USE DEF rowVars, bookVars, stripeVars, historyVars
<1>1. ASSUME NEW r \in Request, Ends(r), customers' \in Nat, customer' \in Nat
      PROVE  RequestsOK'
  BY <1>1 DEF RequestsOK, RequestStep, Ends
<1>2. ASSUME NEW r \in Request, NEW step \in {"creates", "rereads"}, Goes(r, step),
             customers' \in Nat, customer' \in Nat
      PROVE  RequestsOK'
  BY <1>2 DEF RequestsOK, RequestStep, Goes
<1>3. ASSUME NEW r \in Request, NEW id \in Nat, HasCustomer(r, id),
             customers' \in Nat, customer' \in Nat
      PROVE  RequestsOK'
  <2>1. CASE request[r].wants = Free
    BY <1>1, <1>3, <2>1 DEF HasCustomer
  <2>2. CASE request[r].wants # Free
    <3>1. request' = [request EXCEPT ![r] = [@ EXCEPT !.at = "opens", !.made = id]]
      BY <1>3, <2>2 DEF HasCustomer
    <3>2. QED
      BY <1>3, <3>1 DEF RequestsOK, RequestStep
  <2>3. QED
    BY <2>1, <2>2
<1>4. ASSUME NEW r \in Request, NEW wanted \in SelfServe \union {Free}, Arrives(r, wanted)
      PROVE  RequestsOK'
  BY <1>4 DEF Arrives, RequestsOK, RequestStep
<1>5. ASSUME NEW r \in Request, ReadSubscriber(r)
      PROVE  RequestsOK'
  <2>1. customer \in Nat /\ customers' \in Nat /\ customer' \in Nat
    BY <1>5 DEF ReadSubscriber, RequestsOK
  <2>2. Ends(r) \/ HasCustomer(r, customer) \/ Goes(r, "creates")
    BY <1>5 DEF ReadSubscriber
  <2>3. QED
    BY <1>1, <1>2, <1>3, <2>1, <2>2
<1>6. ASSUME NEW r \in Request, CreateCustomer(r)
      PROVE  RequestsOK'
  <2>1. customers' \in Nat /\ customer' \in Nat
    BY <1>6 DEF CreateCustomer, RequestsOK
  <2>2. CASE Ends(r)
    BY <1>1, <2>1, <2>2
  <2>3. CASE request' = [request EXCEPT ![r] = [@ EXCEPT !.at = "stores", !.made = customers']]
    BY <2>1, <2>3 DEF RequestsOK, RequestStep
  <2>4. QED
    BY <1>6, <2>2, <2>3 DEF CreateCustomer
<1>7. ASSUME NEW r \in Request, StoreCustomer(r)
      PROVE  RequestsOK'
  <2>1. request[r].made \in Nat /\ customers' \in Nat /\ customer' \in Nat
    BY <1>7 DEF StoreCustomer, RequestsOK
  <2>2. Ends(r) \/ HasCustomer(r, request[r].made) \/ Goes(r, "rereads")
    BY <1>7 DEF StoreCustomer
  <2>3. QED
    BY <1>1, <1>2, <1>3, <2>1, <2>2
<1>8. ASSUME NEW r \in Request, RereadCustomer(r)
      PROVE  RequestsOK'
  <2>1. /\ request[r].made \in Nat /\ customer \in Nat
        /\ customers' \in Nat /\ customer' \in Nat
    BY <1>8 DEF RereadCustomer, RequestsOK
  <2>2. HasCustomer(r, request[r].made) \/ HasCustomer(r, customer)
    BY <1>8 DEF RereadCustomer
  <2>3. QED
    BY <1>3, <2>1, <2>2
<1>9. ASSUME NEW r \in Request, OpenSession(r) \/ RequestDies(r)
      PROVE  RequestsOK'
  <2>1. Ends(r) /\ customers' \in Nat /\ customer' \in Nat
    BY <1>9 DEF OpenSession, RequestDies, RequestsOK
  <2>2. QED
    BY <1>1, <2>1
<1>10. ASSUME UNCHANGED <<customer, customers, request>>
       PROVE  RequestsOK'
  BY <1>10 DEF RequestsOK
<1>11. ASSUME \/ \E o \in sessions : PaySession(o)
              \/ \E u \in DOMAIN subscriptions : SubscriptionMoves(u)
       PROVE  RequestsOK'
  BY <1>10, <1>11 DEF PaySession, SubscriptionMoves
<1>12. ASSUME NEW h \in Handler,
              \/ \E e \in DOMAIN events : Delivered(h, e)
              \/ UpdateSubscriberStatus(h) \/ RecordPayment(h) \/ CancelSubscription(h)
              \/ RefundPayment(h) \/ WriteAudit(h) \/ SendMail(h) \/ HandlerDies(h)
       PROVE  RequestsOK'
  BY <1>10, <1>12 DEF Delivered, UpdateSubscriberStatus, RecordPayment, CancelSubscription,
     CheckDeletion, Downgrade, RefundPayment, CheckRefund, MarkRefunded, WriteAudit,
     SendMail, HandlerDies
<1>13. CASE UNCHANGED subVars
  BY <1>10, <1>13 DEF subVars
<1>14. QED
  BY <1>4, <1>5, <1>6, <1>7, <1>8, <1>9, <1>11, <1>12, <1>13
     DEF SubNext, SignsIn, StartsCheckout

Payment == [event : Nat, of : Nat, status : {"succeeded", "refunded"}, refunded : Nat]

(* What an event says is so, and stays so.                               *)
SaysTrue(event) ==
    /\ event.of \in DOMAIN subscriptions
    /\ event.type = "refunded" =>
         event.total # 0 /\ event.total <= subscriptions[event.of].refunded
EventsSayTrue ==
    /\ \A e \in DOMAIN events : SaysTrue(events[e])
    /\ \A d, e \in DOMAIN events :
         /\ events[d].type = "paid" /\ events[e].type = "paid"
         /\ events[d].of = events[e].of
         => d = e

(* A delivery works on an event of its kind.                             *)
IsOfItsKind(work) ==
    work.at # "idle" =>
        /\ work.event \in DOMAIN events
        /\ work.at = "paid" => events[work.event].type = "paid"
        /\ work.at \in {"refunded", "settles"} => events[work.event].type = "refunded"
KindsMatch ==
    /\ handler \in [Handler -> [at : EventType \union Working \union {"idle"}, event : Nat]]
    /\ \A h \in Handler : IsOfItsKind(handler[h])

(* A row is its event's, and says what Stripe said.                      *)
RowIsTrue(row) ==
    /\ row.event \in DOMAIN events
    /\ events[row.event].type = "paid" /\ events[row.event].of = row.of
    /\ row.refunded <= subscriptions[row.of].refunded
    /\ row.status = "refunded" <=> row.refunded > 0
RowsAreTrue ==
    /\ payments \in Seq(Payment)
    /\ \A k \in DOMAIN payments : RowIsTrue(payments[k])
    /\ \A k, m \in DOMAIN payments : payments[k].event = payments[m].event => k = m

LedgerInv == EventsSayTrue /\ KindsMatch /\ RowsAreTrue

(* An empty ledger says nothing untrue.                                    *)
LEMMA LedgerInit == SubInit => LedgerInv
BY DEF SubInit, LedgerInv, EventsSayTrue, KindsMatch, RowsAreTrue, IsOfItsKind, NoHandler,
       Payment

(* Stripe adds events and subscriptions, and returns only more.          *)
StripeGrows ==
    /\ DOMAIN events \subseteq DOMAIN events'
    /\ \A e \in DOMAIN events : events'[e] = events[e]
    /\ DOMAIN subscriptions \subseteq DOMAIN subscriptions'
    /\ \A u \in DOMAIN subscriptions :
         /\ subscriptions'[u].refunded \in Nat
         /\ subscriptions[u].refunded <= subscriptions'[u].refunded

(* What was true of an event or a row stays true as Stripe goes on.      *)
LEMMA GrowthKeepsTrue ==
  ASSUME StripeOK, LedgerInv, StripeGrows, UNCHANGED <<handler, payments>>
  PROVE  /\ \A e \in DOMAIN events : SaysTrue(events[e])'
         /\ KindsMatch' /\ RowsAreTrue'
<1> USE DEF LedgerInv
<1>1. ASSUME NEW e \in DOMAIN events
      PROVE  /\ events[e].total \in Nat /\ events[e].of \in DOMAIN subscriptions
             /\ subscriptions[events[e].of].refunded \in Nat
  <2>1. events[e] \in Event
    <3>1. e \in 1..Len(events)
      BY DEF StripeOK
    <3>2. QED
      BY <3>1 DEF StripeOK
  <2>2. events[e].of \in DOMAIN subscriptions
    BY DEF EventsSayTrue, SaysTrue
  <2>3. subscriptions[events[e].of] \in Subscription
    <3>1. events[e].of \in 1..Len(subscriptions)
      BY <2>2 DEF StripeOK
    <3>2. QED
      BY <3>1 DEF StripeOK
  <2>4. QED
    BY <2>1, <2>2, <2>3 DEF Event, Subscription
<1>2. ASSUME NEW e \in DOMAIN events
      PROVE  SaysTrue(events[e])'
  <2>1. SaysTrue(events[e])
    BY DEF EventsSayTrue
  <2>2. events'[e] = events[e]
    BY DEF StripeGrows
  <2>3. QED
    BY <1>1, <2>1, <2>2 DEF SaysTrue, StripeGrows
<1>3. KindsMatch'
  BY DEF KindsMatch, IsOfItsKind, StripeGrows
<1>4. ASSUME NEW k \in DOMAIN payments
      PROVE  RowIsTrue(payments[k])'
  <2>1. RowIsTrue(payments[k]) /\ payments[k] \in Payment /\ payments' = payments
    <3>1. k \in 1..Len(payments)
      BY DEF RowsAreTrue
    <3>2. QED
      BY <3>1 DEF RowsAreTrue
  <2>2. payments[k].of \in DOMAIN subscriptions /\ subscriptions[payments[k].of].refunded \in Nat
    BY <1>1, <2>1 DEF RowIsTrue
  <2>3. QED
    BY <2>1, <2>2 DEF RowIsTrue, StripeGrows, Payment
<1>5. RowsAreTrue'
  BY <1>4 DEF RowsAreTrue
<1>6. QED
  BY <1>2, <1>3, <1>5

(* A paid session: a new subscription and the one event that pays it.    *)
LEMMA PaySessionLedger ==
  ASSUME StripeOK, LedgerInv, NEW o \in sessions, PaySession(o)
  PROVE  LedgerInv'
<1> DEFINE u == Len(subscriptions) + 1
           t == [customer |-> o.customer, plan |-> o.plan, live |-> TRUE, refunded |-> 0]
           new == <<Word("updated", u, 0), Word("paid", u, 0)>>
<1>1. /\ subscriptions' = Append(subscriptions, t)
      /\ events' = events \o new
      /\ UNCHANGED <<handler, payments>>
  BY DEF PaySession, Emits, bookVars
<1>2. /\ t \in Subscription /\ new \in Seq(Event)
  BY DEF StripeOK, Subscription, Word, Event, EventType
<1>3. /\ DOMAIN subscriptions = 1..Len(subscriptions) /\ Len(subscriptions) \in Nat
      /\ DOMAIN subscriptions' = 1..u
      /\ \A i \in 1..Len(subscriptions) : subscriptions'[i] = subscriptions[i]
      /\ subscriptions'[u].refunded = 0
      /\ \A i \in DOMAIN subscriptions : subscriptions[i].refunded \in Nat
  <2>1. \A i \in 1..Len(subscriptions) : subscriptions[i] \in Subscription
    BY DEF StripeOK
  <2>2. QED
    <3>1. \A i \in 1..Len(subscriptions) : subscriptions[i].refunded \in Nat
      BY <2>1 DEF Subscription
    <3>2. subscriptions \in Seq(Subscription) /\ t.refunded = 0
      BY DEF StripeOK
    <3> HIDE DEF t
    <3>3. QED
      BY <1>1, <1>2, <3>1, <3>2
<1>4. /\ DOMAIN events = 1..Len(events) /\ Len(events) \in Nat
      /\ DOMAIN events' = 1..(Len(events) + 2)
      /\ \A e \in 1..Len(events) : events'[e] = events[e]
      /\ events'[Len(events) + 1] = Word("updated", u, 0)
      /\ events'[Len(events) + 2] = Word("paid", u, 0)
  BY <1>1, <1>2 DEF StripeOK
<1>5. StripeGrows
  BY <1>3, <1>4 DEF StripeGrows
<1>6. /\ \A e \in DOMAIN events : SaysTrue(events[e])'
      /\ KindsMatch' /\ RowsAreTrue'
  BY <1>1, <1>5, GrowthKeepsTrue
<1>7. \A e \in DOMAIN events : events[e].of # u
  BY <1>3 DEF LedgerInv, EventsSayTrue, SaysTrue
<1>8. EventsSayTrue'
  <2>1. ASSUME NEW e \in DOMAIN events'
        PROVE  SaysTrue(events[e])'
    <3>1. CASE e \in DOMAIN events
      BY <1>6, <3>1
    <3>2. CASE e \in {Len(events) + 1, Len(events) + 2}
      BY <1>3, <1>4, <3>2 DEF SaysTrue, Word
    <3>3. QED
      BY <1>4, <3>1, <3>2
  <2>2. ASSUME NEW d \in DOMAIN events', NEW e \in DOMAIN events',
               events'[d].type = "paid", events'[e].type = "paid", events'[d].of = events'[e].of
        PROVE  d = e
    <3>1. \A i \in DOMAIN events' :
             \/ i \in DOMAIN events /\ events'[i] = events[i] /\ events'[i].of # u
             \/ events'[i].type = "updated"
             \/ i = Len(events) + 2 /\ events'[i].of = u
      BY <1>4, <1>7 DEF Word
    <3>2. QED
      BY <2>2, <3>1 DEF LedgerInv, EventsSayTrue
  <2>3. QED
    BY <2>1, <2>2 DEF EventsSayTrue
<1>9. QED
  BY <1>6, <1>8 DEF LedgerInv

(* One more event about a subscription that was there before.            *)
LEMMA OneWordLedger ==
  ASSUME StripeOK, LedgerInv, NEW u \in DOMAIN subscriptions, NEW word \in Event,
         word.of = u, word.type # "paid",
         word.type = "refunded" => word.total # 0 /\ word.total <= subscriptions'[u].refunded,
         events' = Append(events, word),
         DOMAIN subscriptions' = DOMAIN subscriptions,
         \A i \in DOMAIN subscriptions :
             /\ subscriptions'[i].refunded \in Nat
             /\ subscriptions[i].refunded <= subscriptions'[i].refunded,
         UNCHANGED <<handler, payments>>
  PROVE  LedgerInv'
<1>1. /\ DOMAIN events = 1..Len(events) /\ Len(events) \in Nat
      /\ DOMAIN events' = 1..(Len(events) + 1)
      /\ \A e \in 1..Len(events) : events'[e] = events[e]
      /\ events'[Len(events) + 1] = word
  BY DEF StripeOK
<1>2. StripeGrows
  BY <1>1 DEF StripeGrows
<1>3. /\ \A e \in DOMAIN events : SaysTrue(events[e])'
      /\ KindsMatch' /\ RowsAreTrue'
  BY <1>2, GrowthKeepsTrue
<1>4. ASSUME NEW e \in DOMAIN events'
      PROVE  SaysTrue(events[e])'
  <2>1. CASE e \in DOMAIN events
    BY <1>3, <2>1
  <2>2. CASE e = Len(events) + 1
    BY <1>1, <2>2 DEF SaysTrue
  <2>3. QED
    BY <1>1, <2>1, <2>2
<1>5. ASSUME NEW d \in DOMAIN events', NEW e \in DOMAIN events',
             events'[d].type = "paid", events'[e].type = "paid", events'[d].of = events'[e].of
      PROVE  d = e
  <2>1. \A i \in DOMAIN events' :
           events'[i].type = "paid" => i \in DOMAIN events /\ events'[i] = events[i]
    BY <1>1
  <2>2. QED
    BY <1>5, <2>1 DEF LedgerInv, EventsSayTrue
<1>6. QED
  BY <1>3, <1>4, <1>5 DEF LedgerInv, EventsSayTrue

(* What Stripe does to subscriptions only adds to what is true.            *)
LEMMA SubscriptionMovesLedger ==
  ASSUME StripeOK, LedgerInv, NEW u \in DOMAIN subscriptions, SubscriptionMoves(u)
  PROVE  LedgerInv'
<1>1. UNCHANGED <<handler, payments>>
  BY DEF SubscriptionMoves, bookVars
<1>2. /\ DOMAIN subscriptions = 1..Len(subscriptions) /\ u \in Nat /\ u \in 1..Len(subscriptions)
      /\ \A i \in 1..Len(subscriptions) :
           subscriptions[i] \in Subscription /\ subscriptions[i].refunded \in Nat
  <2>1. \A i \in 1..Len(subscriptions) : subscriptions[i] \in Subscription
    BY DEF StripeOK
  <2>2. QED
    BY <2>1 DEF StripeOK, Subscription
<1>3. \A word \in Event : Emits(<<word>>) => events' = Append(events, word)
  BY DEF Emits, StripeOK
<1>4. \A kind \in {"deleted", "updated", "failed"} :
        /\ Word(kind, u, 0) \in Event /\ Word(kind, u, 0).of = u
        /\ Word(kind, u, 0).type \notin {"paid", "refunded"}
  BY <1>2 DEF Word, Event, EventType
<1>5. CASE subscriptions' = [subscriptions EXCEPT ![u].live = FALSE] /\ Emits(<<Word("deleted", u, 0)>>)
  <2>1. /\ DOMAIN subscriptions' = DOMAIN subscriptions
        /\ \A i \in DOMAIN subscriptions : subscriptions'[i].refunded = subscriptions[i].refunded
    BY <1>2, <1>5 DEF Subscription
  <2>2. events' = Append(events, Word("deleted", u, 0))
    BY <1>3, <1>4, <1>5
  <2>3. QED
    BY <1>1, <1>2, <1>4, <2>1, <2>2, OneWordLedger
<1>6. CASE /\ \E kind \in {"updated", "failed"} : Emits(<<Word(kind, u, 0)>>)
           /\ UNCHANGED subscriptions
  <2>1. PICK kind \in {"updated", "failed"} : Emits(<<Word(kind, u, 0)>>)
    BY <1>6
  <2>2. events' = Append(events, Word(kind, u, 0))
    BY <1>3, <1>4, <2>1
  <2>3. QED
    BY <1>1, <1>2, <1>4, <1>6, <2>2, OneWordLedger
<1>7. CASE /\ subscriptions' = [subscriptions EXCEPT ![u].refunded = @ + 1]
           /\ Emits(<<Word("refunded", u, subscriptions[u].refunded + 1)>>)
  <2> DEFINE word == Word("refunded", u, subscriptions[u].refunded + 1)
  <2>1. /\ DOMAIN subscriptions' = DOMAIN subscriptions
        /\ \A i \in DOMAIN subscriptions :
             subscriptions'[i].refunded =
               IF i = u THEN subscriptions[u].refunded + 1 ELSE subscriptions[i].refunded
    BY <1>2, <1>7 DEF Subscription
  <2>2. /\ word \in Event /\ word.of = u /\ word.type # "paid" /\ word.total # 0
        /\ word.total <= subscriptions'[u].refunded
    BY <1>2, <2>1 DEF Word, Event, EventType
  <2>3. events' = Append(events, word)
    BY <1>3, <1>7, <2>2
  <2>4. \A i \in DOMAIN subscriptions :
             /\ subscriptions'[i].refunded \in Nat
             /\ subscriptions[i].refunded <= subscriptions'[i].refunded
    BY <1>2, <2>1
  <2> HIDE DEF word
  <2>5. QED
    BY <1>1, <2>1, <2>2, <2>3, <2>4, OneWordLedger
<1>8. QED
  BY <1>5, <1>6, <1>7 DEF SubscriptionMoves

(* The handler's own steps: what a delivery turns to is of its kind.     *)
LEMMA TurnKeepsKinds ==
  ASSUME KindsMatch, NEW h \in Handler, UNCHANGED events,
         \/ Stops(h)
         \/ Turns(h, "downgrades") \/ Turns(h, "audits") \/ Turns(h, "mails")
         \/ Turns(h, "settles") /\ At(h, "refunded"),
         ~At(h, "idle")
  PROVE  KindsMatch'
<1>1. ASSUME Stops(h)
      PROVE  KindsMatch'
  BY <1>1 DEF KindsMatch, IsOfItsKind, Stops, NoHandler
<1>2. ASSUME NEW step \in Working, Turns(h, step), step = "settles" => At(h, "refunded")
      PROVE  KindsMatch'
  <2>1. /\ handler' \in [Handler -> [at : EventType \union Working \union {"idle"}, event : Nat]]
        /\ handler'[h].at = step /\ handler'[h].event = handler[h].event
        /\ \A k \in Handler : k # h => handler'[k] = handler[k]
    BY <1>2 DEF KindsMatch, Turns, Working
  <2>2. QED
    BY <1>2, <2>1 DEF KindsMatch, IsOfItsKind, At, Working
<1>3. QED
  BY <1>1, <1>2 DEF Working

(* A new row is true of its event, and of no event with a row.           *)
LEMMA RecordPaymentLedger ==
  ASSUME StripeOK, LedgerInv, NEW h \in Handler, RecordPayment(h)
  PROVE  LedgerInv'
<1> DEFINE e == handler[h].event
<1>1. PICK row : row = [event |-> e, of |-> events[e].of, status |-> "succeeded", refunded |-> 0]
  OBVIOUS
<1>2. /\ At(h, "paid") /\ Stops(h) /\ UNCHANGED <<events, subscriptions>>
      /\ \/ payments' = payments
         \/ ~IsDuplicate(e) /\ payments' = Append(payments, row)
  <2>1. PICK found \in Resolves(Of(h).of), failed \in Fails("write") :
           payments' = IF ~found \/ failed \/ IsDuplicate(e) THEN payments
             ELSE Append(payments, [event |-> e, of |-> Of(h).of,
                                    status |-> "succeeded", refunded |-> 0])
    BY DEF RecordPayment
  <2>. At(h, "paid") /\ Stops(h) /\ UNCHANGED <<events, subscriptions>>
    BY DEF RecordPayment, stripeVars
  <2>2. CASE ~found \/ failed \/ IsDuplicate(e)
    <3>1. payments' = payments
      BY <2>1, <2>2
    <3>2. QED
      BY <3>1
  <2>3. CASE ~(~found \/ failed \/ IsDuplicate(e))
    <3>1. payments' = Append(payments, row)
      BY <1>1, <2>1, <2>3 DEF Of
    <3>2. QED
      BY <2>3, <3>1
  <2>4. QED
    BY <2>2, <2>3
<1>3. /\ e \in DOMAIN events /\ events[e].type = "paid" /\ events[e].of \in DOMAIN subscriptions
      /\ events[e].of \in Nat /\ e \in Nat /\ subscriptions[events[e].of].refunded \in Nat
  <2>1. e \in DOMAIN events /\ events[e].type = "paid"
    BY <1>2 DEF LedgerInv, KindsMatch, IsOfItsKind, At
  <2>2. events[e].of \in DOMAIN subscriptions
    BY <2>1 DEF LedgerInv, EventsSayTrue, SaysTrue
  <2>3. e \in 1..Len(events) /\ events[e].of \in 1..Len(subscriptions)
    BY <2>1, <2>2 DEF StripeOK
  <2>4. subscriptions[events[e].of] \in Subscription
    BY <2>3 DEF StripeOK
  <2>5. QED
    BY <2>1, <2>2, <2>3, <2>4 DEF Subscription
<1>4. KindsMatch' /\ EventsSayTrue'
  BY <1>2, TurnKeepsKinds DEF LedgerInv, EventsSayTrue, SaysTrue, At
<1>5. \A r : RowIsTrue(r) => RowIsTrue(r)'
  BY <1>2 DEF RowIsTrue
<1>6. CASE payments' = payments
  BY <1>4, <1>5, <1>6 DEF LedgerInv, RowsAreTrue
<1>7. CASE ~IsDuplicate(e) /\ payments' = Append(payments, row)
  <2>1. row \in Payment /\ row.event = e /\ RowIsTrue(row)
    BY <1>1, <1>3 DEF Payment, RowIsTrue
  <2>2. payments \in Seq(Payment) /\ Len(payments) \in Nat /\ DOMAIN payments = 1..Len(payments)
    BY DEF LedgerInv, RowsAreTrue
  <2>3. /\ payments' \in Seq(Payment) /\ DOMAIN payments' = 1..(Len(payments) + 1)
        /\ \A k \in 1..Len(payments) : payments'[k] = payments[k]
        /\ payments'[Len(payments) + 1] = row
    BY <1>7, <2>1, <2>2
  <2>4. \A k \in DOMAIN payments : payments[k].event # e
    BY <1>7 DEF IsDuplicate, Range
  <2>5. \A k \in DOMAIN payments' : RowIsTrue(payments[k])'
    <3>1. \A k \in DOMAIN payments' : RowIsTrue(payments'[k])
      BY <2>1, <2>2, <2>3 DEF LedgerInv, RowsAreTrue
    <3>2. QED
      BY <1>2, <3>1 DEF RowIsTrue
  <2>6. \A k, m \in DOMAIN payments' : payments'[k].event = payments'[m].event => k = m
    BY <2>1, <2>2, <2>3, <2>4 DEF LedgerInv, RowsAreTrue
  <2>7. QED
    BY <1>4, <2>3, <2>5, <2>6 DEF LedgerInv, RowsAreTrue
<1>8. QED
  BY <1>2, <1>6, <1>7

(* A refund gives the rows of its subscription a total Stripe returned.  *)
LEMMA MarkRefundedLedger ==
  ASSUME StripeOK, LedgerInv, NEW h \in Handler, MarkRefunded(h)
  PROVE  LedgerInv'
<1> DEFINE e == handler[h].event
<1>1. PICK u, total : u = events[e].of /\ total = events[e].total
  OBVIOUS
<1>2. /\ At(h, "settles") /\ (Stops(h) \/ Turns(h, "audits"))
      /\ UNCHANGED <<events, subscriptions>>
      /\ \/ payments' = payments
         \/ payments' = [k \in DOMAIN payments |->
                 IF payments[k].of # u THEN payments[k]
                 ELSE [payments[k] EXCEPT !.status = "refunded", !.refunded = total]]
  BY <1>1 DEF MarkRefunded, Of, stripeVars, GoesOn
<1>3. /\ total \in Nat \ {0} /\ u \in DOMAIN subscriptions
      /\ total <= subscriptions[u].refunded
  <2>1. e \in DOMAIN events /\ events[e].type = "refunded"
    BY <1>2 DEF LedgerInv, KindsMatch, IsOfItsKind, At
  <2>2. e \in 1..Len(events)
    BY <2>1 DEF StripeOK
  <2>3. events[e] \in Event
    BY <2>2 DEF StripeOK
  <2>4. SaysTrue(events[e])
    BY <2>1 DEF LedgerInv, EventsSayTrue
  <2>5. QED
    BY <1>1, <2>1, <2>3, <2>4 DEF SaysTrue, Event
<1>4. KindsMatch' /\ EventsSayTrue'
  BY <1>2, TurnKeepsKinds DEF LedgerInv, EventsSayTrue, SaysTrue, At
<1>5. \A r : RowIsTrue(r) <=> RowIsTrue(r)'
  BY <1>2 DEF RowIsTrue
<1>6. CASE payments' = payments
  BY <1>4, <1>5, <1>6 DEF LedgerInv, RowsAreTrue
<1>7. CASE payments' = [k \in DOMAIN payments |->
                 IF payments[k].of # u THEN payments[k]
                 ELSE [payments[k] EXCEPT !.status = "refunded", !.refunded = total]]
  <2>1. payments \in Seq(Payment) /\ Len(payments) \in Nat /\ DOMAIN payments = 1..Len(payments)
    BY DEF LedgerInv, RowsAreTrue
  <2>2. ASSUME NEW k \in 1..Len(payments)
        PROVE  /\ payments'[k] \in Payment /\ RowIsTrue(payments'[k])
               /\ payments'[k].event = payments[k].event
    <3>1. payments[k] \in Payment /\ RowIsTrue(payments[k])
      BY <2>1 DEF LedgerInv, RowsAreTrue
    <3>2. CASE payments[k].of # u
      BY <1>7, <2>1, <3>1, <3>2
    <3>3. CASE payments[k].of = u
      <4>1. payments'[k] = [payments[k] EXCEPT !.status = "refunded", !.refunded = total]
        BY <1>7, <2>1, <3>3
      <4>2. QED
        <5>1. /\ payments'[k].event = payments[k].event /\ payments'[k].of = u
              /\ payments'[k].status = "refunded" /\ payments'[k].refunded = total
              /\ payments'[k] \in Payment
          BY <1>3, <3>1, <3>3, <4>1 DEF Payment
        <5>2. total > 0
          BY <1>3
        <5>3. QED
          BY <1>3, <3>1, <3>3, <5>1, <5>2 DEF RowIsTrue
    <3>4. QED
      BY <3>2, <3>3, Zenon
  <2>3. payments' \in Seq(Payment) /\ DOMAIN payments' = 1..Len(payments)
    <3>1. DOMAIN payments' = 1..Len(payments)
      BY <1>7, <2>1
    <3>2. payments' = [k \in 1..Len(payments) |-> payments'[k]]
      BY <1>7, <2>1
    <3>3. \A k \in 1..Len(payments) : payments'[k] \in Payment
      BY <2>2
    <3>4. QED
      BY <2>1, <3>1, <3>2, <3>3
  <2>4. \A k \in DOMAIN payments' : RowIsTrue(payments[k])'
    <3>1. \A k \in DOMAIN payments' : RowIsTrue(payments'[k])
      BY <2>2, <2>3
    <3>2. QED
      BY <1>2, <3>1 DEF RowIsTrue
  <2>5. \A k, m \in DOMAIN payments' : payments'[k].event = payments'[m].event => k = m
    BY <2>1, <2>2, <2>3 DEF LedgerInv, RowsAreTrue
  <2>6. QED
    BY <1>4, <2>3, <2>4, <2>5 DEF LedgerInv, RowsAreTrue
<1>8. QED
  BY <1>2, <1>6, <1>7

(* A delivery starts on an event as the kind the event is.               *)
LEMMA DeliveredLedger ==
  ASSUME StripeOK, LedgerInv, NEW h \in Handler, NEW e \in DOMAIN events, Delivered(h, e)
  PROVE  LedgerInv'
<1>1. /\ handler' = [handler EXCEPT ![h] = [at |-> events[e].type, event |-> e]]
      /\ UNCHANGED <<events, subscriptions, payments>>
  BY DEF Delivered, bookVars, stripeVars
<1>2. e \in Nat /\ events[e].type \in EventType
  <2>1. e \in 1..Len(events)
    BY DEF StripeOK
  <2>2. events[e] \in Event
    BY <2>1 DEF StripeOK
  <2>3. QED
    BY <2>1, <2>2 DEF Event
<1>3. /\ handler' \in [Handler -> [at : EventType \union Working \union {"idle"}, event : Nat]]
      /\ handler'[h].at = events[e].type /\ handler'[h].event = e
      /\ \A k \in Handler : k # h => handler'[k] = handler[k]
  BY <1>1, <1>2 DEF LedgerInv, KindsMatch
<1>4. KindsMatch'
  <2>1. events[e].type # "settles"
    BY <1>2 DEF EventType
  <2>2. QED
    BY <1>1, <1>3, <2>1 DEF LedgerInv, KindsMatch, IsOfItsKind
<1>5. QED
  BY <1>1, <1>4 DEF LedgerInv, EventsSayTrue, SaysTrue, RowsAreTrue, RowIsTrue

(* No step makes an event or a row say what is not so.                     *)
LEMMA LedgerStep ==
  ASSUME StripeOK, LedgerInv, [SubNext]_subVars
  PROVE  LedgerInv'
<1> USE DEF rowVars, bookVars, stripeVars, historyVars
<1>1. ASSUME UNCHANGED <<events, subscriptions, payments>>, KindsMatch'
      PROVE  LedgerInv'
  BY <1>1 DEF LedgerInv, EventsSayTrue, SaysTrue, RowsAreTrue, RowIsTrue
<1>2. ASSUME UNCHANGED <<events, subscriptions, payments, handler>>
      PROVE  LedgerInv'
  BY <1>1, <1>2 DEF LedgerInv, KindsMatch, IsOfItsKind
<1>3. ASSUME NEW r \in Request,
             \/ SignsIn(r) \/ StartsCheckout(r) \/ ReadSubscriber(r) \/ CreateCustomer(r)
             \/ StoreCustomer(r) \/ RereadCustomer(r) \/ OpenSession(r) \/ RequestDies(r)
      PROVE  LedgerInv'
  BY <1>2, <1>3 DEF Arrives, SignsIn, StartsCheckout, ReadSubscriber, CreateCustomer,
     StoreCustomer, RereadCustomer, OpenSession, RequestDies
<1>4. ASSUME NEW h \in Handler,
             \/ UpdateSubscriberStatus(h) \/ CancelSubscription(h) \/ CheckRefund(h)
             \/ WriteAudit(h) \/ SendMail(h) \/ HandlerDies(h)
      PROVE  LedgerInv'
  <2>1. UNCHANGED <<events, subscriptions, payments>>
    BY <1>4 DEF UpdateSubscriberStatus, CancelSubscription, CheckDeletion, Downgrade,
       CheckRefund, WriteAudit, SendMail, HandlerDies
  <2>2. /\ ~At(h, "idle")
        /\ \/ Stops(h)
           \/ Turns(h, "downgrades") \/ Turns(h, "audits") \/ Turns(h, "mails")
           \/ Turns(h, "settles") /\ At(h, "refunded")
    BY <1>4 DEF UpdateSubscriberStatus, CancelSubscription, CheckDeletion, Downgrade,
       CheckRefund, Checks, WriteAudit, SendMail, HandlerDies, GoesOn, At
  <2>3. KindsMatch'
    BY <2>1, <2>2, TurnKeepsKinds DEF LedgerInv
  <2>4. QED
    BY <1>1, <2>1, <2>3
<1>5. CASE UNCHANGED subVars
  BY <1>2, <1>5 DEF subVars
<1>6. QED
  BY <1>3, <1>4, <1>5, PaySessionLedger, SubscriptionMovesLedger, DeliveredLedger,
     RecordPaymentLedger, MarkRefundedLedger
     DEF SubNext, RefundPayment

(* Whatever fails, dies, repeats or overtakes, the ledger has a row per  *)
(* payment Stripe took, once, and says of none that more was returned    *)
(* than Stripe returned (stripe-webhook/route.ts, handlePaymentSucceeded *)
(* and handleChargeRefunded).                                            *)
THEOREM LedgerHolds == SubSpec => []LedgerIsStripes
<1> DEFINE Inv == RequestsOK /\ StripeOK /\ LedgerInv
<1>1. SubInit => Inv
  BY CustomerInit, MailInit, LedgerInit DEF CustomerInv
<1>2. Inv /\ [SubNext]_subVars => Inv'
  BY RequestsStep, StripeStep, LedgerStep
<1>3. Inv => LedgerIsStripes
  <2> SUFFICES ASSUME Inv
               PROVE  LedgerIsStripes
    OBVIOUS
  <2>1. ASSUME NEW k \in DOMAIN payments, NEW m \in DOMAIN payments,
               payments[k].of = payments[m].of
        PROVE  k = m
    BY <2>1 DEF LedgerInv, RowsAreTrue, RowIsTrue, EventsSayTrue
  <2>2. ASSUME NEW p \in Range(payments)
        PROVE  /\ p.refunded <= subscriptions[p.of].refunded
               /\ p.status = "refunded" <=> p.refunded > 0
    BY <2>2 DEF LedgerInv, RowsAreTrue, RowIsTrue, Range
  <2>3. QED
    BY <2>1, <2>2 DEF LedgerIsStripes
<1>4. QED
  BY <1>1, <1>2, <1>3, PTL DEF SubSpec

=============================================================================
