-------------------------- MODULE SettlementRefund --------------------------
(***************************************************************************)
(* The reversal of a paid settlement: refundSettlement calls, made by      *)
(* operators and possibly overlapping, that claim the settlement, record a *)
(* refund row and ask Stripe for the refund; and the stripe webhook that   *)
(* settles a refund which Stripe completes later.                          *)
(*                                                                         *)
(* The void of an 'invoiced' settlement is left out: nothing writes that   *)
(* status.  A refund is always of the full amount, so the sum of reserved  *)
(* cents is the number of reserving rows times the total.                  *)
(***************************************************************************)
EXTENDS FeeSettlements

CONSTANTS
  Caller,            \* concurrent refundSettlement calls
  RefundHook,        \* concurrent webhook invocations
  MaxRefundRows,     \* bound: fee_settlement_refunds rows of one settlement
  MaxRefunds,        \* bound: Stripe refunds of one settlement
  AsyncRefunds,      \* may Stripe answer 'pending' and complete later
  StripeFails,       \* may a Stripe call fail, or its answer be lost
  RefundKeysExpire,  \* may Stripe forget the idempotency key (kept for 24h)
  SlowCallers,       \* may a call still work when its claim has gone stale
  CallsDie,          \* may an invocation end before its last step
  RefundSwitch,      \* bound: the positions operators put the kill-switch in
  MaxRefundCrashes   \* bound: invocations that die, updates that are lost

ASSUME RefundAssumption ==
  /\ MaxRefundRows \in Nat \ {0}
  /\ MaxRefunds \in Nat \ {0}
  /\ AsyncRefunds \in BOOLEAN /\ StripeFails \in BOOLEAN
  /\ RefundKeysExpire \in BOOLEAN /\ SlowCallers \in BOOLEAN
  /\ CallsDie \in BOOLEAN /\ RefundSwitch \subseteq BOOLEAN
  /\ MaxRefundCrashes \in Nat

VARIABLES
  refunds,           \* Stripe: the status of each refund of a settlement
  refundKey,         \* Stripe: the answer replayed under the idempotency key
  refundEvents,      \* Stripe: the events emitted for refunds
  delivered,         \* events that reached the webhook at least once
  refundRows,        \* fee_settlement_refunds, in order of insertion
  call,              \* the local state of each refundSettlement call
  refundHook,        \* the local state of each webhook invocation
  refundAudited,     \* events with an audit_log row
  refundsEnabled,    \* app_config.settlement_refunds_enabled and the live gate
  refundCrashes      \* how much of MaxRefundCrashes is used up

stripeRefundVars == <<refunds, refundKey, refundEvents>>
refundLocals == <<stripeRefundVars, delivered, refundRows, call, refundHook,
                  refundAudited, refundsEnabled, refundCrashes>>
refundVars == <<row, books, sub, refundLocals>>

RefundSlot == 1..MaxRefunds
NoRefund == 0                    \* stripe_refund_id IS NULL
RefundRowSlot == 1..MaxRefundRows

RefundStatus == {"pending", "succeeded", "failed"}
Answer == [refund : RefundSlot, status : RefundStatus]
NoAnswer == [refund |-> NoRefund, status |-> "none"]

RefundEvent == [s : Settlement, refund : RefundSlot,
                status : {"succeeded", "failed"}]

RefundRow == [status : RefundStatus \cup {"none"},
              refund : RefundSlot \cup {NoRefund}]

(* status is the snapshot's; j the refund row; result and refund what the  *)
(* updates at the end will write.                                          *)
Calling ==
  [pc : {"loaded", "sum", "claim", "insert", "resume", "stripe", "row", "settle"},
   s : Settlement, status : {"paid", "refund_pending"},
   j : RefundRowSlot \cup {0}, result : RefundStatus \cup {"none"},
   refund : RefundSlot \cup {NoRefund}]
IdleCall == [pc |-> "idle"]

RefundHandling == [step : {"update", "row", "audit"}, event : RefundEvent,
                   j : RefundRowSlot]
IdleRefundHook == [step |-> "idle"]

RefundTypeOK ==
  /\ TablesTypeOK
  /\ refunds \in [Settlement -> [RefundSlot -> RefundStatus \cup {"none"}]]
  /\ refundKey \in [Settlement -> Answer \cup {NoAnswer}]
  /\ refundEvents \subseteq RefundEvent
  /\ delivered \subseteq refundEvents
  /\ refundRows \in [Settlement -> [RefundRowSlot -> RefundRow]]
  /\ call \in [Caller -> Calling \cup {IdleCall}]
  /\ refundHook \in [RefundHook -> RefundHandling \cup {IdleRefundHook}]
  /\ refundAudited \subseteq refundEvents
  /\ refundsEnabled \in BOOLEAN
  /\ refundCrashes \in 0..MaxRefundCrashes

RefundLocalsInit ==
  /\ refunds = [s \in Settlement |-> [k \in RefundSlot |-> "none"]]
  /\ refundKey = [s \in Settlement |-> NoAnswer]
  /\ refundEvents = {}
  /\ delivered = {}
  /\ refundRows = [s \in Settlement |-> [j \in RefundRowSlot |->
                     [status |-> "none", refund |-> NoRefund]]]
  /\ call = [c \in Caller |-> IdleCall]
  /\ refundHook = [h \in RefundHook |-> IdleRefundHook]
  /\ refundAudited = {}
  /\ refundsEnabled = TRUE
  /\ refundCrashes = 0

(* A settlement that has been charged: its invoice is paid at Stripe.      *)
RefundInit ==
  /\ row = [s \in Settlement |->
              [NewRow EXCEPT !.status = "paid", !.claim = "stale", !.invoice = 1]]
  /\ books = [s \in Settlement |-> NoBooks]
  /\ sub \in [Subscriber -> Subscribers]
  /\ RefundLocalsInit

-----------------------------------------------------------------------------
(* Stripe (external).                                                      *)

Announce(s, a) ==
  IF a.status = "pending" THEN refundEvents
  ELSE refundEvents \cup {[s |-> s, refund |-> a.refund, status |-> a.status]}

(* A new refund of the full amount, which Stripe refuses while the charge  *)
(* has one that did not fail.                                              *)
NewRefund(s, a) ==
  /\ a.refund \in RefundSlot /\ a.status \in RefundStatus
  /\ AsyncRefunds \/ a.status # "pending"
  /\ refunds[s][a.refund] = "none"
  /\ \A k \in 1..(a.refund - 1) : refunds[s][k] = "failed"
  /\ refunds' = [refunds EXCEPT ![s][a.refund] = a.status]
  /\ refundKey' = [refundKey EXCEPT ![s] = a]
  /\ refundEvents' = Announce(s, a)

(* POST /refunds under the key: the answer of the first time, as it was    *)
(* then, or a new refund.                                                  *)
CreateRefund(s, a) ==
  \/ refundKey[s] = a /\ a # NoAnswer /\ UNCHANGED stripeRefundVars
  \/ refundKey[s] = NoAnswer /\ NewRefund(s, a)

(* An asynchronous refund completes, or comes back.                        *)
StripeSettlesRefund(s) ==
  /\ \E k \in RefundSlot, status \in {"succeeded", "failed"} :
       /\ refunds[s][k] = "pending"
       /\ refunds' = [refunds EXCEPT ![s][k] = status]
       /\ refundEvents' = Announce(s, [refund |-> k, status |-> status])
  /\ UNCHANGED <<row, books, sub, refundKey, delivered, refundRows, call,
                 refundHook, refundAudited, refundsEnabled, refundCrashes>>

(* Stripe forgets the key after a day.  Unless calls may be slow, no call  *)
(* for the settlement is under way then.                                   *)
RefundKeyForgotten(s) ==
  /\ RefundKeysExpire
  /\ SlowCallers \/ \A c \in Caller : call[c] # IdleCall => call[c].s # s
  /\ refundKey[s] # NoAnswer
  /\ refundKey' = [refundKey EXCEPT ![s] = NoAnswer]
  /\ UNCHANGED <<row, books, sub, refunds, refundEvents, delivered, refundRows,
                 call, refundHook, refundAudited, refundsEnabled, refundCrashes>>

-----------------------------------------------------------------------------
(* A refundSettlement call.                                                *)

(* MaxRefundRows is left room for each call that may still insert a row.   *)
HasRowsLeft(s) ==
  Cardinality({j \in RefundRowSlot : refundRows[s][j].status = "none"})
    > Cardinality({c \in Caller : call[c] # IdleCall})

(* 'refunded' is a no-op, and every other status is rejected.              *)
LoadSettlement(c, s) ==
  /\ call[c] = IdleCall
  /\ row[s].status \in {"paid", "refund_pending"}
  /\ row[s].status = "paid" => HasRowsLeft(s)
  /\ call' = [call EXCEPT ![c] =
       [pc |-> "loaded", s |-> s, status |-> row[s].status, j |-> 0,
        result |-> "none", refund |-> NoRefund]]
  /\ UNCHANGED <<row, books, sub, stripeRefundVars, delivered, refundRows,
                 refundHook, refundAudited, refundsEnabled, refundCrashes>>

(* The call goes on at pc, having changed nothing but itself.              *)
Proceed(c, pc) ==
  /\ call' = [call EXCEPT ![c].pc = pc]
  /\ UNCHANGED <<row, books, sub, stripeRefundVars, delivered, refundRows,
                 refundHook, refundAudited, refundsEnabled, refundCrashes>>

Return(c) ==
  /\ call' = [call EXCEPT ![c] = IdleCall]
  /\ UNCHANGED <<row, books, sub, stripeRefundVars, delivered, refundRows,
                 refundHook, refundAudited, refundsEnabled, refundCrashes>>

(* The subscriber and the switch are re-read; then the snapshot's status   *)
(* decides between resuming and starting afresh.                           *)
CheckGates(c) ==
  /\ call[c].pc = "loaded"
  /\ IF sub[SubscriberOf[call[c].s]] = "inactive" \/ ~refundsEnabled
     THEN Return(c)
     ELSE Proceed(c, IF call[c].status = "paid" THEN "sum" ELSE "resume")

InflightRows(s) == {j \in RefundRowSlot : refundRows[s][j].status = "pending"}
Reserved(s) ==
  {j \in RefundRowSlot : refundRows[s][j].status \in {"pending", "succeeded"}}

(* The first pending row, in whatever order the read returns them; none is *)
(* an error that is left for people to look at.                            *)
ResumeInflight(c) ==
  /\ call[c].pc = "resume"
  /\ \E j \in InflightRows(call[c].s) :
       call' = [call EXCEPT ![c].pc = "stripe", ![c].j = j]
  /\ UNCHANGED <<row, books, sub, stripeRefundVars, delivered, refundRows,
                 refundHook, refundAudited, refundsEnabled, refundCrashes>>

NothingInflight(c) ==
  /\ call[c].pc = "resume"
  /\ InflightRows(call[c].s) = {}
  /\ Return(c)

(* Mutant: the sum of earlier refunds is not looked at.                    *)
SumIgnored(c) == call[c].pc = "sum" /\ Proceed(c, "claim")

(* Over-refund guard: nothing may be reserved yet.                         *)
SumReserved(c) ==
  /\ call[c].pc = "sum"
  /\ IF Reserved(call[c].s) = {} THEN Proceed(c, "claim") ELSE Return(c)

(* Mutant: a claim matched on the id alone.                                *)
RefundClaimableAlways(x) == TRUE

RefundClaimable(x) ==
  \/ x.status = "paid"
  \/ x.status = "refund_pending" /\ x.claim = "stale"

(* The compare-and-set into 'refund_pending'.                              *)
ClaimForRefund(c) ==
  /\ call[c].pc = "claim"
  /\ RefundClaimable(row[call[c].s])
  /\ row' = [row EXCEPT ![call[c].s].status = "refund_pending",
                        ![call[c].s].claim = "fresh"]
  /\ call' = [call EXCEPT ![c].pc = "insert"]
  /\ UNCHANGED <<books, sub, stripeRefundVars, delivered, refundRows,
                 refundHook, refundAudited, refundsEnabled, refundCrashes>>

LoseRefundClaim(c) ==
  /\ call[c].pc = "claim"
  /\ ~RefundClaimable(row[call[c].s])
  /\ Return(c)

(* The pending row is recorded before Stripe is called.                    *)
InsertRefundRow(c) ==
  /\ call[c].pc = "insert"
  /\ \E j \in RefundRowSlot :
       /\ refundRows[call[c].s][j].status = "none"
       /\ \A i \in 1..(j - 1) : refundRows[call[c].s][i].status # "none"
       /\ refundRows' = [refundRows EXCEPT ![call[c].s][j].status = "pending"]
       /\ call' = [call EXCEPT ![c].pc = "stripe", ![c].j = j]
  /\ UNCHANGED <<row, books, sub, stripeRefundVars, delivered,
                 refundHook, refundAudited, refundsEnabled, refundCrashes>>

(* The refund is made and its answer arrives.                              *)
AskStripe(c) ==
  /\ call[c].pc = "stripe"
  /\ \E a \in Answer :
       /\ CreateRefund(call[c].s, a)
       /\ call' = [call EXCEPT ![c].pc = "row", ![c].result = a.status,
                               ![c].refund = a.refund]
  /\ UNCHANGED <<row, books, sub, delivered, refundRows, refundHook,
                 refundAudited, refundsEnabled, refundCrashes>>

(* A Stripe call throws: refused, unreachable, or carried out and its      *)
(* answer lost.  The code takes each of them for a failed refund.          *)
StripeThrows(c) ==
  /\ call[c].pc = "stripe"
  /\ StripeFails
  /\ \/ \E a \in Answer : CreateRefund(call[c].s, a)
     \/ UNCHANGED stripeRefundVars
  /\ call' = [call EXCEPT ![c].pc = "row", ![c].result = "failed"]
  /\ UNCHANGED <<row, books, sub, delivered, refundRows, refundHook,
                 refundAudited, refundsEnabled, refundCrashes>>

(* Mutant: whatever is not succeeded has failed.                           *)
NeverInProgress(result) == FALSE

(* The settlement of a refund that is still pending is left to the webhook. *)
InProgress(result) == result = "pending"

(* The refund row's update, matched on its id; its error is not looked at. *)
WriteRefundRow(c) ==
  LET x == call[c] IN
  /\ x.pc = "row"
  /\ call' = [call EXCEPT ![c] =
       IF InProgress(x.result) THEN IdleCall ELSE [@ EXCEPT !.pc = "settle"]]
  /\ \/ /\ refundRows' = [refundRows EXCEPT ![x.s][x.j] =
               [status |-> x.result,
                refund |-> IF x.refund = NoRefund THEN @.refund ELSE x.refund]]
        /\ UNCHANGED refundCrashes
     \/ /\ refundCrashes < MaxRefundCrashes
        /\ refundCrashes' = refundCrashes + 1
        /\ UNCHANGED refundRows
  /\ UNCHANGED <<row, books, sub, stripeRefundVars, delivered, refundHook,
                 refundAudited, refundsEnabled>>

(* Mutants: every answer is taken for a refund; a refund that failed       *)
(* leaves the settlement in flight; Stripe's own word is written.          *)
SettledWhatever(result) == "refunded"
SettledOrStuck(result) == IF result = "succeeded" THEN "refunded" ELSE "refund_pending"
SettledVerbatim(result) == result

SettledStatus(result) == IF result = "succeeded" THEN "refunded" ELSE "paid"

(* The settlement's update, matched on the id alone.                       *)
SettleSettlement(c) ==
  /\ call[c].pc = "settle"
  /\ row' = [row EXCEPT ![call[c].s].status = SettledStatus(call[c].result)]
  /\ call' = [call EXCEPT ![c] = IdleCall]
  /\ UNCHANGED <<books, sub, stripeRefundVars, delivered, refundRows,
                 refundHook, refundAudited, refundsEnabled, refundCrashes>>

(* The process dies, or a database call fails or is lost.                  *)
CallerStops(c) ==
  /\ call[c] # IdleCall
  /\ CallsDie
  /\ refundCrashes < MaxRefundCrashes
  /\ refundCrashes' = refundCrashes + 1
  /\ call' = [call EXCEPT ![c] = IdleCall]
  /\ UNCHANGED <<row, books, sub, stripeRefundVars, delivered, refundRows,
                 refundHook, refundAudited, refundsEnabled>>

-----------------------------------------------------------------------------
(* The webhook (handleSettlementRefundEvent).                              *)

(* Mutant: any row of the settlement will do.                              *)
RowsOfSettlement(e) == {j \in RefundRowSlot : refundRows[e.s][j].status # "none"}

RowsOf(e) == {j \in RefundRowSlot : refundRows[e.s][j].refund = e.refund}

(* An event is matched by stripe_refund_id.  None, or more than one row    *)
(* (an error of maybeSingle that is not looked at), and the event is       *)
(* handed on to the payments ledger and forgotten here.                    *)
DeliverRefundEvent(h, e) ==
  /\ refundHook[h] = IdleRefundHook
  /\ e \in refundEvents \ refundAudited
  /\ delivered' = delivered \cup {e}
  /\ \/ /\ Cardinality(RowsOf(e)) # 1
        /\ UNCHANGED refundHook
     \/ \E j \in RowsOf(e) :
          /\ RowsOf(e) = {j}
          /\ refundHook' = [refundHook EXCEPT ![h] =
                             [step |-> "update", event |-> e, j |-> j]]
  /\ UNCHANGED <<row, books, sub, stripeRefundVars, refundRows, call,
                 refundAudited, refundsEnabled, refundCrashes>>

AwaitsRefund(x) == x.status = "refund_pending"

(* The settlement first, guarded by its status.                            *)
SettleFromWebhook(h) ==
  LET e == refundHook[h].event
      applied == AwaitsRefund(row[e.s]) IN
  /\ refundHook[h].step = "update"
  /\ row' = IF applied THEN [row EXCEPT ![e.s].status = SettledStatus(e.status)]
            ELSE row
  /\ refundHook' = [refundHook EXCEPT ![h].step = IF applied THEN "row" ELSE "audit"]
  /\ UNCHANGED <<books, sub, stripeRefundVars, delivered, refundRows, call,
                 refundAudited, refundsEnabled, refundCrashes>>

(* Then the row, if the settlement moved.                                  *)
MoveRefundRow(h) ==
  LET x == refundHook[h] IN
  /\ x.step = "row"
  /\ refundRows' = [refundRows EXCEPT ![x.event.s][x.j].status = x.event.status]
  /\ refundHook' = [refundHook EXCEPT ![h].step = "audit"]
  /\ UNCHANGED <<row, books, sub, stripeRefundVars, delivered, call,
                 refundAudited, refundsEnabled, refundCrashes>>

AuditRefund(h) ==
  /\ refundHook[h].step = "audit"
  /\ refundAudited' = refundAudited \cup {refundHook[h].event}
  /\ refundHook' = [refundHook EXCEPT ![h] = IdleRefundHook]
  /\ UNCHANGED <<row, books, sub, stripeRefundVars, delivered, refundRows, call,
                 refundsEnabled, refundCrashes>>

RefundHookStops(h) ==
  /\ refundHook[h] # IdleRefundHook
  /\ CallsDie
  /\ refundCrashes < MaxRefundCrashes
  /\ refundCrashes' = refundCrashes + 1
  /\ refundHook' = [refundHook EXCEPT ![h] = IdleRefundHook]
  /\ UNCHANGED <<row, books, sub, stripeRefundVars, delivered, refundRows, call,
                 refundAudited, refundsEnabled>>

-----------------------------------------------------------------------------
(* The environment.                                                        *)

(* STALE_CLAIM_MS elapse.  Unless calls may be slow, the platform has      *)
(* ended every call that began before the claim by then.                   *)
RefundClaimGoesStale(s) ==
  /\ row[s].status = "refund_pending"
  /\ row[s].claim = "fresh"
  /\ SlowCallers \/ \A c \in Caller : call[c] # IdleCall => call[c].s # s
  /\ row' = [row EXCEPT ![s].claim = "stale"]
  /\ UNCHANGED <<books, sub, refundLocals>>

RefundSubscriberMoves(u) ==
  /\ SubscriberMoves(u)
  /\ UNCHANGED <<row, books, refundLocals>>

ToggleRefunds ==
  /\ refundsEnabled' \in RefundSwitch
  /\ UNCHANGED <<row, books, sub, stripeRefundVars, delivered, refundRows, call,
                 refundHook, refundAudited, refundCrashes>>

-----------------------------------------------------------------------------
CallStep(c) ==
  \/ CheckGates(c) \/ ResumeInflight(c) \/ NothingInflight(c) \/ SumReserved(c)
  \/ ClaimForRefund(c) \/ LoseRefundClaim(c) \/ InsertRefundRow(c)
  \/ AskStripe(c) \/ StripeThrows(c) \/ WriteRefundRow(c) \/ SettleSettlement(c)

RefundHookStep(h) ==
  SettleFromWebhook(h) \/ MoveRefundRow(h) \/ AuditRefund(h)

(* What refunds do by themselves, without the subscriber's moves.          *)
RefundStep ==
  \/ \E c \in Caller : \/ \E s \in Settlement : LoadSettlement(c, s)
                       \/ CallStep(c)
                       \/ CallerStops(c)
  \/ \E h \in RefundHook : \/ \E e \in refundEvents : DeliverRefundEvent(h, e)
                           \/ RefundHookStep(h)
                           \/ RefundHookStops(h)
  \/ \E s \in Settlement : StripeSettlesRefund(s) \/ RefundKeyForgotten(s)
                           \/ RefundClaimGoesStale(s)
  \/ ToggleRefunds

RefundNext == RefundStep \/ \E u \in Subscriber : RefundSubscriberMoves(u)

RefundSpec == RefundInit /\ [][RefundNext]_refundVars

-----------------------------------------------------------------------------
(* Safety.                                                                 *)

(* 'refunded' is never written without the money: some refund of the       *)
(* settlement has succeeded at Stripe, whoever wrote the status.           *)
RefundedIsReturned ==
  \A s \in Settlement :
    row[s].status = "refunded" => \E k \in RefundSlot : refunds[s][k] = "succeeded"

(* A succeeded refund row stands for a succeeded refund at Stripe.         *)
SucceededRowIsReturned ==
  \A s \in Settlement : \A j \in RefundRowSlot :
    refundRows[s][j].status = "succeeded" =>
      /\ refundRows[s][j].refund # NoRefund
      /\ refunds[s][refundRows[s][j].refund] = "succeeded"

(* The fee is not kept and returned at once: a settlement in state 'paid'  *)
(* has no refund at Stripe that has succeeded or still may.                *)
PaidIsKept ==
  \A s \in Settlement :
    row[s].status = "paid" =>
      \A k \in RefundSlot : refunds[s][k] \in {"none", "failed"}

(* Over-refund guard: the rows that hold a reservation never add up to     *)
(* more than the settlement, of which each reserves all.                   *)
NeverOverReserved == \A s \in Settlement : Cardinality(Reserved(s)) <= 1

(* 'refunded' is terminal.                                                 *)
RefundedIsFinal ==
  [][\A s \in Settlement :
       row[s].status = "refunded" => row'[s].status = "refunded"]_row

(* A crashed refund can be taken up again: while no call is at work on a   *)
(* settlement in flight, it has the pending row that a resume looks for.   *)
CrashedRefundCanResume ==
  \A s \in Settlement :
    row[s].status = "refund_pending" =>
      \/ InflightRows(s) # {}
      \/ \E c \in Caller : call[c] # IdleCall /\ call[c].s = s

-----------------------------------------------------------------------------
(* Liveness.                                                               *)

(* Operators repeat a call while it can run, calls and webhooks run to     *)
(* their end, Stripe completes a refund and delivers each event once.      *)
RefundFairness ==
  /\ \A c \in Caller : WF_refundVars(CallStep(c))
  /\ \A c \in Caller, s \in Settlement : SF_refundVars(LoadSettlement(c, s))
  /\ \A h \in RefundHook : WF_refundVars(RefundHookStep(h))
  /\ WF_refundVars(\E h \in RefundHook, e \in refundEvents \ delivered :
                     DeliverRefundEvent(h, e))
  /\ \A s \in Settlement : WF_refundVars(StripeSettlesRefund(s))

FairRefundSpec == RefundSpec /\ RefundFairness

(* A row still waits for the outcome of a refund after Stripe told of it:  *)
(* the event came before the row knew the refund, or the key replayed an   *)
(* older answer to a later row.                                            *)
Overtaken(s) ==
  \E e \in delivered, j \in RefundRowSlot :
    /\ e.s = s
    /\ \A h \in RefundHook :
         refundHook[h] # IdleRefundHook => refundHook[h].event # e
    /\ refundRows[s][j].status = "pending"
    /\ refundRows[s][j].refund \in {0, e.refund}

(* A refund in flight ends, refunded or with the fee kept, unless a call   *)
(* or a delivery dies or an event that came too early was dropped.         *)
EveryRefundSettles ==
  \A s \in Settlement :
    row[s].status = "refund_pending" ~>
      \/ row[s].status \in {"paid", "refunded"}
      \/ Overtaken(s) \/ refundCrashes > 0

=============================================================================
