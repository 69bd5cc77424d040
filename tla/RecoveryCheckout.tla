-------------------------- MODULE RecoveryCheckout --------------------------
(***************************************************************************)
(* What becomes of a recovered payment: checkout.session.completed is      *)
(* delivered to the webhook, which has answered 200 before it works, so    *)
(* that nothing it fails to do is delivered again on its account (Stripe   *)
(* may still deliver twice).  The handler flips the link to 'paid',        *)
(* captures the fee that Stripe has already kept, and reflects the payment *)
(* to QuickBooks, which then reports it like any other payment.            *)
(***************************************************************************)
EXTENDS RecoveryLinks

CONSTANTS
  Delivery,       \* deliveries of checkout.session.completed at one time
  MaxAttempts     \* ledger_sync.max_attempts

ASSUME SyncAssumption == MaxAttempts \in Nat \ {0}

VARIABLES
  delivery,       \* where each delivery is, and for which session
  feeRows,        \* rev_share_ledger: <<source, session>>
  announced,      \* sessions that have been delivered at least once
  dropped,        \* sessions one of whose deliveries ended before the flip
  overlapped,     \* history: sessions of which two deliveries were to flip
  syncRow, posted, reflecting

captureVars == <<delivery, feeRows, announced, dropped, overlapped>>
syncVars == <<syncRow, posted, reflecting>>

Sync == INSTANCE LedgerSync
          WITH Payment <- Session, NoPayment <- NoSession, Reflector <- Delivery

checkoutVars == <<payoutVars, linkVars, captureVars, syncVars>>

Waiting == [pc |-> "wait", session |-> NoSession, link |-> NoLink]

CheckoutTypeOK ==
  /\ PayoutTypeOK /\ LinkTypeOK /\ Sync!SyncTypeOK
  /\ delivery \in [Delivery ->
       [pc : {"wait", "resolve", "flip", "lookup", "capture", "reflect"},
        session : Session \cup {NoSession}, link : Link \cup {NoLink}]]
  /\ feeRows \subseteq {"stripe_recovery", "qbo"} \X Session
  /\ announced \subseteq Session /\ dropped \subseteq Session
  /\ overlapped \subseteq Session

Init ==
  /\ PayoutInit /\ LinkInit /\ Sync!SyncInit
  /\ delivery = [d \in Delivery |-> Waiting]
  /\ feeRows = {} /\ announced = {} /\ dropped = {} /\ overlapped = {}

-----------------------------------------------------------------------------
Deliver(d, s) ==
  /\ delivery[d].pc = "wait" /\ reflecting[d].pc = "rest"
  /\ sessions[s].state = "collected"
  /\ delivery' = [delivery EXCEPT ![d] =
                    [pc |-> "resolve", session |-> s, link |-> NoLink]]
  /\ announced' = announced \cup {s}
  /\ UNCHANGED <<payoutVars, linkVars, feeRows, dropped, overlapped, syncVars>>

(* By the session id on the row, or else by the token in the metadata:     *)
(* either way the row whose session it is, paid or not.                    *)
LinkOf(s) ==
  LET bySession == {l \in Link : links[l].session = s} IN
  IF bySession # {} THEN CHOOSE l \in bySession : TRUE ELSE sessions[s].link

(* Mutant: only an active link is taken for payable.                       *)
ResolveActive(l) == links[l].status = "active"

(* Mutant: a link that is already paid is handled again.                   *)
AnyLink(l) == TRUE

Unpaid(l) == links[l].status # "paid"

(* History: another delivery of the session has found the link unpaid and  *)
(* has not flipped it.                                                     *)
IsOvertaking(d) ==
  \E e \in Delivery \ {d} :
    delivery[e].pc = "flip" /\ delivery[e].session = delivery[d].session

ResolveLink(d) ==
  LET l == LinkOf(delivery[d].session) IN
  /\ delivery[d].pc = "resolve"
  /\ \/ /\ Unpaid(l)
        /\ delivery' = [delivery EXCEPT ![d].pc = "flip", ![d].link = l]
        /\ overlapped' = IF IsOvertaking(d) THEN overlapped \cup {delivery[d].session}
                         ELSE overlapped
     \/ /\ ~Unpaid(l)
        /\ delivery' = [delivery EXCEPT ![d] = Waiting] /\ UNCHANGED overlapped
  /\ UNCHANGED <<payoutVars, linkVars, feeRows, announced, dropped, syncVars>>

(* By id alone, over an expired link too.  An error ends the handler.      *)
FlipLink(d) ==
  /\ delivery[d].pc = "flip"
  /\ \/ /\ links' = [links EXCEPT ![delivery[d].link].status = "paid"]
        /\ delivery' = [delivery EXCEPT ![d].pc = "lookup"]
        /\ UNCHANGED dropped
     \/ /\ delivery' = [delivery EXCEPT ![d] = Waiting]
        /\ dropped' = dropped \cup {delivery[d].session}
        /\ UNCHANGED links
  /\ UNCHANGED <<payoutVars, sessions, issuing, visiting, feeRows, announced,
                 overlapped, syncVars>>

(* The payment intent, the invoice and its external id, and the one realm  *)
(* of the subscriber; without any of them the capture is skipped.          *)
LookUpInvoice(d) ==
  /\ delivery[d].pc = "lookup"
  /\ \E found \in BOOLEAN :
       delivery' = [delivery EXCEPT ![d] =
                      IF found THEN [@ EXCEPT !.pc = "capture"] ELSE Waiting]
  /\ UNCHANGED <<payoutVars, linkVars, feeRows, announced, dropped, overlapped,
                 syncVars>>

(* insertLedgerRow: unique on (source, source_payment_id).                 *)
Captured(source, s) == feeRows \cup {<<source, s>>}

(* processCaptureEvent: its gates pass and the row is written or is there  *)
(* already; or they do not, or it throws, and the handler ends.            *)
CaptureFee(d) ==
  /\ delivery[d].pc = "capture"
  /\ \/ /\ feeRows' = Captured("stripe_recovery", delivery[d].session)
        /\ delivery' = [delivery EXCEPT ![d].pc = "reflect"]
     \/ UNCHANGED feeRows /\ delivery' = [delivery EXCEPT ![d] = Waiting]
  /\ UNCHANGED <<payoutVars, linkVars, announced, dropped, overlapped, syncVars>>

Reflect(d) ==
  /\ delivery[d].pc = "reflect"
  /\ Sync!StartReflecting(d, delivery[d].session)
  /\ delivery' = [delivery EXCEPT ![d] = Waiting]
  /\ UNCHANGED <<payoutVars, linkVars, feeRows, announced, dropped, overlapped>>

ReflectGoesOn(d) ==
  Sync!ReflectStep(d) /\ UNCHANGED <<payoutVars, linkVars, captureVars>>

(* The function is stopped wherever it is.                                 *)
DeliveryDies(d) ==
  /\ delivery[d].pc # "wait" \/ reflecting[d].pc # "rest"
  /\ dropped' = IF delivery[d].pc \in {"resolve", "flip"}
                THEN dropped \cup {delivery[d].session} ELSE dropped
  /\ delivery' = [delivery EXCEPT ![d] = Waiting]
  /\ reflecting' = [reflecting EXCEPT ![d] = Sync!AtRest]
  /\ UNCHANGED <<payoutVars, linkVars, feeRows, announced, overlapped, syncRow,
                 posted>>

(* The QuickBooks webhook reports the reflected payment, which passes the  *)
(* same gates for the same invoice: captureAdapter knows no exception.     *)
QuickBooksReports(s) ==
  /\ posted[s] > 0
  /\ feeRows' = Captured("qbo", s)
  /\ UNCHANGED <<payoutVars, linkVars, delivery, announced, dropped, overlapped,
                 syncVars>>

Handle(d) ==
  \/ ResolveLink(d) \/ FlipLink(d) \/ LookUpInvoice(d) \/ CaptureFee(d)
  \/ Reflect(d) \/ ReflectGoesOn(d)

Next ==
  \/ LinkNext /\ UNCHANGED <<captureVars, syncVars>>
  \/ \E d \in Delivery : (\E s \in Session : Deliver(d, s)) \/ Handle(d)
                           \/ DeliveryDies(d)
  \/ \E s \in Session : QuickBooksReports(s)

Spec == Init /\ [][Next]_checkoutVars

-----------------------------------------------------------------------------
(* Safety.                                                                 *)

(* A fee of the recovery rail stands only against money that a debtor has  *)
(* paid, for a link that says so: no void, disconnect or expiry that runs  *)
(* at the same time takes 'paid' back.                                     *)
FeeOnlyForPaidLink ==
  \A s \in Session :
    <<"stripe_recovery", s>> \in feeRows =>
      /\ sessions[s].state = "collected"
      /\ links[sessions[s].link].status = "paid"

(* Money is sent only to an account whose charges Stripe has enabled: what *)
(* the payout row says is about the account that it names, whichever tab   *)
(* wrote which half.  The one exception is an account that a slow status   *)
(* check gave the status of the account it took the place of.              *)
SessionsPayReviewedAccount ==
  \A s \in Session :
    sessions[s].state # "none" => sessions[s].account \in approved \cup misjudged

(* A recovered payment becomes at most one payment in QuickBooks, however  *)
(* its deliveries repeat, overlap and die and whatever answer is lost,     *)
(* unless two of them found the link unpaid before either flipped it.      *)
PostedAtMostOnce == \A s \in Session \ overlapped : posted[s] <= 1

(* The fee of one recovery is owed once: what Stripe kept at capture is    *)
(* not captured again for the monthly sweep to bill.                       *)
OneFeePerRecovery ==
  \A s \in Session : ~({"stripe_recovery", "qbo"} \X {s} \subseteq feeRows)

-----------------------------------------------------------------------------
(* Liveness.  Stripe delivers every completed session at least once,       *)
(* however busy the webhook is with others, and a handler that is not      *)
(* stopped takes its next step.                                            *)

FairSpec ==
  /\ Spec
  /\ \A s \in Session :
       SF_checkoutVars(s \notin announced /\ \E d \in Delivery : Deliver(d, s))
  /\ \A d \in Delivery : WF_checkoutVars(Handle(d))

(* A collected payment ends with its link 'paid', also when the link was   *)
(* voided or lapsed in the meantime: only a delivery that ended before the *)
(* flip can lose it.                                                       *)
PaidIsRecorded ==
  \A s \in Session, l \in Link :
    (sessions[s].state = "collected" /\ sessions[s].link = l) ~>
      (links[l].status = "paid" \/ s \in dropped)

=============================================================================
