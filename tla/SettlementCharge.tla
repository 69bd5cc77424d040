-------------------------- MODULE SettlementCharge --------------------------
(***************************************************************************)
(* The money step: drainSettlements runs, possibly overlapping, that claim *)
(* a settlement, build its Stripe invoice and pay it, and the stripe       *)
(* webhook handlers that reconcile the same row from late events.          *)
(*                                                                         *)
(* A drain reads all its candidates first and then charges them one after  *)
(* the other, each from that early snapshot.  Candidates do not interact,  *)
(* so a run is modelled per candidate: a drain over n candidates is n runs *)
(* that selected together.  The calls to Stripe and the database are the   *)
(* points where other actors can step in between, so each is an action.    *)
(***************************************************************************)
EXTENDS StripeInvoices

CONSTANTS
  Run,            \* concurrent drain invocations (per candidate)
  Hook,           \* concurrent webhook invocations
  InitialBooks,   \* books a settlement may start with; persist_fee_settlement
                  \* inserts at most line_count lines
  RowCap,         \* rows PostgREST returns for one unpaginated read
  BatchLimit,     \* rows one drain reads (options.limit, 500)
  SwitchMoves,    \* bound: whether operators move the kill-switch
  AttemptBound,   \* bound: attempts beyond which a settlement is not selected
  MaxCrashes      \* bound: runs that die, or fail to write their outcome

ASSUME ChargeAssumption ==
  /\ InitialBooks \subseteq Books
  /\ \A b \in InitialBooks : Cardinality(b.lines) <= b.lineCount
  /\ RowCap \in Nat
  /\ BatchLimit \in Nat \ {0}
  /\ SwitchMoves \in BOOLEAN
  /\ AttemptBound \in Nat
  /\ MaxCrashes \in Nat

VARIABLES
  run,              \* the local state of each drain run
  hook,             \* the local state of each webhook invocation
  audited,          \* events with an audit_log row
  chargingEnabled,  \* app_config.settlement_charging_enabled and the live gate
  crashes,          \* how much of MaxCrashes is used up
  displaced,        \* history: runs whose row was written by another, or whose
                    \* claim went stale, since they claimed it
  lapses,           \* history: how often Stripe forgot the keys of a settlement
                    \* while an invoice of it could be unrecorded
  torn              \* history: settlements whose keys Stripe forgot while a run
                    \* was adding items

tables == <<row, books, sub>>
history == <<displaced, lapses, torn>>
chargeVars ==
  <<tables, stripeVars, run, hook, audited, chargingEnabled, crashes, history>>

Idle == [pc |-> "idle"]

(* attempts and invoice are the snapshot's; todo the lines loaded that the *)
(* run still has to add to the invoice; result what the final update will  *)
(* write.                                                                  *)
Work == [pc : {"selected", "loaded", "claimed", "items", "pay", "write"},
         s : Settlement, attempts : Nat, invoice : Slot \cup {NoInvoice},
         sub : SubscriberState, todo : SUBSET Line,
         result : {"none", "paid", "failed"},
         why : {"none", "no_customer", "reconcile", "invoice_build", "payment"}]

(* A run that builds or pays has an invoice, one that writes has a result. *)
RunState ==
  {w \in Work : /\ w.pc \in {"items", "pay"} => w.invoice # NoInvoice
                /\ w.pc = "write" => w.result # "none"} \cup {Idle}

Handling == [step : {"update", "audit"}, event : Event]
IdleHook == [step |-> "idle"]

HistoryTypeOK ==
  /\ displaced \subseteq Run
  /\ lapses \in [Settlement -> Nat]
  /\ torn \subseteq Settlement

ChargeTypeOK ==
  /\ TablesTypeOK
  /\ StripeTypeOK
  /\ run \in [Run -> RunState]
  /\ hook \in [Hook -> Handling \cup {IdleHook}]
  /\ audited \subseteq Event
  /\ chargingEnabled \in BOOLEAN
  /\ crashes \in 0..MaxCrashes
  /\ HistoryTypeOK

ChargeLocalsInit ==
  /\ StripeInit
  /\ run = [r \in Run |-> Idle]
  /\ hook = [h \in Hook |-> IdleHook]
  /\ audited = {}
  /\ chargingEnabled = TRUE
  /\ crashes = 0
  /\ displaced = {}
  /\ lapses = [s \in Settlement |-> 0]
  /\ torn = {}

ChargeInit ==
  /\ row = [s \in Settlement |-> NewRow]
  /\ books \in [Settlement -> InitialBooks]
  /\ sub \in [Subscriber -> Subscribers]
  /\ ChargeLocalsInit

-----------------------------------------------------------------------------
(* A drain run.                                                            *)

(* Mutant: a drain that never looks for stale claims.                      *)
IsUnclaimed(x) ==
  \/ x.status = "pending"
  \/ x.status = "failed" /\ x.attempts < MaxAttempts

IsCandidate(x) ==
  \/ x.status = "pending"
  \/ x.status = "failed" /\ x.attempts < MaxAttempts
  \/ x.status = "charging" /\ x.claim # "fresh"

(* The rows a drain may read: BatchLimit of those with these statuses, in  *)
(* no order, dead letters and fresh claims among them.                     *)
BatchRows == {s \in Settlement : row[s].status \in {"pending", "failed", "charging"}}
Batches ==
  {b \in SUBSET BatchRows :
     \/ b = BatchRows /\ Cardinality(b) <= BatchLimit
     \/ Cardinality(BatchRows) > BatchLimit /\ Cardinality(b) = BatchLimit}

(* The kill-switch and the candidates are read once, when the run starts.  *)
SelectCandidate(r, s) ==
  /\ run[r] = Idle
  /\ \E b \in Batches : s \in b
  /\ chargingEnabled
  /\ IsCandidate(row[s])
  /\ row[s].attempts <= AttemptBound
  /\ run' = [run EXCEPT ![r] =
               [pc |-> "selected", s |-> s, attempts |-> row[s].attempts,
                invoice |-> row[s].invoice, sub |-> "inactive", todo |-> {},
                result |-> "none", why |-> "none"]]
  /\ UNCHANGED <<tables, stripeVars, hook, audited, chargingEnabled, crashes, history>>

(* The lines an unpaginated read returns: at most RowCap of them.          *)
LoadedLines(s) ==
  {ls \in SUBSET books[s].lines :
     \/ ls = books[s].lines /\ Cardinality(ls) <= RowCap
     \/ Cardinality(books[s].lines) > RowCap /\ Cardinality(ls) = RowCap}

(* The batch reads of the subscribers and of the settlement lines.         *)
LoadContext(r) ==
  /\ run[r].pc = "selected"
  /\ \E ls \in LoadedLines(run[r].s) :
       run' = [run EXCEPT ![r].pc = "loaded", ![r].todo = ls,
                          ![r].sub = sub[SubscriberOf[run[r].s]]]
  /\ UNCHANGED <<tables, stripeVars, hook, audited, chargingEnabled, crashes, history>>

SkipInactive(r) ==
  /\ run[r].pc = "loaded"
  /\ run[r].sub = "inactive"
  /\ run' = [run EXCEPT ![r] = Idle]
  /\ UNCHANGED <<tables, stripeVars, hook, audited, chargingEnabled, crashes, history>>

HoldsClaim(r, s) ==
  run[r] # Idle /\ run[r].s = s /\ run[r].pc \notin {"selected", "loaded"}

(* Mutants: a claim that takes over fresh claims, and one matched on the   *)
(* id alone.                                                               *)
ClaimableInFlight(x) == x.status \in {"pending", "failed", "charging"}
ClaimableAlways(x) == TRUE

Claimable(x) ==
  \/ x.status \in {"pending", "failed"}
  \/ x.status = "charging" /\ x.claim = "stale"

(* The compare-and-set into 'charging'.                                    *)
ClaimForCharge(r) ==
  /\ run[r].pc = "loaded"
  /\ run[r].sub # "inactive"
  /\ Claimable(row[run[r].s])
  /\ row' = [row EXCEPT ![run[r].s].status = "charging",
                        ![run[r].s].claim = "fresh"]
  /\ run' = [run EXCEPT ![r].pc = "claimed"]
  /\ displaced' = displaced \ {r}
  /\ UNCHANGED <<books, sub, stripeVars, hook, audited, chargingEnabled, crashes,
                 lapses, torn>>

LoseClaim(r) ==
  /\ run[r].pc = "loaded"
  /\ run[r].sub # "inactive"
  /\ ~Claimable(row[run[r].s])
  /\ run' = [run EXCEPT ![r] = Idle]
  /\ UNCHANGED <<tables, stripeVars, hook, audited, chargingEnabled, crashes, history>>

(* The run's next step is the update of a failed charge; inv is the        *)
(* stripe_invoice_id in it, NoInvoice when the update has none.            *)
GiveUp(r, why, inv) ==
  run' = [run EXCEPT ![r].pc = "write", ![r].result = "failed",
                     ![r].why = why, ![r].invoice = inv, ![r].todo = {}]

Passes(r) ==
  run[r].sub = "chargeable" /\ Reconciles(books[run[r].s], run[r].todo)

(* No Stripe customer, or books that do not add up: no Stripe call.        *)
RefuseToCharge(r) ==
  /\ run[r].pc = "claimed"
  /\ ~Passes(r)
  /\ GiveUp(r, IF run[r].sub = "no_customer" THEN "no_customer" ELSE "reconcile",
            NoInvoice)
  /\ UNCHANGED <<tables, stripeVars, hook, audited, chargingEnabled, crashes, history>>

(* A stored invoice id means a finalized invoice: straight to payment.     *)
ResumeAtPayment(r) ==
  /\ run[r].pc = "claimed"
  /\ Passes(r)
  /\ run[r].invoice # NoInvoice
  /\ run' = [run EXCEPT ![r].pc = "pay", ![r].todo = {}]
  /\ UNCHANGED <<tables, stripeVars, hook, audited, chargingEnabled, crashes, history>>

StartInvoice(r) ==
  /\ run[r].pc = "claimed"
  /\ Passes(r)
  /\ run[r].invoice = NoInvoice
  /\ \E i \in Slot :
       /\ CreateInvoice(run[r].s, i)
       /\ run' = [run EXCEPT ![r].pc = "items", ![r].invoice = i]
  /\ UNCHANGED <<tables, hook, audited, chargingEnabled, crashes, history>>

AddItem(r) ==
  /\ run[r].pc = "items"
  /\ \E l \in run[r].todo :
       /\ AddInvoiceItem(run[r].s, run[r].invoice, l)
       /\ run' = [run EXCEPT ![r].todo = @ \ {l}]
  /\ UNCHANGED <<tables, hook, audited, chargingEnabled, crashes, history>>

(* Stripe finalizes the draft; its answer arrives, or is lost and counts   *)
(* as an error of the build.                                               *)
Finalize(r) ==
  /\ run[r].pc = "items"
  /\ run[r].todo = {}
  /\ FinalizeInvoice(run[r].s, run[r].invoice)
  /\ \/ run' = [run EXCEPT ![r].pc = "pay"]
     \/ GiveUp(r, "invoice_build", NoInvoice)
  /\ UNCHANGED <<tables, hook, audited, chargingEnabled, crashes, history>>

(* A create, item or finalize call throws with no effect: the network, or  *)
(* Stripe refusing it.  A lost answer to a create or an item is this throw *)
(* at the next call.                                                       *)
BuildThrows(r) ==
  /\ \/ run[r].pc = "claimed" /\ Passes(r) /\ run[r].invoice = NoInvoice
     \/ run[r].pc = "items"
  /\ GiveUp(r, "invoice_build", NoInvoice)
  /\ UNCHANGED <<tables, stripeVars, hook, audited, chargingEnabled, crashes, history>>

(* Stripe collects the money; the run learns of it, or the answer is lost  *)
(* or not yet 'paid'.                                                      *)
Pay(r) ==
  /\ run[r].pc = "pay"
  /\ CollectPayment(run[r].s, run[r].invoice)
  /\ \/ run' = [run EXCEPT ![r].pc = "write", ![r].result = "paid"]
     \/ GiveUp(r, "payment", run[r].invoice)
  /\ UNCHANGED <<tables, hook, audited, chargingEnabled, crashes, history>>

PayDeclined(r) ==
  /\ run[r].pc = "pay"
  /\ DeclinePayment(run[r].s, run[r].invoice)
  /\ GiveUp(r, "payment", run[r].invoice)
  /\ UNCHANGED <<tables, hook, audited, chargingEnabled, crashes, history>>

(* No effect at Stripe: an unreachable API, or an invoice already paid.    *)
PayThrows(r) ==
  /\ run[r].pc = "pay"
  /\ GiveUp(r, "payment", run[r].invoice)
  /\ UNCHANGED <<tables, stripeVars, hook, audited, chargingEnabled, crashes, history>>

(* Mutant: an update that loses the invoice id when the charge succeeds.   *)
OutcomeWithoutInvoice(x, w) ==
  [x EXCEPT !.status   = w.result,
            !.attempts = IF w.result = "failed" THEN w.attempts + 1 ELSE @,
            !.invoice  = IF w.result = "paid" THEN @ ELSE w.invoice]

(* The drain's update, matched on the id alone.                            *)
Outcome(x, w) ==
  [x EXCEPT !.status   = w.result,
            !.attempts = IF w.result = "failed" THEN w.attempts + 1 ELSE @,
            !.invoice  = IF w.invoice = NoInvoice THEN @ ELSE w.invoice]

(* The row of s is written by r, or by a webhook when others is Run: the   *)
(* other runs at work on it no longer hold what they claimed.              *)
Displaces(s, others) ==
  /\ displaced' = (displaced \cap others) \cup {q \in others : HoldsClaim(q, s)}
  /\ UNCHANGED <<lapses, torn>>

WriteOutcome(r) ==
  /\ run[r].pc = "write"
  /\ row' = [row EXCEPT ![run[r].s] = Outcome(@, run[r])]
  /\ run' = [run EXCEPT ![r] = Idle]
  /\ Displaces(run[r].s, Run \ {r})
  /\ UNCHANGED <<books, sub, stripeVars, hook, audited, chargingEnabled, crashes>>

(* The process dies, or a database call fails: a read or the claim throws  *)
(* out of the run, and an error of the last update is only logged.         *)
Crash(r) ==
  /\ run[r] # Idle
  /\ crashes < MaxCrashes
  /\ crashes' = crashes + 1
  /\ run' = [run EXCEPT ![r] = Idle]
  /\ displaced' = displaced \ {r}
  /\ UNCHANGED <<tables, stripeVars, hook, audited, chargingEnabled, lapses, torn>>

-----------------------------------------------------------------------------
(* The webhook.  Stripe gets its 200 before processEvent runs, so a failed *)
(* invocation is not retried; duplicates of an event can still arrive.     *)

(* The audit_log read of settlementEventAlreadyReconciled found nothing.   *)
Deliver(h, e) ==
  /\ hook[h] = IdleHook
  /\ e \in events \ audited
  /\ hook' = [hook EXCEPT ![h] = [step |-> "update", event |-> e]]
  /\ UNCHANGED <<tables, stripeVars, run, audited, chargingEnabled, crashes, history>>

(* The update both handlers make: .not("status", "in", "(paid,void)").     *)
Reconcile(h, status) ==
  LET e == hook[h].event IN
  /\ \/ row[e.s].status = "paid" /\ UNCHANGED <<row, history>>
     \/ /\ row[e.s].status # "paid"
        /\ row' = [row EXCEPT ![e.s].status = status, ![e.s].invoice = e.invoice]
        /\ Displaces(e.s, Run)
  /\ hook' = [hook EXCEPT ![h].step = "audit"]
  /\ UNCHANGED <<books, sub, stripeVars, run, audited, chargingEnabled, crashes>>

SettlementInvoicePaid(h) ==
  /\ hook[h].step = "update"
  /\ hook[h].event.type = "payment_succeeded"
  /\ Reconcile(h, "paid")

SettlementInvoiceFailed(h) ==
  /\ hook[h].step = "update"
  /\ hook[h].event.type = "payment_failed"
  /\ Reconcile(h, "failed")

WriteAudit(h) ==
  /\ hook[h].step = "audit"
  /\ audited' = audited \cup {hook[h].event}
  /\ hook' = [hook EXCEPT ![h] = IdleHook]
  /\ UNCHANGED <<tables, stripeVars, run, chargingEnabled, crashes, history>>

(* The invocation ends early: killed, or the update returned an error.     *)
HookStops(h) ==
  /\ hook[h] # IdleHook
  /\ hook' = [hook EXCEPT ![h] = IdleHook]
  /\ UNCHANGED <<tables, stripeVars, run, audited, chargingEnabled, crashes, history>>

-----------------------------------------------------------------------------
(* The environment.                                                        *)

(* STALE_CLAIM_MS elapse, whether the run that claimed has ended or not:   *)
(* nothing bounds how long a run takes.                                    *)
ClaimGoesStale(s) ==
  /\ row[s].status = "charging"
  /\ row[s].claim = "fresh"
  /\ row' = [row EXCEPT ![s].claim = "stale"]
  /\ displaced' = displaced \cup {r \in Run : HoldsClaim(r, s)}
  /\ UNCHANGED <<books, sub, stripeVars, run, hook, audited, chargingEnabled,
                 crashes, lapses, torn>>

(* An open invoice is paid by other means than payInvoice.                 *)
PaidOutOfBand(s) ==
  /\ \E i \in Slot : CollectPayment(s, i)
  /\ UNCHANGED <<tables, run, hook, audited, chargingEnabled, crashes, history>>

(* The row names no invoice, or a run under way read it when it did not.   *)
Unrecorded(s) ==
  \/ row[s].invoice = NoInvoice
  \/ \E r \in Run : /\ run[r] # Idle /\ run[r].s = s
                    /\ run[r].pc \in {"selected", "loaded", "claimed"}
                    /\ run[r].invoice = NoInvoice

(* Stripe forgets the keys after a day, whatever runs are doing.           *)
KeysForgotten(s) ==
  /\ ExpireKeys(s)
  /\ lapses' = IF Unrecorded(s) THEN [lapses EXCEPT ![s] = @ + 1] ELSE lapses
  /\ torn' = IF \E r \in Run : HoldsClaim(r, s) /\ run[r].pc = "items"
             THEN torn \cup {s} ELSE torn
  /\ UNCHANGED <<tables, run, hook, audited, chargingEnabled, crashes, displaced>>

ChangeSubscriber(u) ==
  /\ SubscriberMoves(u)
  /\ UNCHANGED <<row, books, stripeVars, run, hook, audited, chargingEnabled, crashes, history>>

ToggleCharging ==
  /\ SwitchMoves
  /\ chargingEnabled' = ~chargingEnabled
  /\ UNCHANGED <<tables, stripeVars, run, hook, audited, crashes, history>>

-----------------------------------------------------------------------------
RunStep(r) ==
  \/ LoadContext(r) \/ SkipInactive(r) \/ ClaimForCharge(r) \/ LoseClaim(r)
  \/ RefuseToCharge(r) \/ ResumeAtPayment(r) \/ StartInvoice(r) \/ AddItem(r)
  \/ Finalize(r) \/ BuildThrows(r) \/ Pay(r) \/ PayDeclined(r) \/ PayThrows(r)
  \/ WriteOutcome(r)

HookStep(h) ==
  \/ \E e \in events : Deliver(h, e)
  \/ SettlementInvoicePaid(h) \/ SettlementInvoiceFailed(h)
  \/ WriteAudit(h) \/ HookStops(h)

Environment ==
  \/ \E s \in Settlement : ClaimGoesStale(s) \/ PaidOutOfBand(s) \/ KeysForgotten(s)
  \/ \E u \in Subscriber : ChangeSubscriber(u)
  \/ ToggleCharging

ChargeNext ==
  \/ \E r \in Run : \/ \E s \in Settlement : SelectCandidate(r, s)
                    \/ RunStep(r)
                    \/ Crash(r)
  \/ \E h \in Hook : HookStep(h)
  \/ Environment

ChargeSpec == ChargeInit /\ [][ChargeNext]_chargeVars

-----------------------------------------------------------------------------
(* Safety.                                                                 *)

PaidInvoices(s) == {i \in Slot : invoices[s][i].status = "paid"}

(* However runs overlap, are slow, crash and are retried, the customer is  *)
(* charged for a settlement once, and once more at most for each time that *)
(* Stripe forgot its keys while an invoice could be unrecorded.  So the    *)
(* stored id alone protects from a second charge, and before it is stored  *)
(* the key does.                                                           *)
ChargedOnce ==
  \A s \in Settlement : Cardinality(PaidInvoices(s)) <= 1 + lapses[s]

(* An invoice that can be paid bills each line of its settlement exactly   *)
(* once, and those lines add up to the stored line count and total: what   *)
(* reconcileSettlement and the per-line keys are for.  Lines read in part, *)
(* runs that join another's invoice, crashes and forgotten keys do not     *)
(* change that, unless the keys are forgotten between two items of a run.  *)
InvoiceIsTheBill ==
  \A s \in Settlement \ torn : \A i \in Slot :
    Finalized(s, i) =>
      /\ Reconciles(books[s], books[s].lines)
      /\ invoices[s][i].items =
           [l \in Line |-> IF l \in books[s].lines THEN 1 ELSE 0]

(* 'paid' is never written without the money: the invoice the row names is *)
(* paid at Stripe, whichever of the drain and the webhook wrote the row.   *)
PaidIsCollected ==
  \A s \in Settlement :
    row[s].status = "paid" =>
      /\ row[s].invoice # NoInvoice
      /\ invoices[s][row[s].invoice].status = "paid"

(* A stored stripe_invoice_id means a finalized invoice, which is what     *)
(* lets a retry go straight to payment.                                    *)
StoredInvoiceIsFinalized ==
  \A s \in Settlement :
    row[s].invoice # NoInvoice => Finalized(s, row[s].invoice)

(* The claim: of the runs past it for a settlement, one at most still      *)
(* holds it; every other has been displaced, by a claim grown stale or by  *)
(* a webhook or late update that wrote the row under it.                   *)
SingleFlight ==
  \A s \in Settlement : \A q, r \in Run \ displaced :
    HoldsClaim(q, s) /\ HoldsClaim(r, s) => q = r

(* Once paid, a settlement stays paid (nothing here refunds it), but for   *)
(* the last update of a run that was displaced: no claim, no webhook and   *)
(* no run that still holds its claim takes 'paid' back.                    *)
PaidIsFinal ==
  [][\A s \in Settlement :
       row[s].status = "paid" /\ row'[s].status # "paid" =>
         \E r \in displaced : HoldsClaim(r, s) /\ run'[r] = Idle]_<<row, run, displaced>>

(* A failed try is never forgotten: attempts only grows.                   *)
AttemptsOnlyGrow ==
  [][\A s \in Settlement : row'[s].attempts >= row[s].attempts]_row

(* Only a settlement of a subscriber who may be charged at that moment is  *)
(* claimed for charging.                                                   *)
ClaimsOnlyTheActive ==
  [][\A s \in Settlement :
       row[s].status # "charging" /\ row'[s].status = "charging"
         => sub[SubscriberOf[s]] # "inactive"]_<<row, sub>>

DeadLettered(x) == x.status = "failed" /\ x.attempts >= MaxAttempts

(* No settlement is given up on while its finalized invoice, which a retry *)
(* could still pay, is not even recorded in the row.                       *)
NoFinalizedInvoiceIsLost ==
  \A s \in Settlement :
    DeadLettered(row[s]) /\ row[s].invoice = NoInvoice
      => \A i \in Slot : ~Finalized(s, i)

-----------------------------------------------------------------------------
(* Liveness.                                                               *)

(* The daily cron keeps starting drains, a drain works through every       *)
(* candidate it read, and time passes.  That a given row is read again is  *)
(* fair only while one read takes them all.                                *)
ChargeFairness ==
  /\ \A r \in Run : WF_chargeVars(RunStep(r))
  /\ \A r \in Run, s \in Settlement :
       SF_chargeVars(Cardinality(BatchRows) <= BatchLimit /\ SelectCandidate(r, s))
  /\ \A s \in Settlement : WF_chargeVars(ClaimGoesStale(s))

FairChargeSpec == ChargeSpec /\ ChargeFairness

ChargeableForGood(s) ==
  <>[](/\ chargingEnabled /\ sub[SubscriberOf[s]] # "inactive"
       /\ Cardinality(BatchRows) <= BatchLimit)

(* With charging on, the subscriber active and no more rows than one drain *)
(* reads, no settlement stays pending or claimed: in spite of crashes,     *)
(* lost answers, slow runs and late webhooks it ends paid or in the dead   *)
(* letters.  The exception are attempts beyond the bound, which only runs  *)
(* that again and again outlive their claims can reach: each may write its *)
(* 'failed' over the claim of the next, and this can go on for ever.       *)
EverySettlementSettles ==
  \A s \in Settlement :
    ChargeableForGood(s) =>
      <>[](\/ row[s].status = "paid" \/ DeadLettered(row[s])
           \/ row[s].attempts > AttemptBound)

=============================================================================
