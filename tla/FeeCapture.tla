----------------------------- MODULE FeeCapture -----------------------------
(***************************************************************************)
(* From a payment in QuickBooks to a fee and a balance: the webhook queues *)
(* one webhook_events row per notification, the cron worker takes the rows *)
(* in batches and, for each payment, fetches it, runs the capture core     *)
(* (which may write a rev_share_ledger row) and brings the local invoice   *)
(* and the balance_events ledger up to date; runQboSync does the latter    *)
(* for every invoice at once.  Nothing is locked: several workers and      *)
(* syncs may run at a time, and any of them may die.                       *)
(*                                                                         *)
(* One subscriber with one QuickBooks realm.  The invoice columns that no  *)
(* property reads (status, in_recovery, dates) are written together with   *)
(* the paid amount and are left out.                                       *)
(***************************************************************************)
EXTENDS QuickBooks, Sequences, SequencesExt

CONSTANTS
  Notification,     \* payment lists of the webhook bodies Intuit may send
  Worker,           \* concurrent worker invocations
  Sync,             \* concurrent runQboSync calls
  NoAnchor,         \* null: nothing to measure a drop from
  MinFaceCents,     \* MIN_QUALIFYING_FACE (300 dollars in the code)
  MaxAttempts,      \* MAX_ATTEMPTS (3 in the code)
  BatchLimit,       \* BATCH_LIMIT (25 in the code)
  OneAtATime,       \* does the cron start a worker or sync only when none runs
  BestEffortFails,  \* may reads and inserts whose errors are only logged fail
  MovingGate,       \* bound: which of subscription, source and connection change
  MaxDeliveries,    \* bound: deliveries of one notification
  MaxStops          \* bound: workers and syncs that die, lost mark-backs

VARIABLES
  queue,            \* webhook_events, in the order of received_at
  ledger,           \* rev_share_ledger: the payments with a row of source 'qbo'
  invoice,          \* invoices: synced, outstanding, outreach_started_at
  drops,            \* balance_events of each invoice, in the order of detected_at
  gates,            \* subscription active, source active, one connection to the realm
  worker,           \* the local state of each worker
  sync,             \* the local state of each sync
  contacts,         \* accepted sends and calls whose marker is not yet written
  opening,          \* history: the outstanding amount at the first upsert
  contactedFirst,   \* history: payments made after a first contact on the invoice
  stops             \* how much of MaxStops is used up

ASSUME CaptureAssumption ==
  /\ Notification \subseteq Seq(Payment) /\ IsFiniteSet(Notification)
  /\ MinFaceCents \in Nat /\ NoAnchor \notin Nat
  /\ MaxAttempts \in Nat \ {0} /\ BatchLimit \in Nat \ {0}
  /\ OneAtATime \in BOOLEAN /\ BestEffortFails \in BOOLEAN
  /\ MovingGate \subseteq {"active", "source", "connected"}
  /\ MaxDeliveries \in Nat /\ MaxStops \in Nat

bookVars == <<clock, qbo, contactedFirst>>
outcomes == <<ledger, invoice, drops, opening>>
captureVars == <<bookVars, outcomes, queue, gates, worker, sync, contacts, stops>>

MaxEvents == MaxDeliveries * Cardinality(Notification)

EventRow == [payments : Seq(Payment), status : {"pending", "done", "failed", "dead"},
             attempts : Nat]
InvoiceRow == [synced : BOOLEAN, outstanding : Nat, outreach : Nat]
Drop == [prev : Nat, new : Nat]

(* batch: the rows still to do, each with the attempts read at the claim.  *)
(* row, entity: the row and the payment at work.  balance: what QuickBooks *)
(* said; anchor: what the drop is measured from.                           *)
Working ==
  [pc : {"fetch", "gates", "insert", "invoice", "anchor", "emit", "update",
         "done", "failed"},
   batch : UNION {[rows -> 0..MaxAttempts] : rows \in SUBSET (1..MaxEvents)},
   row : 1..MaxEvents, entity : Nat, balance : Nat, anchor : Nat]
IdleWorker == [pc |-> "idle"]

Syncing ==
  [pc : {"invoices", "anchors", "upsert", "emit"},
   balance : [Invoice -> Nat], anchor : [Invoice -> Nat \cup {NoAnchor}]]
IdleSync == [pc |-> "idle"]

CaptureTypeOK ==
  /\ BooksTypeOK
  /\ queue \in Seq(EventRow) /\ Len(queue) <= MaxEvents
  /\ ledger \subseteq Payment
  /\ invoice \in [Invoice -> InvoiceRow]
  /\ drops \in [Invoice -> Seq(Drop)]
  /\ gates \in [active : BOOLEAN, source : BOOLEAN, connected : BOOLEAN]
  /\ worker \in [Worker -> Working \cup {IdleWorker}]
  /\ sync \in [Sync -> Syncing \cup {IdleSync}]
  /\ contacts \subseteq Invoice \X Nat
  /\ opening \in [Invoice -> Nat]
  /\ contactedFirst \subseteq Payment
  /\ stops \in 0..MaxStops

CaptureInit ==
  /\ BooksInit
  /\ queue = <<>>
  /\ ledger = {}
  /\ invoice = [i \in Invoice |->
                  [synced |-> FALSE, outstanding |-> 0, outreach |-> Never]]
  /\ drops = [i \in Invoice |-> <<>>]
  /\ gates = [active |-> TRUE, source |-> TRUE, connected |-> TRUE]
  /\ worker = [w \in Worker |-> IdleWorker]
  /\ sync = [y \in Sync |-> IdleSync]
  /\ contacts = {}
  /\ opening = [i \in Invoice |-> 0]
  /\ contactedFirst = {}
  /\ stops = 0

NobodyAtWork ==
  /\ \A w \in Worker : worker[w] = IdleWorker
  /\ \A y \in Sync : sync[y] = IdleSync

-----------------------------------------------------------------------------
(* The webhook: every delivery of a verified body is a row of its own.  A  *)
(* failed insert is answered 500, and Intuit delivers again.               *)

QueueNotification(n) ==
  /\ \A k \in 1..Len(n) : Recorded(n[k])
  /\ Cardinality({k \in 1..Len(queue) : queue[k].payments = n}) < MaxDeliveries
  /\ queue' = Append(queue, [payments |-> n, status |-> "pending", attempts |-> 0])
  /\ UNCHANGED <<bookVars, outcomes, gates, worker, sync, contacts, stops>>

-----------------------------------------------------------------------------
(* The worker.                                                             *)

(* Mutant: rows are claimed whatever became of them.                       *)
ClaimableEver(x) == x.attempts < MaxAttempts

Claimable(x) ==
  x.status = "pending" \/ (x.status = "failed" /\ x.attempts < MaxAttempts)

(* At the first payment of a row; a body without any is done.              *)
AtRow(batch, k) ==
  [pc |-> IF queue[k].payments = <<>> THEN "done" ELSE "fetch",
   batch |-> batch, row |-> k, entity |-> 1, balance |-> 0, anchor |-> 0]

IsFirst(k, rows) == k \in rows /\ \A j \in rows : k <= j

(* The claim is a read: the oldest claimable rows, with their attempts.    *)
ClaimBatch(w) ==
  LET rows == {k \in 1..Len(queue) : Claimable(queue[k])}
      oldest == {k \in rows : Cardinality({j \in rows : j <= k}) <= BatchLimit}
  IN
  /\ worker[w] = IdleWorker
  /\ OneAtATime => NobodyAtWork
  /\ \E k \in oldest :
       /\ IsFirst(k, oldest)
       /\ worker' = [worker EXCEPT ![w] =
                       AtRow([j \in oldest |-> queue[j].attempts], k)]
  /\ UNCHANGED <<bookVars, outcomes, queue, gates, sync, contacts, stops>>

RowAtWork(w) == worker[w].row
PaymentsAtWork(w) == queue[RowAtWork(w)].payments
PaymentAtWork(w) == PaymentsAtWork(w)[worker[w].entity]
InvoiceAtWork(w) == InvoiceOf[PaymentAtWork(w)]

(* The worker goes on at pc, having changed nothing but itself.            *)
Continue(w, pc) == worker' = [worker EXCEPT ![w].pc = pc]

LastPayment(w) == worker[w].entity = Len(PaymentsAtWork(w))

NextPayment(w) ==
  \/ LastPayment(w) /\ Continue(w, "done")
  \/ /\ ~LastPayment(w)
     /\ worker' = [worker EXCEPT ![w].pc = "fetch", ![w].entity = @ + 1]

NextRow(w) ==
  LET rest == {k \in DOMAIN worker[w].batch : k > RowAtWork(w)} IN
  \/ rest = {} /\ worker' = [worker EXCEPT ![w] = IdleWorker]
  \/ \E k \in rest :
       /\ IsFirst(k, rest)
       /\ worker' = [worker EXCEPT ![w] = AtRow([j \in rest |-> @.batch[j]], k)]

(* getPayment and getInvoice read the entities as QuickBooks has them now. *)
(* A 401 is tried again once, with a fresh token; any other answer, or one *)
(* without the entity, throws.                                             *)
FetchedBalance(w) == Balance(InvoiceAtWork(w))

(* buildEvent: the realm's one subscriber, the payment and the invoice.    *)
Fetch(w) ==
  /\ worker[w].pc = "fetch"
  /\ gates.connected
  /\ worker' = [worker EXCEPT ![w].pc = "gates", ![w].balance = FetchedBalance(w)]
  /\ UNCHANGED <<bookVars, outcomes, queue, gates, sync, contacts, stops>>

PastDue(p) ==
  DueDate[InvoiceOf[p]] # Never /\ DueDate[InvoiceOf[p]] < qbo[p].txnDate

(* Mutant: outreach on the day of the payment will do.                     *)
SameDayWillDo(marker, p) == marker # Never /\ Day(marker) <= qbo[p].txnDate

(* The two times a QuickBooks payment has for the gate.                    *)
PaymentTimes(p) == [recordedAt |-> CreateTime(p), txnDate |-> qbo[p].txnDate]

(* isOutreachBeforePayment: by the instant the payment was recorded, or,   *)
(* without one, by its date.  The same day is not before.                  *)
OutreachBeforePayment(marker, p) ==
  LET times == PaymentTimes(p) IN
  /\ marker # Never
  /\ IF times.recordedAt # Never THEN marker < times.recordedAt
     ELSE Day(marker) < times.txnDate

Qualifies(p) == FaceCents[InvoiceOf[p]] >= MinFaceCents

EarnsFee(p) ==
  /\ PastDue(p)
  /\ OutreachBeforePayment(invoice[InvoiceOf[p]].outreach, p)
  /\ Qualifies(p)

(* No row of the subscriber, or any status but 'active', is not active.    *)
IsSubscriberActive == gates.active

(* The gates of processCaptureEvent, whose reads follow each other within  *)
(* milliseconds: 'rejected' skips the reconcile.                           *)
PassGates(w) ==
  /\ worker[w].pc = "gates"
  /\ IF ~gates.source \/ ~gates.connected THEN NextPayment(w)
     ELSE Continue(w, IF IsSubscriberActive /\ EarnsFee(PaymentAtWork(w))
                      THEN "insert" ELSE "invoice")
  /\ UNCHANGED <<bookVars, outcomes, queue, gates, sync, contacts, stops>>

(* Unique on (source, source_payment_id): a second insert is a duplicate.  *)
InsertLedgerRow(w) ==
  /\ worker[w].pc = "insert"
  /\ ledger' = ledger \cup {PaymentAtWork(w)}
  /\ Continue(w, "invoice")
  /\ UNCHANGED <<bookVars, invoice, drops, opening, queue, gates, sync, contacts, stops>>

(* reconcileInvoiceFromCapture: the local invoice, if there is one ...     *)
ReadInvoice(w) ==
  /\ worker[w].pc = "invoice"
  /\ IF invoice[InvoiceAtWork(w)].synced
     THEN worker' = [worker EXCEPT ![w].pc = "anchor",
                       ![w].anchor = invoice[InvoiceAtWork(w)].outstanding]
     ELSE NextPayment(w)
  /\ UNCHANGED <<bookVars, outcomes, queue, gates, sync, contacts, stops>>

(* Mutant: without a recorded drop there is nothing to measure from.       *)
ReadDropOnly(w) ==
  LET recorded == drops[InvoiceAtWork(w)] IN
  /\ worker[w].pc = "anchor"
  /\ worker' = [worker EXCEPT ![w].pc = "emit",
       ![w].anchor = IF recorded = <<>> THEN NoAnchor ELSE Last(recorded).new]
  /\ UNCHANGED <<bookVars, outcomes, queue, gates, sync, contacts, stops>>

(* ... then the last recorded drop, which overrides it if it can be read.  *)
ReadAnchor(w) ==
  LET recorded == drops[InvoiceAtWork(w)] IN
  /\ worker[w].pc = "anchor"
  /\ \/ worker' = [worker EXCEPT ![w].pc = "emit",
                     ![w].anchor = IF recorded = <<>> THEN @ ELSE Last(recorded).new]
     \/ BestEffortFails /\ Continue(w, "emit")
  /\ UNCHANGED <<bookVars, outcomes, queue, gates, sync, contacts, stops>>

(* computeBalanceEvent: only a strict fall is a drop.                      *)
WithDrop(recorded, prev, new) ==
  IF new < prev THEN Append(recorded, [prev |-> prev, new |-> new]) ELSE recorded

(* Mutant: each payment is recorded as a fall of its own amount.           *)
EmitAmount(w) ==
  /\ worker[w].pc = "emit"
  /\ drops' = [drops EXCEPT ![InvoiceAtWork(w)] =
       WithDrop(@, worker[w].balance + AmountCents[PaymentAtWork(w)], worker[w].balance)]
  /\ Continue(w, "update")
  /\ UNCHANGED <<bookVars, ledger, invoice, opening, queue, gates, sync, contacts, stops>>

(* Mutant: an insert that fails is only logged.                            *)
EmitOrLog(w) ==
  /\ worker[w].pc = "emit"
  /\ drops' \in {drops, [drops EXCEPT ![InvoiceAtWork(w)] =
                           WithDrop(@, worker[w].anchor, worker[w].balance)]}
  /\ Continue(w, "update")
  /\ UNCHANGED <<bookVars, ledger, invoice, opening, queue, gates, sync, contacts, stops>>

(* The drop is recorded first ...                                          *)
EmitDrop(w) ==
  /\ worker[w].pc = "emit"
  /\ drops' = [drops EXCEPT ![InvoiceAtWork(w)] =
                 WithDrop(@, worker[w].anchor, worker[w].balance)]
  /\ Continue(w, "update")
  /\ UNCHANGED <<bookVars, ledger, invoice, opening, queue, gates, sync, contacts, stops>>

(* Mutant: the balance is worked out from the payment at work.             *)
UpdateByAmount(w) ==
  LET i == InvoiceAtWork(w) IN
  /\ worker[w].pc = "update"
  /\ invoice' = [invoice EXCEPT ![i].outstanding =
                   FaceCents[i] - AmountCents[PaymentAtWork(w)]]
  /\ NextPayment(w)
  /\ UNCHANGED <<bookVars, ledger, drops, opening, queue, gates, sync, contacts, stops>>

(* ... and then the invoice brought to what QuickBooks said.               *)
UpdateInvoice(w) ==
  /\ worker[w].pc = "update"
  /\ invoice' = [invoice EXCEPT ![InvoiceAtWork(w)].outstanding = worker[w].balance]
  /\ NextPayment(w)
  /\ UNCHANGED <<bookVars, ledger, drops, opening, queue, gates, sync, contacts, stops>>

(* A QuickBooks or database call of the row throws.  The reads of the      *)
(* anchor only log their error.                                            *)
RowThrows(w) ==
  /\ worker[w].pc \in {"fetch", "gates", "insert", "invoice", "emit", "update"}
  /\ Continue(w, "failed")
  /\ UNCHANGED <<bookVars, outcomes, queue, gates, sync, contacts, stops>>

(* The mark-back, matched on the id alone.                                 *)
MarkDone(w) ==
  /\ worker[w].pc = "done"
  /\ queue' = [queue EXCEPT ![RowAtWork(w)].status = "done"]
  /\ NextRow(w)
  /\ UNCHANGED <<bookVars, outcomes, gates, sync, contacts, stops>>

(* Mutant: a failure is not counted.                                       *)
MarkUncounted(w) ==
  /\ worker[w].pc = "failed"
  /\ queue' = [queue EXCEPT ![RowAtWork(w)].status = "failed"]
  /\ NextRow(w)
  /\ UNCHANGED <<bookVars, outcomes, gates, sync, contacts, stops>>

(* Mutant: a row that fails is done with.                                  *)
MarkDoneWith(w) ==
  /\ worker[w].pc = "failed"
  /\ queue' = [queue EXCEPT ![RowAtWork(w)].status = "done"]
  /\ NextRow(w)
  /\ UNCHANGED <<bookVars, outcomes, gates, sync, contacts, stops>>

MarkFailed(w) ==
  LET attempts == worker[w].batch[RowAtWork(w)] + 1 IN
  /\ worker[w].pc = "failed"
  /\ queue' = [queue EXCEPT
       ![RowAtWork(w)].status = IF attempts < MaxAttempts THEN "failed" ELSE "dead",
       ![RowAtWork(w)].attempts = attempts]
  /\ NextRow(w)
  /\ UNCHANGED <<bookVars, outcomes, gates, sync, contacts, stops>>

(* The mark-back fails, which is only logged.                              *)
MarkLost(w) ==
  /\ worker[w].pc \in {"done", "failed"}
  /\ stops < MaxStops
  /\ stops' = stops + 1
  /\ NextRow(w)
  /\ UNCHANGED <<bookVars, outcomes, queue, gates, sync, contacts>>

WorkerDies(w) ==
  /\ worker[w] # IdleWorker
  /\ stops < MaxStops
  /\ stops' = stops + 1
  /\ worker' = [worker EXCEPT ![w] = IdleWorker]
  /\ UNCHANGED <<bookVars, outcomes, queue, gates, sync, contacts>>

WorkerStep(w) ==
  \/ Fetch(w) \/ PassGates(w) \/ InsertLedgerRow(w)
  \/ ReadInvoice(w) \/ ReadAnchor(w) \/ EmitDrop(w) \/ UpdateInvoice(w)
  \/ RowThrows(w) \/ MarkDone(w) \/ MarkFailed(w)

-----------------------------------------------------------------------------
(* runQboSync.                                                             *)

SyncUnchanged == UNCHANGED <<bookVars, queue, gates, worker, contacts, stops>>

(* listInvoices: every invoice of the realm, page after page until a short *)
(* one, each with what is left of it.                                      *)
ListedBalances == [i \in Invoice |-> Balance(i)]

ListInvoices(y) ==
  /\ sync[y] = IdleSync
  /\ OneAtATime => NobodyAtWork
  /\ gates.connected
  /\ sync' = [sync EXCEPT ![y] =
       [pc |-> "invoices", balance |-> ListedBalances,
        anchor |-> [i \in Invoice |-> NoAnchor]]]
  /\ SyncUnchanged /\ UNCHANGED outcomes

(* If the invoices cannot be read, this sync records no drops.             *)
ReadInvoices(y) ==
  /\ sync[y].pc = "invoices"
  /\ \/ sync' = [sync EXCEPT ![y].pc = "anchors", ![y].anchor =
           [i \in Invoice |-> IF invoice[i].synced THEN invoice[i].outstanding
                              ELSE NoAnchor]]
     \/ BestEffortFails /\ sync' = [sync EXCEPT ![y].pc = "upsert"]
  /\ SyncUnchanged /\ UNCHANGED outcomes

ReadLastDrops(y) ==
  /\ sync[y].pc = "anchors"
  /\ \/ sync' = [sync EXCEPT ![y].pc = "upsert", ![y].anchor =
           [i \in Invoice |-> IF @[i] = NoAnchor \/ drops[i] = <<>> THEN @[i]
                              ELSE Last(drops[i]).new]]
     \/ BestEffortFails /\ sync' = [sync EXCEPT ![y].pc = "upsert"]
  /\ SyncUnchanged /\ UNCHANGED outcomes

(* The upsert leaves outreach_started_at alone.                            *)
UpsertInvoices(y) ==
  /\ sync[y].pc = "upsert"
  /\ invoice' = [i \in Invoice |->
       [invoice[i] EXCEPT !.synced = TRUE, !.outstanding = sync[y].balance[i]]]
  /\ opening' = [i \in Invoice |->
       IF invoice[i].synced THEN opening[i] ELSE sync[y].balance[i]]
  /\ sync' = [sync EXCEPT ![y].pc = "emit"]
  /\ SyncUnchanged /\ UNCHANGED <<ledger, drops>>

(* One insert for all drops of the batch; its failure is only logged.      *)
EmitDrops(y) ==
  /\ sync[y].pc = "emit"
  /\ \/ drops' = [i \in Invoice |->
           IF sync[y].anchor[i] = NoAnchor THEN drops[i]
           ELSE WithDrop(drops[i], sync[y].anchor[i], sync[y].balance[i])]
     \/ BestEffortFails /\ UNCHANGED drops
  /\ sync' = [sync EXCEPT ![y] = IdleSync]
  /\ SyncUnchanged /\ UNCHANGED <<ledger, invoice, opening>>

(* The sync of the customers or the upsert of the invoices throws; the     *)
(* reads of the anchors only log their error.                              *)
SyncThrows(y) ==
  /\ sync[y].pc \in {"invoices", "upsert"}
  /\ sync' = [sync EXCEPT ![y] = IdleSync]
  /\ SyncUnchanged /\ UNCHANGED outcomes

SyncDies(y) ==
  /\ sync[y] # IdleSync
  /\ stops < MaxStops
  /\ stops' = stops + 1
  /\ sync' = [sync EXCEPT ![y] = IdleSync]
  /\ UNCHANGED <<bookVars, outcomes, queue, gates, worker, contacts>>

SyncStep(y) ==
  \/ ReadInvoices(y) \/ ReadLastDrops(y) \/ UpsertInvoices(y)
  \/ EmitDrops(y) \/ SyncThrows(y)

-----------------------------------------------------------------------------
(* Outreach and the rest of the world.                                     *)

(* A mail or call about a synced invoice is accepted by its provider.      *)
(* Contacts after the marker is set change nothing here.                   *)
Contact(i) ==
  /\ invoice[i].synced
  /\ invoice[i].outreach = Never
  /\ contacts' = contacts \cup {<<i, clock>>}
  /\ UNCHANGED <<bookVars, outcomes, queue, gates, worker, sync, stops>>

(* markOutreachStarted: the marker is set unless it is set already, or the *)
(* update fails, which is only logged.                                     *)
MarkOutreachStarted(i, startedAt) ==
  /\ <<i, startedAt>> \in contacts
  /\ contacts' = contacts \ {<<i, startedAt>>}
  /\ \/ invoice' = [invoice EXCEPT ![i].outreach = IF @ = Never THEN startedAt ELSE @]
     \/ BestEffortFails /\ UNCHANGED invoice
  /\ UNCHANGED <<bookVars, ledger, drops, opening, queue, gates, worker, sync, stops>>

(* Somebody was contacted about i before now.                              *)
Contacted(i) ==
  invoice[i].outreach # Never \/ \E c \in contacts : c[1] = i

CustomerPays(p) ==
  /\ RecordPayment(p)
  /\ contactedFirst' = IF Contacted(InvoiceOf[p]) THEN contactedFirst \cup {p}
                       ELSE contactedFirst
  /\ UNCHANGED <<outcomes, queue, gates, worker, sync, contacts, stops>>

ClockTicks ==
  /\ Tick
  /\ UNCHANGED <<contactedFirst, outcomes, queue, gates, worker, sync, contacts, stops>>

GateFlips ==
  /\ \E g \in MovingGate : gates' = [gates EXCEPT ![g] = ~@]
  /\ UNCHANGED <<bookVars, outcomes, queue, worker, sync, contacts, stops>>

CaptureNext ==
  \/ \E n \in Notification : QueueNotification(n)
  \/ \E w \in Worker : ClaimBatch(w) \/ WorkerStep(w) \/ MarkLost(w) \/ WorkerDies(w)
  \/ \E y \in Sync : ListInvoices(y) \/ SyncStep(y) \/ SyncDies(y)
  \/ \E i \in Invoice : Contact(i)
  \/ \E c \in contacts : MarkOutreachStarted(c[1], c[2])
  \/ \E p \in Payment : CustomerPays(p)
  \/ ClockTicks
  \/ GateFlips

CaptureSpec == CaptureInit /\ [][CaptureNext]_captureVars

-----------------------------------------------------------------------------
(* Safety.                                                                 *)

(* A fee is charged only on a payment that was made after the customer had *)
(* been contacted about the invoice, however late the marker was written   *)
(* and the payment captured, and also when only its date is known.         *)
FeeOnlyAfterOutreach == ledger \subseteq contactedFirst

Recovered(i) ==
  LET Delta[k \in 0..Len(drops[i])] ==
        IF k = 0 THEN 0 ELSE Delta[k - 1] + (drops[i][k].prev - drops[i][k].new)
  IN Delta[Len(drops[i])]

(* Never double-counting: the drops recorded for an invoice do not add up  *)
(* to more than its customer has paid since it was first seen.             *)
DropsAreCountedOnce ==
  \A i \in Invoice :
    invoice[i].synced => Recovered(i) + Balance(i) <= opening[i]

(* Event first: as long as no worker or sync is killed, the local invoice  *)
(* never runs ahead of the recorded drops, except between the upsert and   *)
(* the insert of a sync.                                                   *)
NoDropIsLost ==
  \A i \in Invoice :
    \/ invoice[i].outstanding + Recovered(i) >= opening[i]
    \/ \E y \in Sync : sync[y].pc = "emit"
    \/ stops > 0

(* What the subscriber sees of an invoice never goes back to an older      *)
(* balance of QuickBooks.                                                  *)
OutstandingOnlyFalls ==
  [][\A i \in Invoice :
       invoice[i].synced => invoice'[i].outstanding <= invoice[i].outstanding]_captureVars

(* A row that is done or dead is not taken up or marked again.             *)
HandledIsFinal ==
  [][\A k \in 1..Len(queue) :
       queue[k].status \in {"done", "dead"} => queue'[k] = queue[k]]_queue

-----------------------------------------------------------------------------
(* Liveness.                                                               *)

(* The cron starts a worker every minute, started calls run on, Intuit     *)
(* delivers each notification at least once.                               *)
Queued(n) == \E k \in 1..Len(queue) : queue[k].payments = n

CaptureFairness ==
  /\ \A w \in Worker : SF_captureVars(ClaimBatch(w)) /\ WF_captureVars(WorkerStep(w))
  /\ \A y \in Sync : WF_captureVars(SyncStep(y))
  /\ WF_captureVars(\E n \in Notification : ~Queued(n) /\ QueueNotification(n))

FairCaptureSpec == CaptureSpec /\ CaptureFairness

(* Every queued notification is handled or given up in the end.            *)
EveryEventIsHandled ==
  <>[](\A k \in 1..Len(queue) : queue[k].status \in {"done", "dead"})

(* A fee that is earned before Intuit has told of its payment is captured, *)
(* unless a row of the payment fails so often that it is given up, or the  *)
(* subscriber goes inactive or disconnects before the row is handled.      *)
ToldLater(p) ==
  \E n \in Notification :
    /\ \E k \in 1..Len(n) : n[k] = p
    /\ \A k \in 1..Len(n) : Recorded(n[k])
    /\ ~Queued(n)

GivenUp(p) ==
  \E e \in 1..Len(queue) :
    queue[e].status = "dead" /\ \E k \in 1..Len(queue[e].payments) : queue[e].payments[k] = p

GatesOpen == IsSubscriberActive /\ gates.source /\ gates.connected

EarnedFeeIsCaptured ==
  \A p \in Payment :
    (ToldLater(p) /\ EarnsFee(p)) ~> (p \in ledger \/ GivenUp(p) \/ ~GatesOpen)

=============================================================================
