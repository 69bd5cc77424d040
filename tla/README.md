# Verification of Clyintel

TLA+ models, TLC checks and TLAPS proofs for the repository's server code
(`src/clyintel`; paths below are relative to it unless they start with `src/`).
Clyintel recovers overdue invoices for its subscribers, charges a fee on what it
recovers and settles those fees once a month.  The program is a Next.js
application on serverless functions; all state that outlives a request is in
Postgres (through Supabase's REST interface, so no transaction spans several
calls, except inside SQL functions), in Stripe and in QuickBooks.  Every handler
is therefore a sequence of single reads and writes with other handlers free to
run in between, and any of them may be the last one before the process ends.
That is what these models are about.

    tlasany M.tla                              parse
    tlc -workers 2 -config X.cfg MCM.tla       model-check
    tlapm MProofs.tla                          check the proofs

Contents: 1 inventory, 2 plan, 3 modules and code, 4 runs and bounds, 5 fairness,
6 proofs, 7 disagreements between code and its documentation, 8 what is left out.

## 1. Inventory

| Component | State | Operations | Talks to |
|---|---|---|---|
| Settlement sweep (`lib/settlement/runSweep.ts`, `selectEligibleLedgerRows.ts`, `computeSettlements.ts`, `persistSettlements.ts`, `cycleBoundary.ts`; SQL function `persist_fee_settlement`) | `fee_settlements`, `fee_settlement_lines`; reads `rev_share_ledger`, `subscribers`, `app_config` | read config; read eligible ledger rows in three paged reads; round, group and apply the minimum; insert a settlement and its lines in one transaction | cron route, then the charge drain |
| Settlement charge (`lib/settlement/chargeSettlement.ts`, `reconcileSettlement.ts`) | `fee_settlements.status`, `attempts`, `claimed_at`, `stripe_invoice_id` | select candidates; batch-load; claim; reconcile; create, fill, finalize and pay a Stripe invoice; write the outcome | Stripe, webhooks (through the row) |
| Settlement webhooks (`app/api/stripe-webhook/route.ts`: paid, failed, refund, voided) | the same row, `fee_settlement_refunds`, `audit_log` | dedup by `audit_log`; guarded update; audit | Stripe events, late, repeated or lost |
| Settlement refund (`lib/settlement/refundSettlement.ts`, `app/api/settlement/refund`) | `fee_settlement_refunds`, `fee_settlements.status` | over-refund guard; claim; insert the refund row; refund at Stripe; settle; resume | Stripe, refund webhooks |
| Fee capture (`lib/capture`, `lib/revshare`) | `rev_share_ledger` | gates (source, subscriber, past due, outreach, minimum); fee by band of face value; one ledger row per source payment | worker, recovery checkout |
| Balance reconciliation (`lib/qbo/reconcileInvoiceFromCapture.ts`, `lib/balanceEvents`) | `invoices` amounts, `balance_events` | read the anchor; record a fall; update the invoice | capture worker, QBO sync |
| QBO webhook and worker (`app/api/qbo/webhook`, `app/api/qbo/worker`) | `webhook_events` | queue notifications; take pending and failed rows in batches; mark them done, failed or dead | QuickBooks, capture |
| QBO sync (`lib/qbo/runQboSync.ts`) | `clients`, `client_contacts`, `invoices`, `balance_events` | upsert of customers, contacts and invoices; record falls | QuickBooks |
| QBO tokens (`lib/qbo/tokens.ts`, callback and disconnect routes) | `connected_accounts` | refresh an expiring access token; connect, disconnect, flag for reconnect | QuickBooks |
| Recovery links and checkout (`lib/recovery`, `app/api/connect/payment-link`, `app/pay`) | `recovery_links`, `rev_share_ledger` | mint a link; open a checkout session per click; on completion flip the link, capture, reflect | Stripe Connect, ledger sync |
| Ledger sync (`lib/ledgerSync`) | `ledger_sync` | post the recovered payment to QuickBooks, counting attempts | QuickBooks |
| Outreach cadence (`lib/outreach`, `app/api/outreach`) | `communications`, `recovery_attempts`, cadence progress, `invoices.outreach_started_at` | claim a step by a unique insert; mail; finalize or release; mark the first contact | MailerSend, fee capture (through the marker) |
| Voice calls and handoff mail (`lib/voice`, `app/api/voice`) | `voice_calls`, `voice_call_events` | place a call; tools and webhook of the provider; claim the payment mail of a call | Vapi, MailerSend |
| Mail events and replies (`app/api/webhooks`, `app/api/email-reply`, `app/api/sms-reply`) | `communications`, `client_contacts`, `clients` attention | reconcile delivery events; opt-outs; read-modify-write of attention | MailerSend |
| Subscription webhooks (`app/api/stripe-webhook/route.ts`) | `subscribers`, `payments` | follow the subscription's status; payments ledger; charge refunds | Stripe events |
| Stripe Connect onboarding (`app/api/connect`) | `payout_accounts` | onboard, status, disconnect | Stripe Connect |
| Client score (`lib/score`) | `ptr_scores`; reads `invoices`, `invoice_payments`, `balance_events` | resolve payment dates; compute; upsert the month's row | pages, QBO sync's rows |
| Contacts (`lib/contacts`, `app/api/clients/contacts`) | `client_contacts`, the point of contact in `clients` | create, edit, delete under unique ranks; plan and write the synced point of contact; choose the recipient | QBO sync, send step |
| CSV import, read models and UI, authentication and adapters, delivery tooling | -- | forms, rendering, I/O, build automation | -- |

What is hard in them, and what would make them correct:

- **Sweep.** Two sweeps overlap; the reads are paged while payments are captured;
  a fee may arrive for a closed cycle or stay below the minimum.  *Every fee in at
  most one settlement, only what is owed, books that add up and never change,
  every large enough fee billed in the end.*
- **Charge.** A run dies or loses Stripe's answer between any two of five calls;
  claims go stale by the clock; late events write the same row; idempotency keys
  expire.  *One charge per settlement, an invoice that is exactly the bill,
  'paid' only with the money, every settlement ends.*
- **Refund.** The same with money going back, plus asynchronous completion.
  *'refunded' only with the money returned, one reservation, in flight never for
  ever.*
- **Capture.** The worker's claim is a read; rows are retried as a whole; payments
  come in any order, twice, late; the marker is written after the contact.
  *A fee only on a payment after a contact, no earned fee dropped, every event
  handled or given up.*
- **Balances.** Anchor read, event insert and invoice update are three calls, and
  sync and worker share them.  *Each fall recorded once, none lost, balances never
  go back.*
- **Tokens.** Two refreshes of a rotating token, one of them against a reconnect; a
  consent that comes back in another subscriber's session.  *Tokens belong to who
  consented, the stored token is the live one, a disconnect lasts.*
- **Recovery checkout, ledger sync.** Redelivered completions, two sessions of one
  link, a link flipped before its capture, a payment that comes back as a
  QuickBooks notification.  *One capture and one QuickBooks payment per payment;
  a payment is never billed by both rails.*
- **Cadence, voice, mail events.** A claim that is never released; a mail claimed by
  two; attention overwritten.  *A step is sent once and not lost.*
- **Contacts.** The synced point of contact and hand-edited contacts share one ranking,
  and an opt-out arrives while either is written.  *Who unsubscribed is left alone.*
- **Subscriptions.** Events repeated and out of order; two first checkouts at once.
  *One customer, a ledger that is Stripe's, one mail per event.*
- **Score.** Books read in several calls while they change, over the end of a month.
  *A day's row misses nothing older than the day; paying later never helps.*

## 2. Plan

Order: the monthly settlement (the core money path) and its refund, then where its
fees come from, then the second rail, the outreach that entitles to fees, and the rest
of what several requests write.

| Stage | Modules | Composition and abstraction | Runs | Theorems |
|---|---|---|---|---|
| done | `FeeSettlements`, `StripeInvoices`, `SettlementCharge` | charge + Stripe + invoice webhooks | `charge` | types, `ChargedOnce`, `PaidIsCollected`, `StoredInvoiceIsFinalized`, `SingleFlight`, `PaidIsFinal`, `OnlyCorruptBooksFailReconciling`, `InvoiceIsTheBill` |
| done | `SettlementSweep` | extends `FeeSettlements` | `sweep` | `EachFeeInOneSettlement`, `BillsOnlyWhatIsOwed`, `BooksAreFrozen` |
| done | `SettlementRefund` | extends `FeeSettlements` | `refund` | types, `RefundedIsReturned`, `SucceededRowIsReturned` |
| done | `SettlementLifecycle`, `FeeCollection` | charge + refund + both webhooks on one row implement the abstract `FeeCollection` | `lifecycle` | the refinement, types, money |
| done | `QuickBooks`, `FeeCapture` | webhook queue + worker + capture + reconcile + sync | `capture` | `FeeOnlyAfterOutreach`, `DropsAreCountedOnce`, `NoDropIsLost` |
| done | `PayoutAccount`, `RecoveryLinks`, `LedgerSync`, `RecoveryCheckout` | account, links, pay page, Stripe's completion, reflection | `checkout`, `payout` | `FeeOnlyForPaidLink`, `SessionsPayReviewedAccount`, `PostedAtMostOnce` |
| done | `QboConnection` | -- | `connection` | types, `StoredTokenIsLive`, `TokensAreOwn`, `ConnectedByConsent`, `ChosenNameStays` |
| done | `ClientContacts`, `EmailStep`, `Cadence`, `MailEvents`, `VoiceCalls`, `Outreach` | cadence, calls and mail events share the send step and the contacts | `outreach`, `contacts` | types, `StepMailedOnce`, `OneMailPerCall`, `NullMeansUnsent`, `StampIsContact`, `UnsubscribedPocIsLeftAlone` |
| done | `Subscriptions` | -- | `subscription` | `SessionsUseStoredCustomer`, `OneMailPerEvent`, `LedgerIsStripes` |
| done | `ClientScore` | computation and the requests that store it | `score` | types, `RowMissesNothingBeforeItsDay`, `TimingsIgnoreOrder`, `PayingLaterNeverHelps` |
| next | `SettlementBilling` | sweep + charge: every fee of the ledger collected at most once, as a refinement | one run | its steps |
| next | `RecoveryCheckout` with `FeeCapture` | the reflected payment as a notification of the real queue, in place of today's `QuickBooksReports` | one run | -- |

## 3. Modules and code

All modules work on one grain: an action is one call to the database, Stripe, QuickBooks,
MailerSend or Vapi together with the local code up to the next one.  Each actor (a drain
run, a webhook invocation, a worker, a page request) is a record with a program counter
and the values it has read; what it has read stays in the record while others move on.

| Module | Models | State |
|---|---|---|
| `FeeSettlements` | the tables `fee_settlements`, `fee_settlement_lines`, `subscribers`; `reconcileSettlement` | `row`, `books`, `sub` |
| `StripeInvoices` | Stripe's invoices as `lib/stripe.ts` uses them: keyed create and item, finalize, pay, events | `invoices`, `liveKey`, `itemKeys`, `events` |
| `SettlementCharge` | `drainSettlements`, `chargeOneSettlement`, `claimForCharge`, `handleSettlementInvoicePaid`, `handleSettlementInvoiceFailed` | `run`, `hook`, `audited`, `chargingEnabled` |
| `SettlementSweep` | `runSettlementSweep` with its reads, the plan, `persist_fee_settlement`, the calendar | `ledger`, `sweep`, `now`, `sweepEnabled` |
| `SettlementRefund` | `refundSettlement`, `driveStripeAndSettle`, `handleSettlementRefundEvent`, Stripe's refunds | `refunds`, `refundKey`, `refundEvents`, `refundRows`, `call`, `refundHook`, ... |
| `FeeCollection` | nothing of the code: what a settlement promises | `money`, `says` |
| `SettlementLifecycle` | charge and refund on the same row, and the map to `FeeCollection` | all of the above |
| `QuickBooks` | payments with their instant and date, balances | `clock`, `qbo` |
| `FeeCapture` | `POST qbo/webhook`, `runWorker`, `processWebhookEventRow`, `buildCaptureEventFromPayment`, `processCaptureEvent`, `reconcileInvoiceFromCapture`, the invoices' part of `runQboSync`, `markOutreachStarted` | `queue`, `ledger`, `invoice`, `drops`, `gates`, `worker`, `sync`, `contacts`, ... |
| `PayoutAccount` | `api/connect` onboard, status and disconnect; Stripe's review | `payout`, `express`, `onboarding`, `checking` |
| `RecoveryLinks` | `api/connect/payment-link`, the pay page with its challenge, Stripe's sessions | `links`, `sessions`, `issuing`, `visiting` |
| `LedgerSync` | `reflectPayment` and `qboAdapter` | `syncRow`, `posted`, `reflecting` |
| `RecoveryCheckout` | `handleCheckoutCompleted`, with `LedgerSync` instantiated for its reflection | `delivery`, `feeRows`, `announced`, `dropped` |
| `QboConnection` | connect, callback, `getValidAccessToken` with its refresh, disconnect, the suggested business name | `conn`, `intuit`, `browser`, `consenting`, `refreshing`, `leaving`, `bizName` |
| `ClientContacts` | the contact routes and `mutateContact`, `planPocReconcile` and the sync's writes, `selectRecipients` | `contacts`, `client`, `sync`, `edits` |
| `EmailStep` | `sendEmailStep` with its gates, `markOutreachStarted`, MailerSend | `mail`, `comms`, `attempts`, `started` |
| `Cadence` | `runCadence` with the due step, business days, claim, release and finalization | `run`, `runs`, `progress`, `owed`, `day` |
| `MailEvents` | `webhooks/mailersend`: opt-out, attention, activity | `events`, `attention` |
| `VoiceCalls` | `voice/call`, `voice/webhook`, `voice/tools` | `calls`, `tool`, `tools` |
| `Outreach` | all five on one client | all of the above |
| `Subscriptions` | `ensureStripeCustomer`, `stripe/checkout`, the subscription, payment and refund handlers of `stripe-webhook`, Stripe's subscriptions and events | `customer`, `status`, `plan`, `payments`, `audit`, `mails`, `request`, `handler`, ... |
| `ClientScore` | `resolvePaidTimings`, `computeClientScore`, `ensureCurrentScore`, `scoreClient` | `invoices`, `payments`, `balanceEvents`, `scores`, `request`, `day`, ... |
| `MC...` | constants for TLC | -- |
| `...Proofs` | theorems; `SettlementProofs` is about the sweep, the charge, the refund and their lifecycle | -- |
| `FoldLemmas` | lemmas about folds, sums, least and greatest numbers and positions in sequences, for `FeeCaptureProofs` and `ClientScoreProofs` | -- |

`PROJECT.json` maps every definition to its lines.  Choices that a reader of the
code should know:

**Charge.** A drain reads all its candidates, then charges one after the other
from that early snapshot.  Candidates do not interact, so a run is modelled per
candidate and a drain over *n* candidates is *n* runs that selected together.
`RowCap` is how many of *this* candidate's lines the one unpaginated read of the
batch returns.  A lost answer of the create or item call is the same as a throw
before the next call.  The kill-switch is read once, at the start, as the code does.
`SlowRuns` lets a run work on while its claim goes stale (no `maxDuration` is
set); it is on where safety should hold anyway.  `PaidOutOfBand` is a customer who
pays the open invoice by hand.  Nothing writes 'invoiced' or 'void', so the
branches that wait for them are unreachable and left out, as is the drain's write of
a 'skipped' outcome.  The webhook answers 200 before it works, so an event that fails is not
delivered again on that account; events are delivered in any order, repeatedly or
never.

**Sweep.** A plan holds how often each ledger row was read, because a page that
shifts returns a row twice, and the code counts it twice.  The ledger's order is
that of random uuids (`Rank`).  The subscribers' read fits one page.  A payment's
`capturedAt` is its QuickBooks date, so a fee may be captured for any past cycle.
The order in which plans are persisted is left open.

**Refund.** Refunds are of the full amount (the code passes none).  Stripe replays
the first stored answer under a key and refuses a second refund while one has not
failed.  The gates' two reads are one action.  The stale-claim branch of
`claimForRefund` can only be met by a call that loaded 'paid' before another claimed.

**Capture.** One subscriber with one realm.  The batch is a read of the oldest
claimable rows, and mark-backs match the id alone, as in the code, so two workers
may hold one row.  A row's payments are done one after the other and all again on
a retry.  Only the first linked invoice of a payment is used.  `PassGates` merges
the reads of `processCaptureEvent`, which follow each other without a call to
another system.  `contacts` are mails and calls that the provider has accepted and
whose `markOutreachStarted` is still to come, in any order.  `contactedFirst` and
`opening` are history: they record what the properties speak of and nothing reads
them.  QuickBooks' and the application's clocks are taken to be one.  A day has two instants, enough to tell
"before", "the same day" and "the day before" apart.

**Lifecycle.** The money of a settlement is read off Stripe: collected once an invoice is
paid, recalled once a refund row is on file, returned once a refund has succeeded.  Two paid
invoices or two succeeded refunds are mapped to a value that `FeeCollection` does not
have, so moving money twice breaks the refinement instead of being hidden by it.

**Recovery.** Amounts are the face value: `getRemainingBalance` subtracts `invoice_payments`,
which nothing in the program writes.  The completion handler runs after its 200, so what it
fails to do is not delivered again on that account.  A session once minted stays payable
whatever becomes of its link.  `AccountMoves` lets Stripe take an approval back, and
`Gates` is what the pay page asks the visitor (`OnFile` is what there is to compare with).
`LedgerSync` is instantiated once, for the sessions of one subscriber.

**Connection.** Tokens are numbered per consent, so "whose" and "the latest" can be said;
encryption keeps a token's identity and is left out.  The state cookie is the browser's, the
session is the signed-in subscriber's: they may be of different subscribers.

**Outreach.** Only the email channel sends, so the other ranks of a contact stay out.  The
template, its texts and its variables are left out; the gate that stops a mail without
a payment link, recipient or template is a gate that may fail.  `Fenced` are calls of the clients that
`VOICE_HANDOFF_EMAIL_CLIENT_ID` leaves out.  A claim is a row that (invoice, step) makes unique.  Calls and cadence share
`EmailStep`, whose `Sender`s are cadence runs and tool requests.  Business days are numbered
from a Monday, without holidays, as in the code.

**Subscriptions.** One subscriber; the handler answers 200 first.  `Faults` says which calls
may fail: lookups, writes, the audit rows, the unchecked reread of
`ensureStripeCustomer`, and deaths.  `Apart` keeps two deliveries of one event from
overlapping.  The entitlement flags follow the Free plan and are left out.

**Score.** The bands, weights and floors are those of the code in hundredths of a point
with exact arithmetic.  A request reads invoices, payments and events in separate calls
and upserts the month's row; `opening` and `changes` are history.

## 4. Runs and bounds

Every run checks all of its properties on all reachable states of its instance.
`CHECK_DEADLOCK FALSE` stands in runs whose system really stops, with everything settled and
every bound used up.

| Run | Instance | Shows |
|---|---|---|
| `charge` | one settlement with sound, incomplete or wrong books, two overlapping drains, one crash, one decline, lost answers, keys that expire between runs, the switch and the subscriber moving, no webhooks | the invoice bills each line once (`InvoiceIsTheBill`), the claim is exclusive (`SingleFlight`), only corrupt books fail the gate, 'paid' stays, every settlement ends paid or in the dead letters |
| `sweep` | two sweeps, three fees of which one is prepaid and one late, a minimum, a crash, switch and subscriber moving, two cycles | no fee in two settlements, only what is owed, frozen books, every large enough fee billed |
| `refund` | two calls and one webhook, asynchronous refunds that may fail, lost answers, expiring keys, a crash, the subscriber going inactive | a succeeded row is money returned (`SucceededRowIsReturned`), a refund in flight ends |
| `lifecycle` | one drain, one refund call, both webhooks on one row, two invoices, two refunds, every answer losable | charged once, 'paid' and 'refunded' have their money, and the whole implements `FeeCollection` |
| `capture` | a worker and a sync, one undated payment, its date up to a day back, deaths, lost marks, throwing rows, two attempts, moving gates | no fee without an earlier contact, falls recorded once and none lost, every event handled, every earned fee captured or given up |
| `checkout` | two sessions of one link, a request that voids it, a disconnect, redeliveries that die anywhere, failing writes, lost QuickBooks answers | a fee only for a paid link (`FeeOnlyForPaidLink`), one QuickBooks payment per payment, a collected payment recorded |
| `payout` | two Express accounts, an onboarding, a status refresh, disconnect and reconnect, two links, a gated pay page | the debtor pays an account whose charges Stripe has enabled |
| `connection` | two subscribers at one browser, two realms, two consents, one refresh in flight, failing updates, revocations | a disconnect lasts, tokens stay with who consented, the stored token is the live one, a chosen name stays |
| `outreach` | two cadence runs over two steps and a weekend's end, or one production or test call with two requests for its mail; every read and write failing, answers lost, deaths | a claimed step is mailed once, a call is mailed once and asks again only if nothing was recorded, the stamp names a real contact |
| `contacts` | two runs one after the other, two contacts, one edit or sync and one event at any moment | the address of record that unsubscribed is not mailed again |
| `subscription` | two requests, two deliveries of four events, each delivered twice in any order, failing calls, deaths | sessions name the stored customer, the ledger is Stripe's, one mail per event |
| `score` | two requests over three days and the end of a month, books changing once; sample books at the end of every band | a day's row misses nothing older than the day, payment dates do not depend on the rows' order, paying later or never does not help |

The bounds are constants of the modules, each named there: attempts (`MaxAttempts`,
`AttemptBound`), invoices, refunds and refund rows of a settlement
(`MaxInvoices`, `MaxRefunds`, `MaxRefundRows`), declines (`MaxDeclines`), crashes and
lost updates (`MaxCrashes`, `MaxSweepCrashes`, `MaxRefundCrashes`, `MaxStops`), the
calendar and the clock (`MaxTime`, `MaxBackdating`, `FirstDay`, `LastDay`), deliveries and events
(`MaxDeliveries`, `MaxEvents`, `MaxSubscriptions`), token generations (`MaxGen`), mails, runs and tool
requests (`MaxMails`, `MaxRuns`, `MaxTools`), contacts' ranks and edits (`MaxRank`, `MaxEdits`), changes of the
books (`MaxChanges`), the states subscribers take (`Subscribers`), and whether switches and
gates move (`SwitchMoves`, `SweepSwitchMoves`, `RefundSwitch`, `MovingGate`).  Two runs add a
CONSTRAINT of their MC module: `RunsOrOneCall` (a behaviour is about cadence runs or about one
call) and `FewBooksMove` (all sample books are scored at the start, a few go on from there).

Why they are enough.  Settlements do not interact except through a sweep, so charge
and refund use one and vary its books; what can go wrong needs two actors on one
row, one failure between two of their steps and one retry after it, and all of that is
there.  Two lines tell "once" from "twice" and "all" from "some".  The sweep needs a fee below
the minimum and a second cycle for a fee that rolls over.  Capture needs two attempts
(retry, then dead); two payments of one invoice in overlapping notifications are in
`capture_two.cfg`.  A link needs two sessions, a rotating token two generations, a rank two
holders, a step two runs.  Two overlapping refreshes are beyond the
`connection` run and are what its proof covers.  The proofs of section 6 have none of these bounds.

Assumptions that a run switches on, because the property fails without them:

- `InvoiceIsTheBill` and `ChargedOnce` need Stripe to remember its idempotency keys while a
  run works (`SlowRuns = FALSE` or `KeysExpire = FALSE`).
- `SingleFlight` and `PaidIsFinal` need no late webhooks (`Hook = {}`) and no run that
  outlives `STALE_CLAIM_MS` (`SlowRuns = FALSE`).
- `OnlyCorruptBooksFailReconciling` needs a settlement's lines to fit the one unpaginated read
  (`Cardinality(b.lines) <= RowCap`).
- `SucceededRowIsReturned` needs keys that live as long as a call (`SlowCallers = FALSE` or
  `RefundKeysExpire = FALSE`).
- The properties of `capture` need that a worker or sync starts only when
  none is at work (`OneAtATime`), which the cron's minute makes likely and nothing
  enforces, and that reads whose errors are only logged succeed (`BestEffortFails =
  FALSE`): a fall whose event was recorded and whose update and next anchor read
  both fail is recorded twice, and a sync's failed insert loses a fall.
- `PostedAtMostOnce` needs one delivery of a checkout at a time (one `Delivery`).
- `SessionsPayReviewedAccount` needs Stripe not to take an approval back (`AccountMoves = FALSE`)
  and one onboarding at a time: a status check updates the row by subscriber alone, so with two
  the approval of the first account may be written over the second.
- `StoredTokenIsLive` needs Intuit to refuse a refresh token as soon as it has rotated it.
- `OneMailPerEvent` needs deliveries of one event apart (`Apart`) and audit rows that are
  written; `SessionsUseStoredCustomer` needs the unchecked reread to work.
- The send step's callers are told apart: a cadence run is not a tool request (`VoiceAssumption`),
  and answers are lost or not (`EmailStepAssumption`).
- The properties of `score` stand on what the tables hold (`BooksAssumption`): no invoice is
  for less than nothing, as QuickBooks has no negative invoice total, and the events of one
  invoice were found at different instants: the database stamps each as it is inserted.  With two
  events of one instant, `resolvePaidTimings` keeps the one read first, and the order would matter.
- `UnsubscribedPocIsLeftAlone` is about mails whose recipient is chosen after the opt-out was
  written; a mail already picked still goes out.

Further configurations, not part of the runs above: `capture_two.cfg` (two payments of one invoice in
two overlapping notifications) and `sweep_alone.cfg` (one sweep over three months, with
`SettlementsReconcile`) pass; `capture_overlap.cfg`, `double_fee.cfg`,
`downgrade.cfg` and `unsubscribed.cfg` end at a counterexample that section 7 explains.  The type invariants `ChargeTypeOK`, `SweepTypeOK`,
`RefundTypeOK`, `CaptureTypeOK`, `CheckoutTypeOK`, `ConnTypeOK`, `OutreachTypeOK` and those of
the others hold on the same configurations and are not listed in each.

## 5. Fairness

- Charge: the daily cron keeps selecting candidates (strong fairness of
  `SelectCandidate`, since switches and subscribers may make it impossible for a
  while), a started run takes its next step, a claim grows old.  No webhook has to
  arrive.  `EverySettlementSettles` speaks of settlements that stay chargeable for good.
- Sweep: the cron keeps starting sweeps, a sweep goes on, the days pass.  `EveryFeeIsBilled`
  speaks of fees captured in time for a last sweep, with switch and subscriber left on.
- Refund: an operator repeats the call (strong fairness of `LoadSettlement`), calls and
  webhooks run on, Stripe completes a pending refund and delivers each event at
  least once, which is what Stripe documents.  `EveryRefundSettles` excepts a call that died
  or an event that overtook its row (section 7).
- Capture: the cron starts a worker every minute (strong fairness of `ClaimBatch`: it
  may be kept waiting by a sync), started workers and syncs run on, Intuit delivers
  each notification at least once (weak fairness of the first delivery; a 500
  answer makes it deliver again).  `EarnedFeeIsCaptured` excepts events given up after their
  attempts and gates that stay shut; `NoDropIsLost` excepts deaths and lost marks.
- Checkout: Stripe delivers each completion at least once (strong fairness, since the one
  delivery may be busy), a delivery runs on.  `PaidIsRecorded` excepts a delivery
  that ended before the flip.

Crashes, lost answers, throws, declines, ticks, contacts and payments are never forced.  A
worker may throw for ever on one row, which is what makes it dead.  The other runs check
safety and action properties only: nothing in that code is scheduled to try again, so nothing
must eventually happen.

## 6. Proofs

TLAPS checks every theorem for any number of settlements, lines, runs, payments,
invoices and so on, from the modules' named assumptions about the constants
(`FeeSettlements`' and the `...Assumption`s, which TLC evaluates in the runs).

| Theorem | States | Argument |
|---|---|---|
| `SettlementProofs!TypeCorrect` | `[]ChargeTypeOK` | inductive as it stands, one step per action |
| `!MoneyInvariant` | `[]MoneyInv` | see below |
| `!PaidIsCollectedHolds`, `!StoredInvoiceHolds` | `[]PaidIsCollected`, `[]StoredInvoiceIsFinalized` | conjuncts of `MoneyInv`; whether keys expire does not matter |
| `!ChargedOnceHolds` | `~KeysExpire => []ChargedOnce` | with live keys every create of a settlement answers the same invoice, and Stripe collects an invoice once |
| `!SingleFlightHolds`, `!PaidIsFinalHolds` | `SlowRuns = FALSE`, `Hook = {}`: `[]SingleFlight`, `PaidIsFinal` | who holds a claim stands on a row that is 'charging' and fresh (`FlightInv`) |
| `!OnlyCorruptBooksFail` | rows that fit the read: `[]OnlyCorruptBooksFailReconciling` | a run reconciles lines of books that nothing rewrites (`ReadInv`) |
| `!InvoiceIsTheBillHolds` | `~KeysExpire` or `SlowRuns = FALSE`: `[]InvoiceIsTheBill` | see below (`BillInv`) |
| `!SweepInvariant` | `[]SweepInv` | a sweep has read only rows that are owed, and rows of the ledger do not change |
| `!EachFeeInOneSettlementHolds`, `!BillsOnlyWhatIsOwedHolds` | the invariants of that name | conjuncts of `SweepInv`; the unique index on the ledger row decides between two sweeps |
| `!BooksAreFrozenHolds` | `SweepSpec => BooksAreFrozen` | only the persist writes books, and only of an absent settlement |
| `!RefundTypeCorrect` | types, and that a webhook carries an event of Stripe's | inductive |
| `!RefundedIsReturnedHolds` | `[]RefundedIsReturned` | a call or event that says 'succeeded' is true, and stays true |
| `!SucceededRowHolds` | `~RefundKeysExpire` or `SlowCallers = FALSE`: `[]SucceededRowIsReturned` | see below (`RowsInv`) |
| `!LifecycleImplementsFeeCollection` | `~KeysExpire`: `LifecycleSpec => ImplementsFeeCollection` | see below |
| `!LifecycleInvariant`, `!LifecycleTypeCorrect`, `!LifecycleMoney` | `~KeysExpire`: `[]LifeInv`, the types, `ChargedOnce`, `PaidIsCollected` and `RefundedIsReturned` of the composition | `LifeInv` and its conjuncts |
| `!LifecycleWordIsCovered` | `~KeysExpire`: the row's word is covered by the money | from `LifeInv`, in `FeeCollection`'s terms |
| `FeeCaptureProofs!FeesFollowOutreach` | `[]FeeOnlyAfterOutreach` | see below |
| `!DropsAreCounted`, `!NoDropGetsLost` | `OneAtATime`, `~BestEffortFails`: `[]DropsAreCountedOnce`, `[]NoDropIsLost` | see below (`DropsInv`) |
| `OutreachProofs!OutreachInvariant`, `!OutreachTypeCorrect` | `[](OutreachInv /\ AttemptsOK)`, `[]OutreachTypeOK` | ownership, see below |
| `!StepsAreMailedOnce`, `!CallsMailOnce`, `!AskableCallsAreUnsent` | `[]StepMailedOnce`, `[]OneMailPerCall`, `[]NullMeansUnsent` | conjuncts of `OwnInv`, counted |
| `!StampsAreContacts` | `[]StampIsContact` | a stamp names a placed call, or a sent mail that no send step will write to again |
| `!UnsubscribedPocLeftAlone` | `UnsubscribedPocIsLeftAlone` | a point of contact that left is primary and opted out, and no edit or sync changes that (`LeftInv`) |
| `SubscriptionsProofs!SessionsUseStored` | `[]SessionsUseStoredCustomer`, with a reread that works | the customer is written once, from null; a request about to open a session holds the stored one |
| `!LedgerHolds` | `[]LedgerIsStripes` | see below (`LedgerInv`) |
| `!MailedOnce` | `[]OneMailPerEvent`, under `Apart` with readable and written audit rows | a mail is sent only after its audit row, and a delivery that finds the row stops |
| `QboConnectionProofs!ConnTypeCorrect` | `[]ConnTypeOK` | inductive |
| `!TokensStayWithTheirOwner`, `!ConnectionsStandOnConsent` | `[]TokensAreOwn`, `[]ConnectedByConsent` | every token held, by a row, a refresh or a callback, is of a settled consent of the same subscriber (`OwnInv`) |
| `!ChosenNamesStay` | `ChosenNameStays` | only the settings write over a chosen name |
| `!StoredTokensAreLive` | `[]StoredTokenIsLive`, with any number of overlapping refreshes | see below |
| `RecoveryCheckoutProofs!FeesStandOnPaidLinks` | `[]FeeOnlyForPaidLink` | see below |
| `!SessionsPayReviewed` | `[]SessionsPayReviewedAccount`, under `~AccountMoves` and one onboarding at a time | requests under way know the account that the row names (`RequestsKnowTheAccount`) |
| `!OnePostingPerPayment` | `[]PostedAtMostOnce`, one delivery at a time | a payment is posted only after its link says 'paid', and a delivery of a paid link stops |
| `ClientScoreProofs!ScoreInvariant` | `[]ScoreInv`: the types, every held or stored score a percentage, and what requests and rows know | one step per action, see below |
| `!RowsMissNothing` | `[]RowMissesNothingBeforeItsDay` | the day of a row was taken before the read it was computed from |
| `!TimingsHold` | `[]TimingsIgnoreOrder` | the pass over the rows ends at a row that the rows alone determine |
| `!LaterNeverHelps` | `[]PayingLaterNeverHelps` | the score is monotone in each payment's lateness, see below |

`PaidIsCollected` is not inductive: whether the write of 'paid' is right depends on what
the writer knows.  `MoneyInv` therefore adds that runs and events tell the truth: a run at
the payment step holds a finalized invoice, a run that will write 'paid' holds a
collected one (`RunsTellTheTruth`), an emitted payment_succeeded names a collected
invoice (`EventsTellTheTruth`), and webhooks hold emitted events (`HooksCarryEvents`).
It is preserved because an invoice never goes back (`InvoicesProgress`).

An invoice is built by several calls, possibly of several runs after a crash.  `BillInv` says for
every settlement that the invoice under the live key bills, once each, exactly the lines whose item keys
replay (`Keyed`), and for every run that builds that it works on that invoice and that each line of the
books is on it or still to do (`Builds`); so when nothing is left to do the invoice is the bill.  Were a
key forgotten in between, a second invoice would take the rest of the lines.

A refund row is written by the call that made it, by an event matched to it, or by a later call that
resumes it.  `RowsInv` makes the three agree: Stripe's key replays the latest refund of the settlement,
a later refund exists only after the earlier failed, a call that has its answer has the one the key
still replays, and an event's row names the event's refund.  `LedgerInv` of the subscriptions is alike: what an
event says of a payment is true and stays so, since Stripe only ever returns more (`EventsSayTrue`,
`GrowthKeepsTrue`), a handler holds an event of its kind, and each row is that of one event.

Outreach is about ownership.  A run or tool request that runs the send step holds a claim, the row
of (invoice, step) or the call's `handoff_email_status`, and no two hold the same (`OneOwner`);
what it records carries that claim as its origin (`Files`); so what is on file under a claim is its
holder's, and there is at most one of it (`RunOwns`, `ToolOwns`, `StepOwned`, `CallOwned`).  A claim is
given up only where nothing went out: at a gate, or with its mail on file as failed.  An event that marks
a mail as seen needs its message id, and whoever stored that id is done with it, so it cannot touch a
communication somebody still writes to.

`FeeOnlyAfterOutreach` compares a marker with a payment long after both were written, so
the invariant has to say how they relate: for a payment that no contact preceded, neither the
marker of its invoice nor a contact still to be marked is earlier than the payment
(`NoneBefore`), and a payment's date is not later than the day it was recorded
(`BooksShape`).  Both comparisons of `OutreachBeforePayment` then exclude it, and a worker at
the insert has passed one of them (`WorkersOK`).  This holds although workers and syncs overlap and
die, and although the marker may be written after the payment or by a later contact: then
the fee is lost, never charged wrongly.

The falls of a balance are written by four calls that read different things, the invoice's own amount
or the last recorded fall.  `DropsInv` compares all of them with one number, `Mark`: where the last recorded fall
of an invoice ended, or its stored amount before there is one.  What is recorded plus the mark never
exceeds what was first seen, QuickBooks' balance never exceeds the mark (`AccountOK`), and whoever is at work knows
how what it read relates to it: a worker about to record a fall measures it from the mark, a sync
from the mark or from nothing (`WorkerReads`, `SyncReads`).  That holds for one at a time only;
a second one moves the mark under the first.  While nobody was stopped the mark plus what is
recorded is also no less than what was first seen, so nothing is lost.  Balances are sums over sets of payments
and recorded falls are added along a sequence, and both had to be unfolded first: that adding any
one element last makes no difference (`SumExists` in `FoldLemmas`, then `AmountsAre`, `RecoveryAppends`) is
an induction, which `NatSetInduction` makes possible without a schema: a *set* of numbers
with 0 and closed under successor is `Nat`, a consequence of `NatLessThanWellFounded`.

The refinement needs an invariant of both halves.  `LifeInv` joins `MoneyInv`, `OneInvoice` (with live
keys a settlement has one invoice at Stripe), the refund's types and truths (`RefundTypeInv`,
`TruthInv`) and three facts that neither half has alone: a refund is on file, or its call or
webhook under way, only where money was collected (`RefundsHaveMoney`); Stripe has a refund only if a row
of it is on file (`RefundsAreOnFile`); a later refund of a settlement exists only after the earlier
ones failed (`RefundsInOrder`), so at most one succeeds.  With it, each of the
composition's actions moves at most one settlement, and either its row's word (`Say`,
allowed by `MaySay`) or its money by one step (`Collect`, `Recall`, `Return`), or is a
stutter.  That a paid invoice is never paid again and that no status runs ahead of the
money follow from the same facts (`NoMoneyMovesTwice`, `LifecycleWordIsCovered`).

A checkout's fee is written long after the payment, while the link may be voided,
superseded or expired.  `FeeInv` relates the three tables: the session on a link's row is a session
for that link (`RowsHoldOwnSession`, also of views about to save one), so the delivery
resolves to the link that was paid for; from the flip on that link is 'paid'
(`DeliveriesArePaid`); and no step takes back a paid link, a collected payment or a
session's link and account (`NothingTakenBack`).  `OnePostingPerPayment` shows that the
flipped link is what prevents a second posting, not `ledger_sync`: its hypothesis, one delivery
at a time, is the one that section 7 drops.

`StoredTokenIsLive` is about rows at rest, a rotation about what a refresh carries.  The invariant
(`LatestInv`) says that no row and no refresh is ahead of Intuit, that a refresh about to store
brings Intuit's latest generation of its consent, and that two refreshes about to store concern
different consents: of two that overlap, Intuit answers only the first.

A score is computed from two reads and stored under a day taken before both, while the books and the
days move on.  `ScoreInv` says what is known in between: a request that has read the invoices, or holds a score
computed from them, has seen every change from before its day began (`Knows`),
and so has each stored row (`RowKnows`).  A change or a new day cannot spoil that, since the changes before a
day are counted once and for all when it begins (`KnowledgeLasts`).  Were a row dated when it is
written, a slow request would claim a day it knows nothing of.

That the order of the rows does not matter is about folds over sequences of any length.
`SequenceFoldExists` gives the fold one value per prefix; by induction over the prefixes the pass for a
payment's day holds the greatest day seen (`LastPaymentIs`) and the pass for an event the earliest one
(`FirstZeroIs`).  Either is unique (`LastIsUnique`, `FirstIsUnique`, the latter because the events were
found apart) and the reversed rows hold the same ones, so both passes end alike.

`PayingLaterNeverHelps` goes from the bands up.  `latenessScore` falls from band to band (`LatenessFalls`, which
the mutant with two bands swapped breaks); a weighted sum in which one term falls and none grows
does not grow (`SumBounded`); an invoice written off keeps its weight and loses its term
(`SumOfPart`); the quotient, its rounding and the composite keep the order (`RoundedGrows`,
`CompositeGrows`); and the other two components do not depend on when a paid invoice was paid
(`ScoreFollowsHistory`).  The lemmas `LaterPayment` and `WrittenOffInstead` say it for any
books and any number of days; the property looks at the books of the first day and thirty days on.
`ScoreRange` shows on the way that no books give a score outside 0 to 100.

Only model-checked: the liveness properties (`EverySettlementSettles`, `EveryFeeIsBilled`, `EveryRefundSettles`,
`EveryEventIsHandled`, `EarnedFeeIsCaptured`, `PaidIsRecorded`), which need fairness and ENABLED;
and the types `SweepTypeOK` and `CaptureTypeOK`, beside which `SweepShape` and `BooksShape`
carry what the proofs need.  Every other invariant and action property of the runs is a theorem, some
under the assumptions that section 4 names and that section 7 shows to be needed.

## 7. Where code and documentation disagree

Each row states what a comment of the code says and an execution of the code, found by TLC on
the named property, that does otherwise.  Where a configuration is named it
reproduces the counterexample; the others appear when the assumption named in section 4, or here, is
dropped from the component's configuration.

| Property | Comment | Execution |
|---|---|---|
| `PaidIsFinal` | `chargeSettlement.ts:571-573`, whichever of drain and webhook is first wins | the drain's last update has no guard: 'failed' over the webhook's 'paid' |
| `SingleFlight` | `chargeSettlement.ts:51-53`, finalize and pay run at most once | a late payment_failed frees a row that is being charged |
| `AttemptsOnlyGrow` | `chargeSettlement.ts:18-20`, retryable until `max_attempts` | attempts come from the early snapshot and may shrink |
| `ClaimsOnlyTheActive` | `chargeSettlement.ts:13-14`, re-asserted at charge time | the subscribers are read once for the whole batch |
| `OnlyCorruptBooksFailReconciling`, small `RowCap` | `reconcileSettlement.ts:8-9`, a mismatch means corruption | the batch's lines are one unpaginated read |
| `NoFinalizedInvoiceIsLost` | `chargeSettlement.ts:269-270`, a retry re-finalizes | Stripe refuses to finalize twice; the settlement dead-letters with an open invoice |
| `ChargedOnce`, `KeysExpire` and `SlowRuns` | `lib/stripe.ts:302-303`, a retry never double-charges | the daily retry comes after the key's 24 hours |
| `SettlementsReconcile`, small `Page` | `selectEligibleLedgerRows.ts:25-26`, windows do not overlap | a row inserted between two pages shifts them; a fee is counted twice and linked once |
| `SettlementsReconcile`, two sweeps | `create_persist_fee_settlement_rpc.sql:8-9`, never without its lines | the second of two overlapping sweeps keeps its totals and loses its lines |
| `SettledCyclesAreClosed` | `cycleBoundary.ts:3`, never bill early | on the 15th the cycle still accrues |
| `PaidIsKept` | `refundSettlement.ts:27`, failed goes back to 'paid' | a lost answer is taken for a failure |
| `CrashedRefundCanResume` | `refundSettlement.ts:119-123`, a stale claim is taken over | a call that loads 'refund_pending' never reaches the claim |
| `EveryRefundSettles` without its exceptions | `refundSettlement.ts:25-26`, the webhook settles | an event that comes before the refund's id is stored is dropped |
| `RefundedIsFinal` in `lifecycle` | `route.ts:735-737`, a late event is a no-op | a late payment_failed moves a refunded settlement to 'failed'; the refund call's own update has no guard either |
| `NeverOverReserved` | `refundSettlement.ts:36-39`, no duplicate row | the reserved sum is read before the claim and not again; a refund replayed by its key leaves a second pending row |
| `DropsAreCountedOnce` (`capture_overlap.cfg`) | `qbo/worker/route.ts:23-25`, a second pass makes no second row | true of the fee; two overlapping workers each record the fall of the balance |
| `OneFeePerRecovery` (`double_fee.cfg`) | `settlement/config.ts:34-40`, a recovered payment must never reach the sweep | its reflection to QuickBooks is reported back and captured under source 'qbo' |
| `PostedAtMostOnce`, two deliveries | `handleCheckoutCompleted.ts:226-232`, idempotent via `ledger_sync` | two overlapping deliveries both read the row before either posts |
| `UnsubscribedIsLeftAlone` (`unsubscribed.cfg`) | `webhooks/mailersend/route.ts:80-89`, the primary contact is exactly the one mailed | the mail goes to the first by rank and the opt-out to the primary, and either may have changed since |
| `StepMailedOnce`, counting mails on file as failed | `sendEmailStep.ts:42-44`, a step can never silently double-send | an answer lost by MailerSend is a failure: the claim is released and the step mailed again |
| `StepInItsTurn` | `runCadence.ts:123`, never past a step that has not fired | two overlapping runs with a failed first step send the second step before it |
| `PayingIsKept` (`downgrade.cfg`) | `stripe-webhook/route.ts:205-208`, the downgrade ends in one canonical state | the cancellation of an old subscription downgrades a subscriber who pays for a new one |
| `OneMailPerEvent` without `Apart` | `stripe-webhook/route.ts:205-208`, no second mail | two deliveries of one event both read the trail before either writes to it |
| `MonthKeepsLast` | `ensureCurrentScore.ts:14-15`, each month keeps its last score | of two requests over midnight the older one may write last |

Met while modelling, without a property of their own: `handleCheckoutCompleted.ts:123-125` expects Stripe to
redeliver after a failed flip, and `stripe-webhook/route.ts:405-407,432-433` to retry a failed payment row,
but the 200 is already out; the first stamp of an invoice wins, which a later contact may write
(`markOutreachStarted.ts:16-19` says the earliest); two requests for a payment link leave two
active ones (`payment-link/route.ts:14`), and a session is minted for the face value although the invoice
may be paid (`payment-link/route.ts:10-11`); a second session of a paid link is collected and never
captured; `ledger_sync` 'done' may be overwritten by 'failed' (`qboAdapter.ts:193-201`); two onboardings at once make two Express accounts, and a status check may then put the approval of
the first on the second; a status refresh may overwrite 'disconnected'; a refresh in flight over a
reconnect flags the new connection; a cadence run that dies between claim and send leaves a step
that no run takes up; an invoice paid after the candidates were read is still mailed; a rank taken
by hand makes the sync's insert of a point of contact fail and the whole sync with it
(`planPocReconcile.ts:63`, `runQboSync.ts:157`); a client's attention may fall to a lesser reason
when two events overlap; an event that comes before the message id is stored is answered and
dropped; a late 'ringing' overwrites 'ended'; any subscription update makes the subscriber 'active',
whatever the subscription's status (`stripe-webhook/route.ts:866-869`); a refund that comes before
its payment's row is dropped.

## 8. What is left out

- The void of a settlement and `handleSettlementInvoiceVoided`: they start from
  'invoiced', which no code writes.
- Bands, rates and amounts of fees; the sweep takes any amount.  Rounding is in the cents.
- In capture: the invoice's status, dates and `in_recovery`, written together with the
  paid amount; `outreach_had_fired`; credit memos and deleted payments, so balances of
  QuickBooks only fall.
- In the sync: names, terms and the mapping of fields.
- Templates, subjects and texts; channels that do not send; the reply routes, each of which
  writes one row of its own; the calls' read-only tool.
- Encryption of stored tokens; entitlement flags; the score's headline, factors and trend.
- CSV import (one request that parses and inserts), read models, pages, authentication,
  adapters and delivery tooling: request-response code, rendering or I/O, with no steps
  that interleave with what is modelled.
