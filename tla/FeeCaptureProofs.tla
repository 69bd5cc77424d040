-------------------------- MODULE FeeCaptureProofs --------------------------
(***************************************************************************)
(* A fee is charged only on a payment made after a first contact, for any  *)
(* number of payments, invoices, workers and syncs, whatever fails, dies   *)
(* or overlaps.  The argument: a payment that no contact precedes is never *)
(* later than the marker of its invoice, nor than a contact whose marker   *)
(* is still to be written (NoneBefore), and the two comparisons of         *)
(* OutreachBeforePayment both exclude such a payment.                      *)
(*                                                                         *)
(* And, while one worker or sync runs at a time, the falls of a balance    *)
(* are recorded once each: whoever records the next one measures it from   *)
(* where the last one ended (Mark).  Balances are sums of payments and the *)
(* recorded falls add up along a sequence, so both are first unfolded by   *)
(* induction, which here is about sets of numbers (FoldLemmas).            *)
(***************************************************************************)
EXTENDS FeeCapture, FoldLemmas

(* The shapes the first argument needs; it leaves out the amounts.         *)
BooksShape ==
  /\ clock \in Nat
  /\ qbo \in [Payment -> [at : Nat, txnDate : Nat]]
  /\ \A p \in Payment : qbo[p].at <= clock /\ qbo[p].txnDate <= Day(qbo[p].at)

InvoiceShape ==
  /\ DOMAIN invoice = Invoice
  /\ \A i \in Invoice : "outreach" \in DOMAIN invoice[i] /\ invoice[i].outreach \in Nat

QueueShape == queue \in Seq(EventRow)

(* A worker x is idle or at a payment of a row of the queue q, and about   *)
(* to insert a ledger row only for a payment of cf.                        *)
WorkerOK(x, q, cf) ==
  x # IdleWorker =>
    /\ DOMAIN x = {"pc", "batch", "row", "entity", "balance", "anchor"}
    /\ DOMAIN x.batch \subseteq 1..Len(q)
    /\ \A k \in DOMAIN x.batch : x.batch[k] \in Nat
    /\ x.row \in DOMAIN x.batch
    /\ x.entity \in Nat \ {0}
    /\ x.pc \notin {"done", "failed"} => x.entity <= Len(q[x.row].payments)
    /\ x.pc = "insert" => q[x.row].payments[x.entity] \in cf

WorkersOK ==
  /\ DOMAIN worker = Worker
  /\ \A w \in Worker : WorkerOK(worker[w], queue, contactedFirst)

(* No contact with the customer precedes a payment outside contactedFirst. *)
NoneBefore ==
  \A p \in Payment \ contactedFirst :
    Recorded(p) =>
      /\ invoice[InvoiceOf[p]].outreach # Never =>
           qbo[p].at <= invoice[InvoiceOf[p]].outreach
      /\ \A c \in contacts : c[1] = InvoiceOf[p] => qbo[p].at <= c[2]

OutreachInv ==
  /\ BooksShape /\ InvoiceShape /\ QueueShape
  /\ contacts \subseteq Invoice \X Nat
  /\ WorkersOK
  /\ NoneBefore
  /\ FeeOnlyAfterOutreach

(* Days follow instants.                                                   *)
LEMMA DayMonotone ==
  ASSUME NEW a \in Nat, NEW b \in Nat
  PROVE  Day(a) \in Nat /\ (a <= b => Day(a) <= Day(b))
  BY DEF Day

(* A payment that passes the fee gate was made after a first contact: by   *)
(* instant or by date, the marker cannot lie before any other.             *)
LEMMA GateIsSound ==
  ASSUME OutreachInv, NEW p \in Payment, EarnsFee(p)
  PROVE  p \in contactedFirst
<1> DEFINE marker == invoice[InvoiceOf[p]].outreach
<1>1. InvoiceOf[p] \in Invoice
  BY QuickBooksAssumption
<1>2. marker \in Nat /\ qbo[p].at \in Nat /\ qbo[p].txnDate \in Nat
  BY <1>1 DEF OutreachInv, InvoiceShape, BooksShape
<1>3. OutreachBeforePayment(marker, p)
  BY DEF EarnsFee
<1>4. qbo[p].txnDate <= Day(qbo[p].at)
  BY DEF OutreachInv, BooksShape
<1>5. marker # Never /\ (marker < qbo[p].at \/ Day(marker) < Day(qbo[p].at))
  <2>1. CASE CreateTime(p) # Never
    BY <2>1, <1>3 DEF OutreachBeforePayment, PaymentTimes, CreateTime
  <2>2. CASE CreateTime(p) = Never
    <3>1. marker # Never /\ Day(marker) < qbo[p].txnDate
      BY <2>2, <1>3 DEF OutreachBeforePayment, PaymentTimes
    <3>2. Day(marker) \in Nat /\ Day(qbo[p].at) \in Nat
      BY <1>2, DayMonotone
    <3> QED BY <3>1, <3>2, <1>2, <1>4
  <2> QED BY <2>1, <2>2
<1>6. marker < qbo[p].at
  <2>1. Day(marker) \in Nat /\ Day(qbo[p].at) \in Nat
    BY <1>2, DayMonotone
  <2>2. qbo[p].at <= marker => Day(qbo[p].at) <= Day(marker)
    BY <1>2, DayMonotone
  <2> QED BY <1>2, <1>5, <2>1, <2>2
<1>7. Recorded(p)
  BY <1>2, <1>6 DEF Recorded, Never
<1> QED
  BY <1>2, <1>5, <1>6, <1>7 DEF OutreachInv, NoneBefore

-----------------------------------------------------------------------------
(* Workers.                                                                *)

(* Rows are only ever added and their payments never change, payments are  *)
(* only ever added to contactedFirst; an idle or busy worker stays well.   *)
QueueKept(q, r) ==
  /\ Len(q) <= Len(r)
  /\ \A k \in 1..Len(q) : r[k].payments = q[k].payments

LEMMA WorkerStaysOK ==
  ASSUME NEW q \in Seq(EventRow), NEW r \in Seq(EventRow), QueueKept(q, r),
         NEW cf, NEW cg, cf \subseteq cg,
         NEW x, WorkerOK(x, q, cf)
  PROVE  WorkerOK(x, r, cg)
<1>1. CASE x = IdleWorker
  BY <1>1 DEF WorkerOK
<1>2. CASE x # IdleWorker
  <2>1. 1..Len(q) \subseteq 1..Len(r)
    BY DEF QueueKept
  <2>2. x.row \in 1..Len(q)
    BY <1>2 DEF WorkerOK
  <2>3. r[x.row].payments = q[x.row].payments
    BY <2>2 DEF QueueKept
  <2> QED BY <1>2, <2>1, <2>3 DEF WorkerOK
<1> QED BY <1>1, <1>2

LEMMA QueueKeptRefl ==
  ASSUME NEW q \in Seq(EventRow) PROVE QueueKept(q, q)
  BY DEF QueueKept

(* One worker takes a well state, or none does.                            *)
LEMMA WorkerMoves ==
  ASSUME WorkersOK, QueueShape, QueueShape', QueueKept(queue, queue'),
         contactedFirst \subseteq contactedFirst',
         NEW w \in Worker, NEW x, WorkerOK(x, queue, contactedFirst),
         worker' = [worker EXCEPT ![w] = x]
  PROVE  WorkersOK'
<1>1. DOMAIN worker' = Worker
  BY DEF WorkersOK
<1>2. ASSUME NEW v \in Worker
      PROVE  WorkerOK(worker'[v], queue', contactedFirst')
  <2>1. WorkerOK(worker'[v], queue, contactedFirst)
    BY DEF WorkersOK
  <2> QED BY <2>1, WorkerStaysOK DEF QueueShape
<1> QED BY <1>1, <1>2 DEF WorkersOK

LEMMA WorkersStay ==
  ASSUME WorkersOK, QueueShape, QueueShape', QueueKept(queue, queue'),
         contactedFirst \subseteq contactedFirst', worker' = worker
  PROVE  WorkersOK'
<1>1. ASSUME NEW v \in Worker
      PROVE  WorkerOK(worker'[v], queue', contactedFirst')
  BY WorkerStaysOK DEF QueueShape, WorkersOK
<1> QED BY <1>1 DEF WorkersOK

(* A worker that goes on with the same row and payment.                    *)
LEMMA GoOn ==
  ASSUME QueueShape, NEW x, x # IdleWorker, WorkerOK(x, queue, contactedFirst),
         NEW y, DOMAIN y = DOMAIN x,
         y.batch = x.batch, y.row = x.row, y.entity = x.entity,
         x.pc \notin {"done", "failed"} \/ y.pc \in {"done", "failed"},
         y.pc = "insert" => queue[x.row].payments[x.entity] \in contactedFirst
  PROVE  WorkerOK(y, queue, contactedFirst)
  BY DEF WorkerOK

(* The rows of the queue have the columns of an event.                     *)
LEMMA RowShape ==
  ASSUME QueueShape, NEW k \in 1..Len(queue)
  PROVE  /\ queue[k] \in EventRow
         /\ queue[k].payments \in Seq(Payment)
         /\ queue[k].attempts \in Nat
<1>1. queue[k] \in EventRow
  BY DEF QueueShape
<1> QED BY <1>1 DEF EventRow

(* A worker at the first payment of a row.                                 *)
LEMMA AtRowOK ==
  ASSUME QueueShape, NEW batch, DOMAIN batch \subseteq 1..Len(queue),
         \A k \in DOMAIN batch : batch[k] \in Nat,
         NEW k \in DOMAIN batch
  PROVE  WorkerOK(AtRow(batch, k), queue, contactedFirst)
<1>1. queue[k].payments \in Seq(Payment)
  BY RowShape
<1>2. queue[k].payments # <<>> => 1 <= Len(queue[k].payments)
  BY <1>1
<1> DEFINE x == AtRow(batch, k)
<1>3. /\ DOMAIN x = {"pc", "batch", "row", "entity", "balance", "anchor"}
      /\ x.batch = batch /\ x.row = k /\ x.entity = 1
      /\ x.pc = IF queue[k].payments = <<>> THEN "done" ELSE "fetch"
  BY DEF AtRow
<1>4. x.pc # "insert" /\ (x.pc \notin {"done", "failed"} => queue[k].payments # <<>>)
  BY <1>3
<1> HIDE DEF x
<1>5. x.entity \in Nat \ {0} /\ x.row \in DOMAIN x.batch
  BY <1>3
<1>6. DOMAIN x.batch \subseteq 1..Len(queue) /\ \A j \in DOMAIN x.batch : x.batch[j] \in Nat
  BY <1>3
<1>7. x.pc \notin {"done", "failed"} => x.entity <= Len(queue[x.row].payments)
  BY <1>2, <1>3, <1>4
<1>8. WorkerOK(x, queue, contactedFirst)
  BY <1>3, <1>4, <1>5, <1>6, <1>7, Zenon DEF WorkerOK
<1> QED BY <1>8 DEF x

(* The worker w takes a well state.                                        *)
GoodMove(w) ==
  \E x : WorkerOK(x, queue, contactedFirst) /\ worker' = [worker EXCEPT ![w] = x]

Busy(w) == worker[w].pc \notin {"idle", "done", "failed"}

LEMMA BusyWorker ==
  ASSUME WorkersOK, NEW w \in Worker, worker[w].pc # "idle"
  PROVE  /\ worker[w] # IdleWorker
         /\ WorkerOK(worker[w], queue, contactedFirst)
         /\ DOMAIN worker[w] = {"pc", "batch", "row", "entity", "balance", "anchor"}
         /\ w \in DOMAIN worker
<1>1. worker[w] # IdleWorker
  BY DEF IdleWorker
<1> QED BY <1>1 DEF WorkersOK, WorkerOK

LEMMA IdleGood ==
  ASSUME NEW w \in Worker, worker' = [worker EXCEPT ![w] = IdleWorker]
  PROVE  GoodMove(w)
  BY DEF GoodMove, WorkerOK

(* It goes on at another step, with other fields than pc changed or not.   *)
LEMMA ContinueGood ==
  ASSUME WorkersOK, QueueShape, NEW w \in Worker, Busy(w),
         NEW pc, NEW balance, NEW anchor,
         worker' = [worker EXCEPT ![w] =
           [worker[w] EXCEPT !.pc = pc, !.balance = balance, !.anchor = anchor]],
         pc = "insert" => PaymentAtWork(w) \in contactedFirst
  PROVE  GoodMove(w)
<1> DEFINE x == worker[w]
           y == [x EXCEPT !.pc = pc, !.balance = balance, !.anchor = anchor]
<1>1. /\ x # IdleWorker /\ WorkerOK(x, queue, contactedFirst)
      /\ DOMAIN x = {"pc", "batch", "row", "entity", "balance", "anchor"}
  BY BusyWorker DEF Busy
<1>2. /\ DOMAIN y = DOMAIN x /\ y.pc = pc
      /\ y.batch = x.batch /\ y.row = x.row /\ y.entity = x.entity
  BY <1>1
<1>3. x.pc \notin {"done", "failed"}
  BY DEF Busy
<1>4. y.pc = "insert" => queue[x.row].payments[x.entity] \in contactedFirst
  BY <1>2 DEF PaymentAtWork, PaymentsAtWork, RowAtWork
<1>5. worker' = [worker EXCEPT ![w] = y]
  OBVIOUS
<1> HIDE DEF y
<1>6. WorkerOK(y, queue, contactedFirst)
  BY <1>1, <1>2, <1>3, <1>4, GoOn
<1> QED BY <1>5, <1>6 DEF GoodMove

LEMMA ContinuePc ==
  ASSUME WorkersOK, QueueShape, NEW w \in Worker, Busy(w),
         NEW pc, Continue(w, pc),
         pc = "insert" => PaymentAtWork(w) \in contactedFirst
  PROVE  GoodMove(w)
<1> DEFINE x == worker[w]
<1>1. DOMAIN x = {"pc", "batch", "row", "entity", "balance", "anchor"} /\ w \in DOMAIN worker
  BY BusyWorker DEF Busy
<1>2. [x EXCEPT !.pc = pc] =
        [x EXCEPT !.pc = pc, !.balance = x.balance, !.anchor = x.anchor]
  BY <1>1
<1>3. worker' = [worker EXCEPT ![w] =
        [worker[w] EXCEPT !.pc = pc, !.balance = x.balance, !.anchor = x.anchor]]
  BY <1>1, <1>2 DEF Continue
<1> QED BY <1>3, ContinueGood

(* It goes on to the next payment of the row, or to the mark-back.         *)
LEMMA NextPaymentGood ==
  ASSUME WorkersOK, QueueShape, NEW w \in Worker, Busy(w), NextPayment(w)
  PROVE  GoodMove(w)
<1> DEFINE x == worker[w]
           last == x.entity = Len(queue[x.row].payments)
           y == IF last THEN [x EXCEPT !.pc = "done"]
                ELSE [x EXCEPT !.pc = "fetch", !.entity = x.entity + 1]
<1>1. /\ x # IdleWorker /\ WorkerOK(x, queue, contactedFirst)
      /\ DOMAIN x = {"pc", "batch", "row", "entity", "balance", "anchor"}
      /\ w \in DOMAIN worker
  BY BusyWorker DEF Busy
<1>2. worker' = [worker EXCEPT ![w] = y]
  <2>1. last <=> LastPayment(w)
    BY DEF LastPayment, PaymentsAtWork, RowAtWork
  <2>2. CASE last
    BY <1>1, <2>1, <2>2 DEF NextPayment, Continue
  <2>3. CASE ~last
    BY <1>1, <2>1, <2>3 DEF NextPayment
  <2> QED BY <2>2, <2>3
<1>3. /\ DOMAIN x.batch \subseteq 1..Len(queue)
      /\ x.row \in DOMAIN x.batch /\ x.entity \in Nat \ {0}
      /\ x.entity <= Len(queue[x.row].payments)
      /\ \A k \in DOMAIN x.batch : x.batch[k] \in Nat
  BY <1>1 DEF WorkerOK, Busy
<1>4. Len(queue[x.row].payments) \in Nat
  <2>1. queue[x.row] \in EventRow
    BY <1>3 DEF QueueShape
  <2> QED BY <2>1 DEF EventRow
<1>5. /\ DOMAIN y = DOMAIN x /\ y.batch = x.batch /\ y.row = x.row
      /\ y.pc = IF last THEN "done" ELSE "fetch"
      /\ y.entity = IF last THEN x.entity ELSE x.entity + 1
  BY <1>1
<1> HIDE DEF y
<1>6. y.entity \in Nat \ {0}
  BY <1>3, <1>5
<1>7. y.pc \notin {"done", "failed"} => y.entity <= Len(queue[y.row].payments)
  BY <1>3, <1>4, <1>5
<1>8. y.pc # "insert"
  BY <1>5
<1>9. WorkerOK(y, queue, contactedFirst)
  BY <1>1, <1>3, <1>5, <1>6, <1>7, <1>8 DEF WorkerOK
<1> QED BY <1>2, <1>9 DEF GoodMove

(* It goes on to the next row of its batch, or stops.                      *)
LEMMA NextRowGood ==
  ASSUME WorkersOK, QueueShape, NEW w \in Worker, worker[w].pc # "idle", NextRow(w)
  PROVE  GoodMove(w)
<1> DEFINE x == worker[w]
           rest == {k \in DOMAIN x.batch : k > x.row}
<1>1. WorkerOK(x, queue, contactedFirst) /\ x # IdleWorker /\ w \in DOMAIN worker
  BY BusyWorker
<1>2. CASE worker' = [worker EXCEPT ![w] = IdleWorker]
  BY <1>2, IdleGood
<1>3. CASE worker' # [worker EXCEPT ![w] = IdleWorker]
  <2>1. PICK k \in rest :
          worker' = [worker EXCEPT ![w] = AtRow([j \in rest |-> x.batch[j]], k)]
    BY <1>1, <1>3 DEF NextRow, RowAtWork
  <2> DEFINE batch == [j \in rest |-> x.batch[j]]
  <2>2. /\ DOMAIN batch \subseteq 1..Len(queue)
        /\ \A j \in DOMAIN batch : batch[j] \in Nat
        /\ k \in DOMAIN batch
    BY <1>1 DEF WorkerOK
  <2> HIDE DEF batch
  <2>3. WorkerOK(AtRow(batch, k), queue, contactedFirst)
    BY <2>2, AtRowOK
  <2> QED BY <2>1, <2>3 DEF GoodMove, batch
<1> QED BY <1>2, <1>3

-----------------------------------------------------------------------------
(* The invariant, step by step.                                            *)

LEMMA OutreachInit == CaptureInit => OutreachInv
<1> SUFFICES ASSUME CaptureInit PROVE OutreachInv
  OBVIOUS
<1> USE DEF CaptureInit
<1>1. BooksShape
  BY DEF BooksInit, BooksShape, NotRecorded, Never, FirstInstant, Day
<1>2. InvoiceShape
  BY DEF InvoiceShape, Never
<1>3. QueueShape
  BY DEF QueueShape
<1>4. WorkersOK
  BY DEF WorkersOK, WorkerOK
<1>5. NoneBefore
  BY DEF NoneBefore, BooksInit, NotRecorded, Recorded
<1>6. FeeOnlyAfterOutreach /\ contacts \subseteq Invoice \X Nat
  BY DEF FeeOnlyAfterOutreach
<1> QED BY <1>1, <1>2, <1>3, <1>4, <1>5, <1>6 DEF OutreachInv

(* A step that leaves the books, the contacts and the markers alone.       *)
LEMMA QuietStep ==
  ASSUME OutreachInv, UNCHANGED <<bookVars, contacts>>,
         InvoiceShape', \A i \in Invoice : invoice'[i].outreach = invoice[i].outreach,
         QueueShape', WorkersOK', ledger' \subseteq contactedFirst
  PROVE  OutreachInv'
<1> USE DEF OutreachInv, bookVars
<1>1. BooksShape'
  BY DEF BooksShape
<1>2. NoneBefore'
  BY QuickBooksAssumption DEF NoneBefore, Recorded
<1>3. FeeOnlyAfterOutreach'
  BY DEF FeeOnlyAfterOutreach
<1> QED BY <1>1, <1>2, <1>3

(* A step of one worker that leaves them and the queue alone.              *)
LEMMA WorkerOnlyStep ==
  ASSUME OutreachInv, UNCHANGED <<bookVars, contacts, queue>>,
         NEW w \in Worker, GoodMove(w),
         InvoiceShape', \A i \in Invoice : invoice'[i].outreach = invoice[i].outreach,
         ledger' \subseteq contactedFirst
  PROVE  OutreachInv'
<1>1. QueueShape /\ QueueShape' /\ QueueKept(queue, queue')
  BY QueueKeptRefl DEF OutreachInv, QueueShape
<1>2. PICK x : WorkerOK(x, queue, contactedFirst) /\ worker' = [worker EXCEPT ![w] = x]
  BY DEF GoodMove
<1>3. WorkersOK'
  BY <1>1, <1>2, WorkerMoves DEF OutreachInv, bookVars
<1> QED BY <1>1, <1>3, QuietStep

(* The mark-back of a row.                                                 *)
LEMMA MarkStep ==
  ASSUME OutreachInv, NEW w \in Worker, worker[w].pc \in {"done", "failed"},
         NEW status \in {"pending", "done", "failed", "dead"}, NEW attempts \in Nat,
         queue' = [queue EXCEPT ![RowAtWork(w)] =
                     [queue[RowAtWork(w)] EXCEPT !.status = status, !.attempts = attempts]],
         NextRow(w), UNCHANGED <<bookVars, contacts, ledger, invoice>>
  PROVE  OutreachInv'
<1> DEFINE r == RowAtWork(w)
<1>1. r \in 1..Len(queue) /\ queue[r] \in EventRow
  BY BusyWorker DEF OutreachInv, WorkerOK, RowAtWork, QueueShape
<1>2. QueueShape'
  <2>1. [queue[r] EXCEPT !.status = status, !.attempts = attempts] \in EventRow
    BY <1>1 DEF EventRow
  <2> QED BY <1>1, <2>1 DEF OutreachInv, QueueShape
<1>3. QueueKept(queue, queue')
  BY <1>1 DEF OutreachInv, QueueShape, QueueKept, EventRow
<1>4. GoodMove(w)
  BY NextRowGood DEF OutreachInv
<1>5. PICK x : WorkerOK(x, queue, contactedFirst) /\ worker' = [worker EXCEPT ![w] = x]
  BY <1>4 DEF GoodMove
<1>6. WorkersOK'
  BY <1>2, <1>3, <1>5, WorkerMoves DEF OutreachInv, bookVars
<1>7. InvoiceShape' /\ ledger' \subseteq contactedFirst
  BY DEF OutreachInv, InvoiceShape, FeeOnlyAfterOutreach
<1> QED BY <1>2, <1>6, <1>7, QuietStep

(* A step of one worker that changes nothing else that matters here.       *)
LEMMA SilentStep ==
  ASSUME OutreachInv, UNCHANGED <<bookVars, contacts, queue, invoice, ledger>>,
         NEW w \in Worker, GoodMove(w)
  PROVE  OutreachInv'
<1>1. InvoiceShape' /\ ledger' \subseteq contactedFirst
  BY DEF OutreachInv, InvoiceShape, FeeOnlyAfterOutreach
<1> QED BY <1>1, WorkerOnlyStep

LEMMA ClaimStep ==
  ASSUME OutreachInv, NEW w \in Worker, ClaimBatch(w)
  PROVE  OutreachInv'
<1> DEFINE rows == {k \in 1..Len(queue) : Claimable(queue[k])}
           oldest == {k \in rows : Cardinality({j \in rows : j <= k}) <= BatchLimit}
           batch == [j \in oldest |-> queue[j].attempts]
<1>1. PICK k \in oldest : worker' = [worker EXCEPT ![w] = AtRow(batch, k)]
  BY DEF ClaimBatch
<1>2. \A j \in DOMAIN batch : batch[j] \in Nat
  <2>1. \A j \in 1..Len(queue) : queue[j].attempts \in Nat
    BY RowShape DEF OutreachInv
  <2> QED BY <2>1
<1>3. DOMAIN batch \subseteq 1..Len(queue) /\ k \in DOMAIN batch
  OBVIOUS
<1> HIDE DEF batch, oldest, rows
<1>4. WorkerOK(AtRow(batch, k), queue, contactedFirst)
  BY <1>2, <1>3, AtRowOK DEF OutreachInv
<1>5. GoodMove(w)
  BY <1>1, <1>4 DEF GoodMove
<1>6. UNCHANGED <<bookVars, contacts, queue, invoice, ledger>>
  BY DEF ClaimBatch, outcomes
<1> QED BY <1>5, <1>6, SilentStep

(* The steps on one payment.                                               *)
LEMMA FetchStep ==
  ASSUME OutreachInv, NEW w \in Worker, Fetch(w)
  PROVE  OutreachInv'
<1>1. Busy(w) /\ UNCHANGED <<bookVars, contacts, queue, invoice, ledger>>
  BY DEF Fetch, Busy, outcomes
<1>2. w \in DOMAIN worker /\ DOMAIN worker[w] = {"pc", "batch", "row", "entity", "balance", "anchor"}
  BY <1>1, BusyWorker DEF OutreachInv, Busy
<1>3. PICK balance :
        worker' = [worker EXCEPT ![w].pc = "gates", ![w].balance = balance]
  BY DEF Fetch
<1>4. PICK pc \in {"gates"}, anchor \in {worker[w].anchor} :
        worker' = [worker EXCEPT ![w] = [worker[w] EXCEPT
          !.pc = pc, !.balance = balance, !.anchor = anchor]]
  <2>1. worker' = [worker EXCEPT ![w] = [worker[w] EXCEPT !.pc = "gates",
                     !.balance = balance, !.anchor = worker[w].anchor]]
    BY <1>2, <1>3
  <2> QED BY <2>1
<1>5. WorkersOK /\ QueueShape
  BY DEF OutreachInv
<1>6. GoodMove(w)
  <2>1. pc # "insert"
    OBVIOUS
  <2> QED BY <1>1, <1>4, <1>5, <2>1, ContinueGood
<1> QED BY <1>1, <1>6, SilentStep

LEMMA GatesStep ==
  ASSUME OutreachInv, NEW w \in Worker, PassGates(w)
  PROVE  OutreachInv'
<1>1. Busy(w) /\ UNCHANGED <<bookVars, contacts, queue, invoice, ledger>>
  BY DEF PassGates, Busy, outcomes
<1>2. WorkersOK /\ QueueShape
  BY DEF OutreachInv
<1>3. CASE NextPayment(w)
  BY <1>1, <1>2, <1>3, NextPaymentGood, SilentStep
<1>4. CASE Continue(w, "invoice")
  BY <1>1, <1>2, <1>4, ContinuePc, SilentStep
<1>5. CASE Continue(w, "insert") /\ EarnsFee(PaymentAtWork(w))
  <2>1. WorkerOK(worker[w], queue, contactedFirst) /\ worker[w] # IdleWorker
    BY <1>1, <1>2, BusyWorker DEF Busy
  <2>2. /\ worker[w].row \in 1..Len(queue)
        /\ worker[w].entity \in Nat \ {0}
        /\ worker[w].entity <= Len(queue[worker[w].row].payments)
    BY <1>1, <2>1 DEF WorkerOK, Busy
  <2>3. queue[worker[w].row].payments \in Seq(Payment)
    BY <1>2, <2>2, RowShape
  <2>4. PaymentAtWork(w) \in Payment
    BY <2>2, <2>3 DEF PaymentAtWork, PaymentsAtWork, RowAtWork
  <2>5. PaymentAtWork(w) \in contactedFirst
    BY <1>5, <2>4, GateIsSound
  <2> QED BY <1>1, <1>2, <1>5, <2>5, ContinuePc, SilentStep
<1> QED BY <1>3, <1>4, <1>5 DEF PassGates

LEMMA InsertStep ==
  ASSUME OutreachInv, NEW w \in Worker, InsertLedgerRow(w)
  PROVE  OutreachInv'
<1>1. Busy(w) /\ UNCHANGED <<bookVars, contacts, queue, invoice>>
  BY DEF InsertLedgerRow, Busy
<1>2. GoodMove(w)
  BY <1>1, ContinuePc DEF InsertLedgerRow, OutreachInv
<1>3. PaymentAtWork(w) \in contactedFirst
  <2>1. WorkerOK(worker[w], queue, contactedFirst) /\ worker[w] # IdleWorker
    BY <1>1, BusyWorker DEF Busy, OutreachInv
  <2> QED BY <2>1 DEF InsertLedgerRow, WorkerOK, PaymentAtWork, PaymentsAtWork, RowAtWork
<1>4. ledger' \subseteq contactedFirst
  BY <1>3 DEF InsertLedgerRow, OutreachInv, FeeOnlyAfterOutreach
<1>5. InvoiceShape'
  BY <1>1 DEF OutreachInv, InvoiceShape
<1> QED BY <1>1, <1>2, <1>4, <1>5, WorkerOnlyStep

LEMMA ReconcileStep ==
  ASSUME OutreachInv, NEW w \in Worker,
         ReadInvoice(w) \/ ReadAnchor(w) \/ EmitDrop(w) \/ RowThrows(w)
  PROVE  OutreachInv'
<1>1. Busy(w) /\ UNCHANGED <<bookVars, contacts, queue, invoice, ledger>>
  BY DEF ReadInvoice, ReadAnchor, EmitDrop, RowThrows, Busy, outcomes
<1>2. WorkersOK /\ QueueShape
  BY DEF OutreachInv
<1>3. w \in DOMAIN worker /\ DOMAIN worker[w] = {"pc", "batch", "row", "entity", "balance", "anchor"}
  BY <1>1, <1>2, BusyWorker DEF Busy
<1>4. ASSUME NEW pc \in {"anchor", "emit"}, NEW anchor,
             worker' = [worker EXCEPT ![w].pc = pc, ![w].anchor = anchor]
      PROVE  GoodMove(w)
  <2>1. worker' = [worker EXCEPT ![w] = [worker[w] EXCEPT !.pc = pc,
                     !.balance = worker[w].balance, !.anchor = anchor]]
    BY <1>3, <1>4
  <2> QED BY <1>1, <1>2, <2>1, ContinueGood
<1>5. CASE ReadInvoice(w)
  <2>1. CASE NextPayment(w)
    BY <1>1, <1>2, <2>1, NextPaymentGood, SilentStep
  <2>2. CASE ~NextPayment(w)
    <3>1. worker' = [worker EXCEPT ![w].pc = "anchor",
                       ![w].anchor = invoice[InvoiceAtWork(w)].outstanding]
      BY <1>5, <2>2 DEF ReadInvoice
    <3> QED BY <1>1, <1>4, <3>1, SilentStep
  <2> QED BY <2>1, <2>2
<1>6. CASE ReadAnchor(w)
  <2> DEFINE recorded == drops[InvoiceAtWork(w)]
  <2>1. CASE Continue(w, "emit")
    BY <1>1, <1>2, <2>1, ContinuePc, SilentStep
  <2>2. CASE ~Continue(w, "emit")
    <3>1. worker' = [worker EXCEPT ![w].pc = "emit",
             ![w].anchor = IF recorded = <<>> THEN @ ELSE Last(recorded).new]
      BY <1>6, <2>2 DEF ReadAnchor
    <3>2. worker' = [worker EXCEPT ![w].pc = "emit",
             ![w].anchor = IF recorded = <<>> THEN worker[w].anchor ELSE Last(recorded).new]
      BY <1>3, <3>1
    <3>3. PICK anchor : worker' = [worker EXCEPT ![w].pc = "emit", ![w].anchor = anchor]
      BY <3>2
    <3> QED BY <1>1, <1>4, <3>3, SilentStep
  <2> QED BY <2>1, <2>2
<1>7. CASE EmitDrop(w) \/ RowThrows(w)
  <2>1. Continue(w, "update") \/ Continue(w, "failed")
    BY <1>7 DEF EmitDrop, RowThrows
  <2> QED BY <1>1, <1>2, <2>1, ContinuePc, SilentStep
<1> QED BY <1>5, <1>6, <1>7

LEMMA UpdateStep ==
  ASSUME OutreachInv, NEW w \in Worker, UpdateInvoice(w)
  PROVE  OutreachInv'
<1>1. Busy(w) /\ UNCHANGED <<bookVars, contacts, queue, ledger>>
  BY DEF UpdateInvoice, Busy
<1>2. GoodMove(w)
  BY <1>1, NextPaymentGood DEF UpdateInvoice, OutreachInv
<1>3. PICK i, balance : invoice' = [invoice EXCEPT ![i].outstanding = balance]
  BY DEF UpdateInvoice
<1>4. InvoiceShape' /\ \A j \in Invoice : invoice'[j].outreach = invoice[j].outreach
  BY <1>3 DEF OutreachInv, InvoiceShape
<1>5. ledger' \subseteq contactedFirst
  BY <1>1 DEF OutreachInv, FeeOnlyAfterOutreach
<1> QED BY <1>1, <1>2, <1>4, <1>5, WorkerOnlyStep

LEMMA MarkBackStep ==
  ASSUME OutreachInv, NEW w \in Worker, MarkDone(w) \/ MarkFailed(w)
  PROVE  OutreachInv'
<1> DEFINE r == RowAtWork(w)
<1>1. /\ worker[w].pc \in {"done", "failed"} /\ NextRow(w)
      /\ UNCHANGED <<bookVars, contacts, ledger, invoice>>
  BY DEF MarkDone, MarkFailed, outcomes
<1>2. /\ r \in 1..Len(queue) /\ worker[w].batch[r] \in Nat
      /\ queue[r] \in EventRow /\ queue[r].attempts \in Nat
  <2>1. WorkerOK(worker[w], queue, contactedFirst) /\ worker[w] # IdleWorker
    BY <1>1, BusyWorker DEF OutreachInv
  <2>2. r \in 1..Len(queue) /\ worker[w].batch[r] \in Nat
    BY <2>1 DEF WorkerOK, RowAtWork
  <2> QED BY <2>2, RowShape DEF OutreachInv
<1>3. DOMAIN queue = 1..Len(queue)
  BY DEF OutreachInv, QueueShape
<1>4. PICK status \in {"pending", "done", "failed", "dead"}, attempts \in Nat :
        queue' = [queue EXCEPT ![r] =
                    [queue[r] EXCEPT !.status = status, !.attempts = attempts]]
  <2>1. CASE MarkDone(w)
    <3>1. [queue[r] EXCEPT !.status = "done"] =
            [queue[r] EXCEPT !.status = "done", !.attempts = queue[r].attempts]
      BY <1>2 DEF EventRow
    <3>2. queue' = [queue EXCEPT ![r] = [queue[r] EXCEPT !.status = "done"]]
      BY <1>2, <1>3, <2>1 DEF MarkDone
    <3> QED BY <1>2, <3>1, <3>2
  <2>2. CASE MarkFailed(w)
    <3> DEFINE n == worker[w].batch[r] + 1
               s == IF n < MaxAttempts THEN "failed" ELSE "dead"
    <3>1. queue' = [queue EXCEPT ![r] = [queue[r] EXCEPT !.status = s, !.attempts = n]]
      BY <1>2, <1>3, <2>2 DEF MarkFailed
    <3>2. n \in Nat /\ s \in {"pending", "done", "failed", "dead"}
      BY <1>2
    <3> HIDE DEF n, s
    <3> QED BY <3>1, <3>2
  <2> QED BY <2>1, <2>2
<1> QED BY <1>1, <1>4, MarkStep

LEMMA LossStep ==
  ASSUME OutreachInv, NEW w \in Worker, MarkLost(w) \/ WorkerDies(w)
  PROVE  OutreachInv'
<1>1. UNCHANGED <<bookVars, contacts, queue, invoice, ledger>>
  BY DEF MarkLost, WorkerDies, outcomes
<1>2. CASE MarkLost(w)
  BY <1>1, <1>2, NextRowGood, SilentStep DEF MarkLost, OutreachInv
<1>3. CASE WorkerDies(w)
  BY <1>1, <1>3, IdleGood, SilentStep DEF WorkerDies
<1> QED BY <1>2, <1>3

(* A step of no worker that leaves the books, contacts and queue alone.    *)
LEMMA BackgroundStep ==
  ASSUME OutreachInv, UNCHANGED <<bookVars, contacts, queue, worker, ledger>>,
         InvoiceShape', \A i \in Invoice : invoice'[i].outreach = invoice[i].outreach
  PROVE  OutreachInv'
<1>1. QueueShape /\ QueueShape' /\ QueueKept(queue, queue')
  BY QueueKeptRefl DEF OutreachInv, QueueShape
<1>2. WorkersOK'
  BY <1>1, WorkersStay DEF OutreachInv, bookVars
<1>3. ledger' \subseteq contactedFirst
  BY DEF OutreachInv, FeeOnlyAfterOutreach
<1> QED BY <1>1, <1>2, <1>3, QuietStep

LEMMA SyncSteps ==
  ASSUME OutreachInv, NEW y \in Sync, ListInvoices(y) \/ SyncStep(y) \/ SyncDies(y)
  PROVE  OutreachInv'
<1>1. UNCHANGED <<bookVars, contacts, queue, worker, ledger>>
  BY DEF ListInvoices, SyncStep, SyncDies, ReadInvoices, ReadLastDrops,
         UpsertInvoices, EmitDrops, SyncThrows, SyncUnchanged, outcomes
<1>2. InvoiceShape' /\ \A i \in Invoice : invoice'[i].outreach = invoice[i].outreach
  <2>1. CASE UpsertInvoices(y)
    BY <2>1 DEF UpsertInvoices, OutreachInv, InvoiceShape
  <2>2. CASE UNCHANGED invoice
    BY <2>2 DEF OutreachInv, InvoiceShape
  <2> QED BY <2>1, <2>2 DEF ListInvoices, SyncStep, SyncDies, ReadInvoices,
             ReadLastDrops, EmitDrops, SyncThrows, outcomes
<1> QED BY <1>1, <1>2, BackgroundStep

LEMMA GateStep ==
  ASSUME OutreachInv, GateFlips
  PROVE  OutreachInv'
<1>1. UNCHANGED <<bookVars, contacts, queue, worker, ledger, invoice>>
  BY DEF GateFlips, outcomes
<1>2. InvoiceShape'
  BY <1>1 DEF OutreachInv, InvoiceShape
<1> QED BY <1>1, <1>2, BackgroundStep

LEMMA QueueStep ==
  ASSUME OutreachInv, NEW n \in Notification, QueueNotification(n)
  PROVE  OutreachInv'
<1> DEFINE row == [payments |-> n, status |-> "pending", attempts |-> 0]
<1>1. UNCHANGED <<bookVars, contacts, worker, ledger, invoice>> /\ queue' = Append(queue, row)
  BY DEF QueueNotification, outcomes
<1>2. row \in EventRow
  BY CaptureAssumption DEF EventRow
<1> HIDE DEF row
<1>3. QueueShape /\ QueueShape' /\ QueueKept(queue, queue')
  BY <1>1, <1>2 DEF OutreachInv, QueueShape, QueueKept
<1>4. WorkersOK'
  BY <1>1, <1>3, WorkersStay DEF OutreachInv, bookVars
<1>5. InvoiceShape' /\ ledger' \subseteq contactedFirst
  BY <1>1 DEF OutreachInv, InvoiceShape, FeeOnlyAfterOutreach
<1> QED BY <1>1, <1>3, <1>4, <1>5, QuietStep

(* A contact is made now, so no earlier than any payment.                  *)
LEMMA ContactStep ==
  ASSUME OutreachInv, NEW i \in Invoice, Contact(i)
  PROVE  OutreachInv'
<1> USE DEF OutreachInv
<1>1. /\ UNCHANGED <<bookVars, queue, worker, ledger, invoice>>
      /\ contacts' = contacts \cup {<<i, clock>>}
  BY DEF Contact, outcomes
<1>2. BooksShape' /\ InvoiceShape' /\ QueueShape' /\ FeeOnlyAfterOutreach'
  BY <1>1 DEF bookVars, BooksShape, InvoiceShape, QueueShape, FeeOnlyAfterOutreach
<1>3. contacts' \subseteq Invoice \X Nat
  BY <1>1 DEF BooksShape
<1>4. WorkersOK'
  BY <1>1 DEF bookVars, WorkersOK
<1>5. NoneBefore'
  <2> SUFFICES ASSUME NEW p \in Payment \ contactedFirst', Recorded(p)',
                      NEW c \in contacts', c[1] = InvoiceOf[p]
               PROVE  qbo'[p].at <= c[2]
    BY <1>1 DEF NoneBefore, bookVars, Recorded
  <2>1. CASE c \in contacts
    BY <1>1, <2>1 DEF NoneBefore, bookVars, Recorded
  <2>2. CASE c = <<i, clock>>
    BY <1>1, <2>2 DEF bookVars, BooksShape
  <2> QED BY <1>1, <2>1, <2>2
<1> QED BY <1>2, <1>3, <1>4, <1>5

(* The marker becomes the instant of a contact that was on its way.        *)
LEMMA MarkerStep ==
  ASSUME OutreachInv, NEW c \in contacts, MarkOutreachStarted(c[1], c[2])
  PROVE  OutreachInv'
<1> USE DEF OutreachInv
<1>1. /\ UNCHANGED <<bookVars, queue, worker, ledger>> /\ contacts' \subseteq contacts
      /\ c[1] \in Invoice /\ c[2] \in Nat
  BY DEF MarkOutreachStarted
<1>2. InvoiceShape' /\ \A i \in Invoice :
        invoice'[i].outreach = invoice[i].outreach
          \/ (c[1] = i /\ invoice'[i].outreach = c[2])
  <2>1. CASE UNCHANGED invoice
    BY <2>1 DEF InvoiceShape
  <2>2. CASE invoice' = [invoice EXCEPT ![c[1]].outreach =
                           IF @ = Never THEN c[2] ELSE @]
    <3> DEFINE t == IF invoice[c[1]].outreach = Never THEN c[2] ELSE invoice[c[1]].outreach
    <3>1. t \in Nat /\ t \in {c[2], invoice[c[1]].outreach}
      BY <1>1 DEF InvoiceShape
    <3>2. invoice' = [invoice EXCEPT ![c[1]].outreach = t]
      BY <1>1, <2>2 DEF InvoiceShape
    <3> HIDE DEF t
    <3> QED BY <1>1, <3>1, <3>2 DEF InvoiceShape
  <2> QED BY <2>1, <2>2 DEF MarkOutreachStarted
<1>3. BooksShape' /\ QueueShape' /\ FeeOnlyAfterOutreach' /\ WorkersOK'
  BY <1>1 DEF bookVars, BooksShape, QueueShape, FeeOnlyAfterOutreach, WorkersOK
<1>4. NoneBefore'
  <2> SUFFICES ASSUME NEW p \in Payment \ contactedFirst', Recorded(p)'
               PROVE  /\ invoice'[InvoiceOf[p]].outreach # Never =>
                           qbo'[p].at <= invoice'[InvoiceOf[p]].outreach
                      /\ \A d \in contacts' : d[1] = InvoiceOf[p] => qbo'[p].at <= d[2]
    BY DEF NoneBefore
  <2>1. /\ p \in Payment \ contactedFirst /\ Recorded(p) /\ qbo' = qbo
        /\ InvoiceOf[p] \in Invoice
    BY <1>1, QuickBooksAssumption DEF bookVars, Recorded
  <2>2. /\ invoice[InvoiceOf[p]].outreach # Never =>
             qbo[p].at <= invoice[InvoiceOf[p]].outreach
        /\ \A d \in contacts : d[1] = InvoiceOf[p] => qbo[p].at <= d[2]
    BY <2>1 DEF NoneBefore
  <2> QED BY <1>1, <1>2, <2>1, <2>2
<1> QED BY <1>1, <1>2, <1>3, <1>4

(* A payment that is made with no contact before it enters no comparison   *)
(* yet, any other is in contactedFirst.                                    *)
LEMMA PayStep ==
  ASSUME OutreachInv, NEW p \in Payment, CustomerPays(p)
  PROVE  OutreachInv'
<1> USE DEF OutreachInv
<1>1. /\ UNCHANGED <<clock, queue, worker, ledger, invoice, contacts>>
      /\ contactedFirst \subseteq contactedFirst'
      /\ p \notin contactedFirst' => ~Contacted(InvoiceOf[p])
  BY DEF CustomerPays, RecordPayment, outcomes
<1>2. PICK d \in 1..Day(clock) :
        qbo' = [qbo EXCEPT ![p] = [at |-> clock, txnDate |-> d]]
  BY DEF CustomerPays, RecordPayment
<1>3. clock \in Nat /\ Day(clock) \in Nat
  BY DayMonotone DEF BooksShape
<1>4. BooksShape'
  <2>1. d \in Nat /\ d <= Day(clock)
    BY <1>3
  <2> QED BY <1>1, <1>2, <1>3, <2>1 DEF BooksShape
<1>5. InvoiceShape' /\ QueueShape' /\ FeeOnlyAfterOutreach'
  BY <1>1 DEF InvoiceShape, QueueShape, FeeOnlyAfterOutreach
<1>6. WorkersOK'
  BY <1>1, <1>5, QueueKeptRefl, WorkersStay DEF QueueShape
<1>7. NoneBefore'
  <2> SUFFICES ASSUME NEW q \in Payment \ contactedFirst', Recorded(q)'
               PROVE  /\ invoice[InvoiceOf[q]].outreach # Never =>
                           qbo'[q].at <= invoice[InvoiceOf[q]].outreach
                      /\ \A c \in contacts : c[1] = InvoiceOf[q] => qbo'[q].at <= c[2]
    BY <1>1 DEF NoneBefore
  <2>1. CASE q = p
    BY <1>1, <2>1 DEF Contacted
  <2>2. CASE q # p
    <3>1. qbo'[q] = qbo[q]
      BY <1>2, <2>2 DEF BooksShape
    <3> QED BY <1>1, <3>1 DEF NoneBefore, Recorded
  <2> QED BY <2>1, <2>2
<1> QED BY <1>1, <1>4, <1>5, <1>6, <1>7

LEMMA ClockStep ==
  ASSUME OutreachInv, ClockTicks
  PROVE  OutreachInv'
<1> USE DEF OutreachInv
<1>1. /\ UNCHANGED <<qbo, contactedFirst, queue, worker, ledger, invoice, contacts>>
      /\ clock' = clock + 1
  BY DEF ClockTicks, Tick, outcomes
<1>2. BooksShape'
  BY <1>1 DEF BooksShape
<1>3. InvoiceShape' /\ QueueShape' /\ FeeOnlyAfterOutreach' /\ WorkersOK'
  BY <1>1 DEF InvoiceShape, QueueShape, FeeOnlyAfterOutreach, WorkersOK
<1>4. NoneBefore'
  BY <1>1 DEF NoneBefore, Recorded
<1> QED BY <1>1, <1>2, <1>3, <1>4

(* Every step keeps the invariant.                                         *)
LEMMA OutreachStep == OutreachInv /\ [CaptureNext]_captureVars => OutreachInv'
<1> SUFFICES ASSUME OutreachInv, [CaptureNext]_captureVars PROVE OutreachInv'
  OBVIOUS
<1>1. ASSUME NEW n \in Notification, QueueNotification(n) PROVE OutreachInv'
  BY <1>1, QueueStep
<1>2. ASSUME NEW w \in Worker,
             ClaimBatch(w) \/ WorkerStep(w) \/ MarkLost(w) \/ WorkerDies(w)
      PROVE  OutreachInv'
  BY <1>2, ClaimStep, FetchStep, GatesStep, InsertStep, ReconcileStep, UpdateStep,
     MarkBackStep, LossStep DEF WorkerStep
<1>3. ASSUME NEW y \in Sync, ListInvoices(y) \/ SyncStep(y) \/ SyncDies(y)
      PROVE  OutreachInv'
  BY <1>3, SyncSteps
<1>4. ASSUME NEW i \in Invoice, Contact(i) PROVE OutreachInv'
  BY <1>4, ContactStep
<1>5. ASSUME NEW c \in contacts, MarkOutreachStarted(c[1], c[2]) PROVE OutreachInv'
  BY <1>5, MarkerStep
<1>6. ASSUME NEW p \in Payment, CustomerPays(p) PROVE OutreachInv'
  BY <1>6, PayStep
<1>7. CASE ClockTicks
  BY <1>7, ClockStep
<1>8. CASE GateFlips
  BY <1>8, GateStep
<1>9. CASE UNCHANGED captureVars
  BY <1>9 DEF captureVars, bookVars, outcomes, OutreachInv, BooksShape, InvoiceShape,
     QueueShape, WorkersOK, NoneBefore, Recorded, FeeOnlyAfterOutreach
<1> QED
  BY <1>1, <1>2, <1>3, <1>4, <1>5, <1>6, <1>7, <1>8, <1>9 DEF CaptureNext

(* A fee is charged only on a payment that was made after the customer had *)
(* been contacted about the invoice (the gate of captureDepsLive and       *)
(* isOutreachBeforePayment), whatever fails, dies or overlaps.             *)
THEOREM FeesFollowOutreach == CaptureSpec => []FeeOnlyAfterOutreach
<1>1. OutreachInv => FeeOnlyAfterOutreach
  BY DEF OutreachInv
<1> QED
  BY OutreachInit, OutreachStep, <1>1, PTL DEF CaptureSpec

-----------------------------------------------------------------------------
(* Sums of payments.                                                       *)

(* Every sum of the amounts of payments.                                   *)
AmountsOf(S) == MapThenSumSet(LAMBDA p : AmountCents[p], S)
IsTotal(g) == g \in [SUBSET Payment -> Nat] /\ IsSum(AmountCents, Payment, g)
Total == CHOOSE g : IsTotal(g)

(* The assumption on the amounts, as the sums need it.                     *)
LEMMA AmountsAreNat == AmountCents \in [Payment -> Nat] /\ IsFiniteSet(Payment)
BY QuickBooksAssumption

(* Total, by which the model sums amounts, is such a sum.                  *)
LEMMA TotalIsSum == IsTotal(Total)
<1>1. \E g : IsTotal(g)
  BY AmountsAreNat, SumExists, Zenon DEF IsTotal
<1> QED BY <1>1 DEF Total

(* Over any set of payments the model's sum is that of the whole books.   *)
LEMMA AmountsAre ==
  ASSUME NEW S \in SUBSET Payment
  PROVE  AmountsOf(S) = Total[S] /\ Total[S] \in Nat
<1> DEFINE g == [s \in SUBSET S |-> Total[s]]
           h == CHOOSE h : IsSum(AmountCents, S, h)
<1>1. IsSum(AmountCents, S, g)
  <2>1. ASSUME NEW s \in SUBSET S
        PROVE  g[s] = IF s = {} THEN 0 ELSE AmountCents[Chosen(s)] + g[s \ {Chosen(s)}]
    BY TotalIsSum, SumUnfolds DEF IsTotal
  <2>2. g = [s \in SUBSET S |-> g[s]]
    OBVIOUS
  <2> HIDE DEF g
  <2> QED BY <2>1, <2>2 DEF IsSum
<1>2. IsSum(AmountCents, S, h)
  BY <1>1
<1>3. AmountsOf(S) = h[S]
  BY DEF AmountsOf, MapThenSumSet, MapThenFoldSet, IsSum, Chosen
<1>4. h[S] = Total[S]
  <2> HIDE DEF h
  <2>1. \A s \in SUBSET S : h[s] = Total[s]
    <3>1. IsSum(AmountCents, Payment, Total) /\ IsFiniteSet(Payment)
      BY TotalIsSum, AmountsAreNat DEF IsTotal
    <3>2. PICK T : T = Payment
      OBVIOUS
    <3>3. IsFiniteSet(T) /\ S \in SUBSET T /\ IsSum(AmountCents, T, Total)
      BY <3>1, <3>2
    <3> QED BY <1>2, <3>3, SumsAgree
  <2> QED BY <2>1
<1> QED BY <1>3, <1>4, TotalIsSum DEF IsTotal

(* What is due is the face less what is paid, in a state and in the next.  *)
LEMMA BalanceIs == \A i : Balance(i) = FaceCents[i] - AmountsOf(PaymentsOf(i))
BY DEF Balance, AmountsOf

LEMMA BalanceIsNext == (\A i : Balance(i) = FaceCents[i] - AmountsOf(PaymentsOf(i)))'
BY BalanceIs, PTL

(* A payment lowers what is left of its invoice, never below zero, and     *)
(* leaves the others as they are.                                          *)
LEMMA PayingLowersBalance ==
  ASSUME BooksShape, NEW p \in Payment, RecordPayment(p),
         NEW i \in Invoice, Balance(i) \in Nat
  PROVE  Balance(i)' \in Nat /\ Balance(i)' <= Balance(i)
<1>1. PICK S, T : S = PaymentsOf(i) /\ T = PaymentsOf(i)'
  OBVIOUS
<1>2. S \in SUBSET Payment /\ T \in SUBSET Payment
  BY <1>1 DEF PaymentsOf
<1>3. Balance(i) = FaceCents[i] - Total[S] /\ Balance(i)' = FaceCents[i] - Total[T]
  <2>1. Balance(i) = FaceCents[i] - AmountsOf(S)
    BY <1>1, BalanceIs
  <2>2. Balance(i)' = FaceCents[i] - AmountsOf(T)
    BY <1>1, BalanceIsNext
  <2> QED BY <1>2, <2>1, <2>2, AmountsAre
<1>4. T = S \/ (InvoiceOf[p] = i /\ p \notin S /\ T = S \cup {p})
  <2>1. \A q \in Payment : q # p => qbo'[q] = qbo[q]
    BY DEF RecordPayment, BooksShape
  <2>2. ~Recorded(p)
    BY DEF RecordPayment
  <2> QED BY <1>1, <2>1, <2>2 DEF PaymentsOf, Recorded
<1>5. CASE T = S
  BY <1>3, <1>5
<1>6. CASE InvoiceOf[p] = i /\ p \notin S /\ T = S \cup {p}
  <2>1. Total[T] = AmountCents[p] + Total[S]
    <3>1. T \ {p} = S /\ p \in T
      BY <1>6
    <3>3. Total[T] = AmountCents[p] + Total[T \ {p}]
      <4>1. /\ \A s \in SUBSET Payment : Total[s] \in Int
            /\ \A q \in Payment : AmountCents[q] \in Int
            /\ IsSum(AmountCents, Payment, Total) /\ IsFiniteSet(Payment)
        BY TotalIsSum, AmountsAreNat DEF IsTotal
      <4> QED BY <1>2, <3>1, <4>1, SumSplits
    <3> QED BY <3>1, <3>3
  <2>2. AmountCents[p] <= Balance(i)
    BY <1>6 DEF RecordPayment
  <2>3. /\ AmountCents[p] \in Nat /\ FaceCents[i] \in Nat
        /\ Total[S] \in Nat /\ Total[T] \in Nat
    BY <1>2, AmountsAre, QuickBooksAssumption
  <2> QED BY <1>3, <2>1, <2>2, <2>3
<1> QED BY <1>4, <1>5, <1>6

(* Nothing is paid in a step that leaves the payments alone.               *)
LEMMA BalanceStays ==
  ASSUME qbo' = qbo, NEW i
  PROVE  Balance(i)' = Balance(i)
<1>1. PaymentsOf(i)' = PaymentsOf(i)
  BY DEF PaymentsOf, Recorded
<1> QED BY <1>1, BalanceIs, BalanceIsNext

(* Before any payment the whole face of an invoice is due.                 *)
LEMMA BalanceAtFirst ==
  ASSUME BooksInit, NEW i \in Invoice
  PROVE  Balance(i) \in Nat
<1>1. PaymentsOf(i) = {}
  BY DEF BooksInit, PaymentsOf, Recorded, NotRecorded
<1>2. Balance(i) = FaceCents[i] - AmountsOf({})
  BY <1>1, BalanceIs
<1>3. AmountsOf({}) = 0
  <2>1. AmountsOf({}) = Total[{}]
    BY AmountsAre
  <2> QED BY <2>1, TotalIsSum, SumUnfolds DEF IsTotal
<1> QED BY <1>2, <1>3, QuickBooksAssumption

-----------------------------------------------------------------------------
(* What the drops of an invoice add up to.                                 *)

IsRecovery(q, D) ==
  D = [k \in 0..Len(q) |-> IF k = 0 THEN 0 ELSE D[k - 1] + (q[k].prev - q[k].new)]
Recovery(q) == (CHOOSE D : IsRecovery(q, D))[Len(q)]

LEMMA RecoveredIsRecovery == \A i : Recovered(i) = Recovery(drops[i])
BY DEF Recovered, Recovery, IsRecovery

(* The last drop and those before it.                                      *)
LEMMA RecoveryUnfolds ==
  ASSUME NEW q, NEW D, IsRecovery(q, D), NEW k \in 0..Len(q)
  PROVE  D[k] = IF k = 0 THEN 0 ELSE D[k - 1] + (q[k].prev - q[k].new)
BY DEF IsRecovery

(* Adding up from the front is well defined, for sequences of any length.  *)
LEMMA RecoveryExists ==
  ASSUME NEW q \in Seq(Drop)
  PROVE  \E D \in [0..Len(q) -> Int] : IsRecovery(q, D)
<1> DEFINE fits(n, D) == \A k \in 0..n :
             D[k] = IF k = 0 THEN 0 ELSE D[k - 1] + (q[k].prev - q[k].new)
           has(n) == n <= Len(q) => \E D \in [0..n -> Int] : fits(n, D)
           N == {n \in Nat : has(n)}
<1>1. 0 \in N
  <2>1. [k \in 0..0 |-> 0] \in [0..0 -> Int] /\ fits(0, [k \in 0..0 |-> 0])
    OBVIOUS
  <2>2. has(0)
    <3> HIDE DEF fits
    <3> QED BY <2>1
  <2> HIDE DEF has
  <2> QED BY <2>2
<1>2. ASSUME NEW n \in N
      PROVE  n + 1 \in N
  <2>0. n \in Nat /\ has(n)
    <3> HIDE DEF has
    <3> QED OBVIOUS
  <2> SUFFICES ASSUME n + 1 <= Len(q)
               PROVE  \E D \in [0..(n + 1) -> Int] : fits(n + 1, D)
    <3>1. has(n + 1) => n + 1 \in N
      <4> HIDE DEF has
      <4> QED BY <2>0
    <3> HIDE DEF fits, N
    <3> QED BY <3>1
  <2>1. PICK D \in [0..n -> Int] : fits(n, D)
    <3> HIDE DEF fits
    <3> QED BY <2>0
  <2>2. n + 1 \in 1..Len(q) /\ q[n + 1].prev - q[n + 1].new \in Int
    <3>1. n + 1 \in 1..Len(q)
      OBVIOUS
    <3>2. q[n + 1] \in Drop
      BY <3>1
    <3> QED BY <3>1, <3>2 DEF Drop
  <2> DEFINE E == [k \in 0..(n + 1) |->
                     IF k = n + 1 THEN D[n] + (q[n + 1].prev - q[n + 1].new) ELSE D[k]]
  <2>3. E \in [0..(n + 1) -> Int]
    BY <2>1, <2>2
  <2>4. ASSUME NEW k \in 0..(n + 1)
        PROVE  E[k] = IF k = 0 THEN 0 ELSE E[k - 1] + (q[k].prev - q[k].new)
    <3>1. CASE k = n + 1
      BY <3>1
    <3>2. CASE k # n + 1
      <4>1. k \in 0..n /\ (k # 0 => k - 1 \in 0..n /\ k - 1 # n + 1)
        BY <3>2
      <4> QED BY <2>1, <3>2, <4>1
    <3> QED BY <3>1, <3>2
  <2>5. E \in [0..(n + 1) -> Int] /\ fits(n + 1, E)
    BY <2>3, <2>4
  <2> HIDE DEF E, fits
  <2> QED BY <2>5
<1>3. N = Nat
  <2> HIDE DEF N
  <2>1. N \in SUBSET Nat
    BY DEF N
  <2> QED BY <1>1, <1>2, <2>1, NatSetInduction
<1>4. PICK D \in [0..Len(q) -> Int] : fits(Len(q), D)
  <2>1. has(Len(q)) /\ Len(q) \in Nat
    <3> HIDE DEF has
    <3> QED BY <1>3
  <2> HIDE DEF fits
  <2> QED BY <2>1
<1>5. D = [k \in 0..Len(q) |-> D[k]]
  OBVIOUS
<1> QED BY <1>4, <1>5 DEF IsRecovery

(* Two recoveries agree as far as their sequences do.                      *)
LEMMA RecoveriesAgree ==
  ASSUME NEW q \in Seq(Drop), NEW r \in Seq(Drop), Len(q) <= Len(r),
         \A k \in 1..Len(q) : r[k] = q[k],
         NEW D, IsRecovery(q, D), NEW E, IsRecovery(r, E)
  PROVE  \A k \in 0..Len(q) : D[k] = E[k]
<1> DEFINE N == {k \in Nat : k <= Len(q) => D[k] = E[k]}
<1>1. 0 \in N
  BY RecoveryUnfolds
<1>2. ASSUME NEW n \in N
      PROVE  n + 1 \in N
  <2> SUFFICES ASSUME n + 1 <= Len(q)
               PROVE  D[n + 1] = E[n + 1]
    OBVIOUS
  <2>1. D[n] = E[n] /\ r[n + 1] = q[n + 1]
    OBVIOUS
  <2>2. D[n + 1] = D[n] + (q[n + 1].prev - q[n + 1].new)
    BY RecoveryUnfolds
  <2>3. E[n + 1] = E[n] + (r[n + 1].prev - r[n + 1].new)
    BY RecoveryUnfolds
  <2> QED BY <2>1, <2>2, <2>3
<1>3. N = Nat
  <2> HIDE DEF N
  <2>1. N \in SUBSET Nat
    BY DEF N
  <2> QED BY <1>1, <1>2, <2>1, NatSetInduction
<1> QED BY <1>3

(* A drop that is appended adds its fall.                                  *)
LEMMA RecoveryAppends ==
  ASSUME NEW q \in Seq(Drop), NEW d \in Drop
  PROVE  Recovery(q) \in Int /\ Recovery(Append(q, d)) = Recovery(q) + (d.prev - d.new)
<1>1. PICK r : r = Append(q, d)
  OBVIOUS
<1>2. /\ r \in Seq(Drop) /\ Len(r) = Len(q) + 1 /\ Len(q) \in Nat
      /\ r[Len(r)] = d /\ \A k \in 1..Len(q) : r[k] = q[k]
  BY <1>1
<1>3. PICK D : IsRecovery(q, D) /\ D \in [0..Len(q) -> Int]
  BY RecoveryExists
<1>4. PICK E : IsRecovery(r, E)
  BY <1>2, RecoveryExists
<1>5. Recovery(q) = D[Len(q)]
  <2>1. PICK C : C = CHOOSE X : IsRecovery(q, X)
    OBVIOUS
  <2>2. IsRecovery(q, C)
    BY <1>3, <2>1
  <2>3. C[Len(q)] = D[Len(q)]
    BY <1>2, <1>3, <2>2, RecoveriesAgree
  <2> QED BY <2>1, <2>3 DEF Recovery
<1>6. Recovery(r) = E[Len(r)]
  <2>1. PICK C : C = CHOOSE X : IsRecovery(r, X)
    OBVIOUS
  <2>2. IsRecovery(r, C)
    BY <1>4, <2>1
  <2>3. C[Len(r)] = E[Len(r)]
    BY <1>2, <1>4, <2>2, RecoveriesAgree
  <2> QED BY <2>1, <2>3 DEF Recovery
<1>7. E[Len(r)] = E[Len(q)] + (d.prev - d.new)
  BY <1>2, <1>4, RecoveryUnfolds
<1>8. D[Len(q)] = E[Len(q)]
  BY <1>2, <1>3, <1>4, RecoveriesAgree
<1> QED BY <1>1, <1>2, <1>3, <1>5, <1>6, <1>7, <1>8

(* No drops add up to nothing.                                             *)
LEMMA NothingRecovered == Recovery(<<>>) = 0
<1>1. PICK C : C = CHOOSE X : IsRecovery(<<>>, X)
  OBVIOUS
<1>2. \E X : IsRecovery(<<>>, X)
  <2>1. <<>> \in Seq(Drop)
    OBVIOUS
  <2> QED BY <2>1, RecoveryExists
<1>3. IsRecovery(<<>>, C)
  BY <1>1, <1>2
<1>4. C[0] = 0
  BY <1>3, RecoveryUnfolds
<1> QED BY <1>1, <1>4 DEF Recovery

-----------------------------------------------------------------------------
(* Drops.  While one worker or sync runs at a time and reads and inserts   *)
(* do not fail unseen, whoever is about to record a fall measures it from  *)
(* where the last one ended, and what is recorded and what is left make up *)
(* what was first seen.                                                    *)

(* Where the next fall of i is measured from.                              *)
Mark(i) == IF drops[i] = <<>> THEN invoice[i].outstanding ELSE Last(drops[i]).new

Emitting == \E y \in Sync : sync[y].pc = "emit"

AccountShape(i) ==
  /\ Balance(i) \in Nat
  /\ invoice[i] \in InvoiceRow /\ drops[i] \in Seq(Drop) /\ opening[i] \in Nat

(* An invoice that is not synced is blank; of any other no more is         *)
(* recorded than was there, and no less unless somebody was stopped.       *)
AccountOK(i) ==
  /\ AccountShape(i)
  /\ ~invoice[i].synced =>
       drops[i] = <<>> /\ invoice[i].outstanding = 0 /\ opening[i] = 0
  /\ invoice[i].synced =>
       Recovery(drops[i]) + Mark(i) <= opening[i] /\ Balance(i) <= Mark(i)
  /\ stops = 0 /\ ~Emitting =>
       /\ invoice[i].outstanding + Recovery(drops[i]) >= opening[i]
       /\ Mark(i) + Recovery(drops[i]) >= opening[i]

AccountsOK ==
  /\ stops \in Nat
  /\ DOMAIN invoice = Invoice /\ DOMAIN drops = Invoice /\ DOMAIN opening = Invoice
  /\ \A i \in Invoice : AccountOK(i)

(* What a worker at step pc has read of invoice i still holds.             *)
Fetched == {"gates", "insert", "invoice", "anchor", "emit", "update"}
WorkerReads(pc, balance, anchor, i) ==
  /\ pc \in Fetched =>
       Balance(i) <= balance /\ (invoice[i].synced => balance <= Mark(i))
  /\ pc \in {"anchor", "emit", "update"} => invoice[i].synced
  /\ pc = "anchor" => anchor = invoice[i].outstanding
  /\ pc = "emit" => anchor = Mark(i)
  /\ pc = "update" => balance = Mark(i)

WorkerKnows(w) ==
  worker[w] # IdleWorker =>
    /\ worker[w].balance \in Nat /\ worker[w].anchor \in Nat
    /\ worker[w].pc \in Fetched =>
         WorkerReads(worker[w].pc, worker[w].balance, worker[w].anchor, InvoiceAtWork(w))

(* What a sync x has read of invoice i still holds.                        *)
SyncReads(x, i) ==
  /\ Balance(i) <= x.balance[i]
  /\ x.pc # "emit" /\ invoice[i].synced => x.balance[i] <= Mark(i)
  /\ x.pc = "anchors" =>
       x.anchor[i] = IF invoice[i].synced THEN invoice[i].outstanding ELSE NoAnchor
  /\ x.pc = "upsert" =>
       x.anchor[i] = IF invoice[i].synced THEN Mark(i) ELSE NoAnchor
  /\ x.pc = "emit" =>
       /\ invoice[i].synced /\ invoice[i].outstanding = x.balance[i]
       /\ x.anchor[i] = NoAnchor => drops[i] = <<>> /\ opening[i] = x.balance[i]
       /\ x.anchor[i] # NoAnchor =>
            /\ x.balance[i] <= x.anchor[i]
            /\ drops[i] # <<>> => x.anchor[i] = Mark(i)
            /\ Recovery(drops[i]) + x.anchor[i] <= opening[i]
            /\ stops = 0 => Recovery(drops[i]) + x.anchor[i] >= opening[i]

SyncKnows(y) ==
  sync[y] # IdleSync =>
    sync[y] \in Syncing /\ \A i \in Invoice : SyncReads(sync[y], i)

Alone ==
  /\ DOMAIN worker = Worker /\ DOMAIN sync = Sync
  /\ \A v, w \in Worker : worker[v] # IdleWorker /\ worker[w] # IdleWorker => v = w
  /\ \A y, z \in Sync : sync[y] # IdleSync /\ sync[z] # IdleSync => y = z
  /\ \A w \in Worker, y \in Sync : worker[w] = IdleWorker \/ sync[y] = IdleSync

DropsInv ==
  /\ AccountsOK /\ Alone
  /\ \A w \in Worker : WorkerKnows(w)
  /\ \A y \in Sync : SyncKnows(y)

DropsHold == OutreachInv /\ DropsInv

(* A fall from a to b that is recorded, if it is one, ends at b.           *)
Fell(q, r, a, b) ==
  /\ r \in Seq(Drop)
  /\ Recovery(q) \in Int /\ Recovery(r) \in Int
  /\ Recovery(r) + b = Recovery(q) + a
  /\ Recovery(r) >= Recovery(q)
  /\ (r # <<>> /\ Last(r).new = b) \/ (r = q /\ a = b)

LEMMA WithDropRecovers ==
  ASSUME NEW q \in Seq(Drop), NEW a \in Nat, NEW b \in Nat, b <= a,
         NEW r, r = WithDrop(q, a, b)
  PROVE  Fell(q, r, a, b)
<1> USE DEF Fell
<1> DEFINE d == [prev |-> a, new |-> b]
<1>1. d \in Drop /\ d.prev = a /\ d.new = b
  BY DEF Drop
<1> HIDE DEF d
<1>2. Recovery(q) \in Int /\ Recovery(Append(q, d)) = Recovery(q) + (d.prev - d.new)
  BY <1>1, RecoveryAppends
<1>3. CASE b < a
  <2>1. r = Append(q, d)
    BY <1>3 DEF WithDrop, d
  <2>2. r \in Seq(Drop) /\ r # <<>> /\ Last(r) = d
    BY <1>1, <2>1 DEF Last
  <2> QED BY <1>1, <1>2, <1>3, <2>1, <2>2
<1>4. CASE b = a
  <2>1. r = q
    BY <1>4 DEF WithDrop
  <2> QED BY <1>2, <1>4, <2>1
<1> QED BY <1>3, <1>4

(* The drops' sums are integers and the marks amounts.                     *)
LEMMA AccountNumbers ==
  ASSUME NEW i, AccountShape(i)
  PROVE  /\ Recovery(drops[i]) \in Int /\ Mark(i) \in Nat
         /\ invoice[i].outstanding \in Nat /\ opening[i] \in Nat /\ Balance(i) \in Nat
         /\ drops[i] = <<>> => Recovery(drops[i]) = 0
<1>1. drops[i] \in Seq(Drop) /\ invoice[i] \in InvoiceRow
  BY DEF AccountShape
<1>2. Recovery(drops[i]) \in Int
  <2>1. [prev |-> 0, new |-> 0] \in Drop
    BY DEF Drop
  <2> QED BY <1>1, <2>1, RecoveryAppends
<1>3. Mark(i) \in Nat
  <2>1. CASE drops[i] = <<>>
    BY <1>1, <2>1 DEF Mark, InvoiceRow
  <2>2. CASE drops[i] # <<>>
    <3>1. Last(drops[i]) \in Drop
      BY <1>1, <2>2 DEF Last
    <3> QED BY <2>2, <3>1 DEF Mark, Drop
  <2> QED BY <2>1, <2>2
<1> QED BY <1>1, <1>2, <1>3, NothingRecovered DEF AccountShape, InvoiceRow

(* The account of i is as it was, but for what has been paid since.        *)
SameAccount(i) ==
  /\ invoice'[i] \in InvoiceRow
  /\ invoice'[i].synced = invoice[i].synced
  /\ invoice'[i].outstanding = invoice[i].outstanding
  /\ drops'[i] = drops[i] /\ opening'[i] = opening[i]
  /\ Balance(i)' \in Nat /\ Balance(i)' <= Balance(i)

LEMMA SameAccountOK ==
  ASSUME NEW i, AccountOK(i), SameAccount(i),
         stops' = 0 /\ ~Emitting' => stops = 0 /\ ~Emitting
  PROVE  AccountOK(i)'
<1>1. Mark(i)' = Mark(i)
  BY DEF Mark, SameAccount
<1>2. AccountShape(i) /\ AccountShape(i)'
  BY DEF AccountOK, AccountShape, SameAccount
<1>3. /\ Mark(i) \in Nat /\ Balance(i) \in Nat /\ Balance(i)' \in Nat
      /\ Recovery(drops[i]) \in Int /\ Recovery(drops[i])' = Recovery(drops[i])
  BY <1>2, AccountNumbers DEF SameAccount
<1> QED BY <1>1, <1>2, <1>3 DEF AccountOK, SameAccount

(* Nothing moves in the accounts.                                          *)
LEMMA AccountsStay ==
  ASSUME AccountsOK, UNCHANGED <<qbo, invoice, drops, opening>>
  PROVE  \A i \in Invoice : SameAccount(i)
<1> SUFFICES ASSUME NEW i \in Invoice PROVE SameAccount(i)
  OBVIOUS
<1>1. AccountShape(i)
  BY DEF AccountsOK, AccountOK
<1>2. Balance(i)' = Balance(i)
  BY BalanceStays
<1> QED BY <1>1, <1>2, AccountNumbers DEF SameAccount, AccountShape

LEMMA AccountsOKNext ==
  ASSUME AccountsOK, \A i \in Invoice : SameAccount(i),
         DOMAIN invoice' = Invoice, DOMAIN drops' = Invoice, DOMAIN opening' = Invoice,
         stops' \in Nat, stops' = 0 /\ ~Emitting' => stops = 0 /\ ~Emitting
  PROVE  AccountsOK'
BY SameAccountOK DEF AccountsOK

(* A worker knows what it knew while the accounts stay.                    *)
LEMMA WorkerReadsOn ==
  ASSUME NEW i, AccountShape(i), SameAccount(i), NEW pc, NEW balance \in Nat, NEW anchor,
         WorkerReads(pc, balance, anchor, i)
  PROVE  WorkerReads(pc, balance, anchor, i)'
<1>1. Mark(i)' = Mark(i)
  BY DEF Mark, SameAccount
<1> QED BY <1>1, AccountNumbers DEF WorkerReads, SameAccount

LEMMA SyncReadsOn ==
  ASSUME NEW i, AccountShape(i), SameAccount(i), NEW x, x.balance[i] \in Nat,
         SyncReads(x, i), stops' = 0 => stops = 0
  PROVE  SyncReads(x, i)'
<1>1. Mark(i)' = Mark(i)
  BY DEF Mark, SameAccount
<1> QED BY <1>1, AccountNumbers DEF SyncReads, SameAccount

(* The invoice at work is one, and stays it while rows are only added.     *)
LEMMA InvoiceAtWorkIs ==
  ASSUME WorkersOK, QueueShape, NEW w \in Worker, worker[w] # IdleWorker,
         worker[w].pc \notin {"done", "failed"}
  PROVE  /\ worker[w].row \in 1..Len(queue)
         /\ PaymentAtWork(w) \in Payment /\ InvoiceAtWork(w) \in Invoice
<1> DEFINE k == worker[w].row
<1>1. /\ k \in 1..Len(queue) /\ worker[w].entity \in Nat \ {0}
      /\ worker[w].entity <= Len(queue[k].payments)
  BY DEF WorkersOK, WorkerOK
<1>2. queue[k].payments \in Seq(Payment)
  BY <1>1, RowShape
<1>3. PaymentAtWork(w) \in Payment
  BY <1>1, <1>2 DEF PaymentAtWork, PaymentsAtWork, RowAtWork
<1> QED BY <1>1, <1>3, QuickBooksAssumption DEF InvoiceAtWork

(* A step that moves no worker and no sync.                                *)
LEMMA OthersStep ==
  ASSUME DropsHold, UNCHANGED <<worker, sync, stops>>, QueueKept(queue, queue'),
         \A i \in Invoice : SameAccount(i),
         DOMAIN invoice' = Invoice, DOMAIN drops' = Invoice, DOMAIN opening' = Invoice
  PROVE  DropsInv'
<1> USE DEF DropsHold, DropsInv
<1>1. Emitting' = Emitting
  BY DEF Emitting
<1>2. AccountsOK'
  BY <1>1, AccountsOKNext DEF AccountsOK
<1>3. Alone'
  BY DEF Alone
<1>4. ASSUME NEW w \in Worker
      PROVE  WorkerKnows(w)'
  <2> SUFFICES ASSUME worker[w] # IdleWorker
               PROVE  /\ worker[w].balance \in Nat /\ worker[w].anchor \in Nat
                      /\ worker[w].pc \in Fetched =>
                           WorkerReads(worker[w].pc, worker[w].balance, worker[w].anchor,
                                       InvoiceAtWork(w))'
    BY DEF WorkerKnows
  <2>1. worker[w].balance \in Nat /\ worker[w].anchor \in Nat
    BY DEF WorkerKnows
  <2>2. ASSUME worker[w].pc \in Fetched
        PROVE  WorkerReads(worker[w].pc, worker[w].balance, worker[w].anchor, InvoiceAtWork(w))'
    <3>1. PICK i, x : i = InvoiceAtWork(w) /\ x = worker[w]
      OBVIOUS
    <3>2. i \in Invoice /\ worker[w].row \in 1..Len(queue)
      BY <2>2, <3>1, InvoiceAtWorkIs DEF OutreachInv, Fetched
    <3>3. InvoiceAtWork(w)' = i /\ worker'[w] = x
      BY <3>1, <3>2 DEF InvoiceAtWork, PaymentAtWork, PaymentsAtWork, RowAtWork, QueueKept
    <3>4. WorkerReads(x.pc, x.balance, x.anchor, i)
      BY <2>2, <3>1 DEF WorkerKnows
    <3>5. WorkerReads(x.pc, x.balance, x.anchor, i)'
      BY <2>1, <3>1, <3>2, <3>4, WorkerReadsOn DEF AccountsOK, AccountOK
    <3> QED BY <3>1, <3>3, <3>5
  <2> QED BY <2>1, <2>2
<1>5. ASSUME NEW y \in Sync
      PROVE  SyncKnows(y)'
  <2> SUFFICES ASSUME sync[y] # IdleSync
               PROVE  sync[y] \in Syncing /\ (\A i \in Invoice : SyncReads(sync[y], i))'
    BY DEF SyncKnows
  <2>1. PICK x : x = sync[y]
    OBVIOUS
  <2>2. x \in Syncing /\ \A i \in Invoice : SyncReads(x, i)
    BY <2>1 DEF SyncKnows
  <2>3. ASSUME NEW i \in Invoice
        PROVE  SyncReads(x, i)'
    <3>1. x.balance[i] \in Nat
      BY <2>2 DEF Syncing
    <3> QED BY <2>2, <3>1, SyncReadsOn DEF AccountsOK, AccountOK
  <2> QED BY <2>1, <2>2, <2>3
<1> QED BY <1>2, <1>3, <1>4, <1>5

(* One worker's turn: nobody else is at work.                              *)
LEMMA WorkerTurn ==
  ASSUME DropsHold, NEW w \in Worker, NEW x, worker' = [worker EXCEPT ![w] = x],
         worker[w] # IdleWorker \/ NobodyAtWork, sync' = sync,
         AccountsOK', WorkerKnows(w)'
  PROVE  DropsInv'
<1> USE DEF DropsHold, DropsInv
<1>1. /\ DOMAIN worker' = Worker /\ \A v \in Worker : v # w => worker'[v] = IdleWorker
      /\ \A y \in Sync : sync'[y] = IdleSync
  BY DEF Alone, NobodyAtWork
<1>2. Alone'
  BY <1>1 DEF Alone
<1>3. \A v \in Worker : WorkerKnows(v)'
  BY <1>1 DEF WorkerKnows
<1>4. \A y \in Sync : SyncKnows(y)'
  BY <1>1 DEF SyncKnows
<1> QED BY <1>2, <1>3, <1>4

(* While a worker is at work, or about to be, no sync emits.               *)
LEMMA NoSyncEmits ==
  ASSUME DropsHold, NEW w \in Worker, worker[w] # IdleWorker \/ NobodyAtWork, sync' = sync
  PROVE  ~Emitting /\ ~Emitting'
<1>1. \A y \in Sync : sync[y] = IdleSync
  BY DEF DropsHold, DropsInv, Alone, NobodyAtWork
<1> QED BY <1>1 DEF Emitting, IdleSync

(* A worker that has read nothing of a payment knows nothing to be wrong.  *)
LEMMA FreshTurn ==
  ASSUME DropsHold, NEW w \in Worker, NEW x, worker' = [worker EXCEPT ![w] = x],
         worker[w] # IdleWorker \/ NobodyAtWork, sync' = sync, AccountsOK',
         x = IdleWorker \/ (x.pc \notin Fetched /\ x.balance \in Nat /\ x.anchor \in Nat)
  PROVE  DropsInv'
<1>1. worker'[w] = x
  BY DEF DropsHold, DropsInv, Alone
<1>2. WorkerKnows(w)'
  BY <1>1 DEF WorkerKnows
<1> QED BY <1>2, WorkerTurn

(* The worker w comes to step pc of the payment it is at, with what it     *)
(* knows of the balance and the anchor.                                    *)
ComesTo(w, pc, balance, anchor) ==
  \E x : /\ worker' = [worker EXCEPT ![w] = x]
         /\ x.pc = pc /\ x.balance = balance /\ x.anchor = anchor
         /\ x.row = worker[w].row /\ x.entity = worker[w].entity

LEMMA ContinueComes ==
  ASSUME WorkersOK, NEW w \in Worker, worker[w] # IdleWorker,
         NEW pc, NEW balance, NEW anchor,
         worker' = [worker EXCEPT ![w] =
           [worker[w] EXCEPT !.pc = pc, !.balance = balance, !.anchor = anchor]]
  PROVE  ComesTo(w, pc, balance, anchor)
<1>1. DOMAIN worker[w] = {"pc", "batch", "row", "entity", "balance", "anchor"}
  BY DEF WorkersOK, WorkerOK
<1>2. PICK x : x = [worker[w] EXCEPT !.pc = pc, !.balance = balance, !.anchor = anchor]
  OBVIOUS
<1>3. /\ x.pc = pc /\ x.balance = balance /\ x.anchor = anchor
      /\ x.row = worker[w].row /\ x.entity = worker[w].entity
  BY <1>1, <1>2
<1> QED BY <1>2, <1>3 DEF ComesTo

LEMMA ContinuePcComes ==
  ASSUME WorkersOK, NEW w \in Worker, worker[w] # IdleWorker, NEW pc, Continue(w, pc)
  PROVE  ComesTo(w, pc, worker[w].balance, worker[w].anchor)
<1>1. DOMAIN worker[w] = {"pc", "batch", "row", "entity", "balance", "anchor"}
      /\ w \in DOMAIN worker
  BY DEF WorkersOK, WorkerOK
<1>2. PICK x : x = [worker[w] EXCEPT !.pc = pc]
  OBVIOUS
<1>3. /\ x.pc = pc /\ x.balance = worker[w].balance /\ x.anchor = worker[w].anchor
      /\ x.row = worker[w].row /\ x.entity = worker[w].entity
  BY <1>1, <1>2
<1>4. worker' = [worker EXCEPT ![w] = x]
  BY <1>1, <1>2 DEF Continue
<1> QED BY <1>3, <1>4 DEF ComesTo

(* A turn at a payment: what the worker knows holds of the new accounts.   *)
LEMMA PaymentTurn ==
  ASSUME DropsHold, NEW w \in Worker, worker[w] # IdleWorker,
         worker[w].pc \notin {"done", "failed"}, UNCHANGED <<sync, queue>>, AccountsOK',
         NEW pc, NEW balance \in Nat, NEW anchor \in Nat, ComesTo(w, pc, balance, anchor),
         NEW i, i = InvoiceAtWork(w), WorkerReads(pc, balance, anchor, i)'
  PROVE  DropsInv'
<1>1. PICK x : /\ worker' = [worker EXCEPT ![w] = x]
               /\ x.pc = pc /\ x.balance = balance /\ x.anchor = anchor
               /\ x.row = worker[w].row /\ x.entity = worker[w].entity
  BY DEF ComesTo
<1>2. worker'[w] = x
  BY <1>1 DEF DropsHold, DropsInv, Alone
<1>3. InvoiceAtWork(w)' = i
  BY <1>1, <1>2 DEF InvoiceAtWork, PaymentAtWork, PaymentsAtWork, RowAtWork
<1>4. WorkerKnows(w)'
  BY <1>1, <1>2, <1>3 DEF WorkerKnows
<1> QED BY <1>1, <1>4, WorkerTurn

(* A worker that goes on to its next payment, or to the mark-back.         *)
LEMMA NextPaymentTurn ==
  ASSUME DropsHold, NEW w \in Worker, worker[w] # IdleWorker, NextPayment(w),
         sync' = sync, AccountsOK'
  PROVE  DropsInv'
<1>1. /\ DOMAIN worker[w] = {"pc", "batch", "row", "entity", "balance", "anchor"}
      /\ w \in DOMAIN worker
  BY DEF DropsHold, OutreachInv, WorkersOK, WorkerOK
<1>2. PICK x : /\ worker' = [worker EXCEPT ![w] = x] /\ x.pc \in {"done", "fetch"}
               /\ x.balance = worker[w].balance /\ x.anchor = worker[w].anchor
  <2>1. CASE Continue(w, "done")
    <3>1. PICK x : x = [worker[w] EXCEPT !.pc = "done"]
      OBVIOUS
    <3>2. /\ x.pc = "done" /\ x.balance = worker[w].balance /\ x.anchor = worker[w].anchor
      BY <1>1, <3>1
    <3>3. worker' = [worker EXCEPT ![w] = x]
      BY <1>1, <2>1, <3>1 DEF Continue
    <3> QED BY <3>2, <3>3
  <2>2. CASE worker' = [worker EXCEPT ![w].pc = "fetch", ![w].entity = @ + 1]
    <3>1. PICK x : x = [worker[w] EXCEPT !.pc = "fetch", !.entity = worker[w].entity + 1]
      OBVIOUS
    <3>2. /\ x.pc = "fetch" /\ x.balance = worker[w].balance /\ x.anchor = worker[w].anchor
      BY <1>1, <3>1
    <3>3. worker' = [worker EXCEPT ![w] = x]
      BY <1>1, <2>2, <3>1
    <3> QED BY <3>2, <3>3
  <2> QED BY <2>1, <2>2 DEF NextPayment
<1>3. x.pc \notin Fetched /\ x.balance \in Nat /\ x.anchor \in Nat
  BY <1>2 DEF DropsHold, DropsInv, WorkerKnows, Fetched
<1> QED BY <1>2, <1>3, FreshTurn

(* A worker at the first payment of a row has read nothing.                *)
LEMMA AtRowFresh ==
  ASSUME NEW batch, NEW k, NEW x, x = AtRow(batch, k)
  PROVE  x.pc \notin Fetched /\ x.balance \in Nat /\ x.anchor \in Nat
BY DEF AtRow, Fetched

(* A worker between two rows, or done, holds no reading.                   *)
LEMMA NextRowTurn ==
  ASSUME DropsHold, NEW w \in Worker, worker[w] # IdleWorker, NextRow(w),
         sync' = sync, AccountsOK'
  PROVE  DropsInv'
<1>1. w \in DOMAIN worker
  BY DEF DropsHold, DropsInv, Alone
<1>2. CASE worker' = [worker EXCEPT ![w] = IdleWorker]
  BY <1>2, FreshTurn
<1>3. CASE worker' # [worker EXCEPT ![w] = IdleWorker]
  <2> DEFINE rest == {k \in DOMAIN worker[w].batch : k > RowAtWork(w)}
  <2>1. PICK k \in rest :
          worker' = [worker EXCEPT ![w] = AtRow([j \in rest |-> worker[w].batch[j]], k)]
    BY <1>1, <1>3 DEF NextRow
  <2>2. PICK x : x = AtRow([j \in rest |-> worker[w].batch[j]], k)
    OBVIOUS
  <2>3. x.pc \notin Fetched /\ x.balance \in Nat /\ x.anchor \in Nat
    BY <2>2, AtRowFresh
  <2> QED BY <2>1, <2>2, <2>3, FreshTurn
<1> QED BY <1>2, <1>3

(* The accounts stay well when they do not move.                           *)
LEMMA AccountsUntouched ==
  ASSUME DropsHold, NEW w \in Worker, worker[w] # IdleWorker \/ NobodyAtWork,
         UNCHANGED <<qbo, invoice, drops, opening, sync>>,
         stops' = stops \/ stops' = stops + 1
  PROVE  AccountsOK' /\ \A i \in Invoice : SameAccount(i)
<1>1. AccountsOK /\ stops' \in Nat /\ (stops' = 0 => stops = 0)
  BY DEF DropsHold, DropsInv, AccountsOK
<1>2. \A i \in Invoice : SameAccount(i)
  BY <1>1, AccountsStay
<1> QED BY <1>1, <1>2, NoSyncEmits, AccountsOKNext DEF AccountsOK

-----------------------------------------------------------------------------
(* The steps of a worker.                                                  *)

LEMMA ClaimTurn ==
  ASSUME DropsHold, OneAtATime, NEW w \in Worker, ClaimBatch(w)
  PROVE  DropsInv'
<1>1. NobodyAtWork /\ UNCHANGED <<qbo, invoice, drops, opening, sync, stops>>
  BY DEF ClaimBatch, bookVars, outcomes
<1>2. PICK batch, k : worker' = [worker EXCEPT ![w] = AtRow(batch, k)]
  BY DEF ClaimBatch
<1>3. PICK x : x = AtRow(batch, k)
  OBVIOUS
<1>4. AccountsOK'
  BY <1>1, AccountsUntouched
<1> QED BY <1>1, <1>2, <1>3, <1>4, AtRowFresh, FreshTurn

(* A turn that only reads: what it read holds.                             *)
LEMMA ReadingTurn ==
  ASSUME DropsHold, NEW w \in Worker, worker[w] # IdleWorker,
         worker[w].pc \notin {"done", "failed"},
         UNCHANGED <<qbo, invoice, drops, opening, sync, stops, queue>>,
         NEW pc, NEW balance \in Nat, NEW anchor \in Nat, ComesTo(w, pc, balance, anchor),
         NEW i, i = InvoiceAtWork(w), WorkerReads(pc, balance, anchor, i)
  PROVE  DropsInv'
<1>1. AccountsOK' /\ \A j \in Invoice : SameAccount(j)
  BY AccountsUntouched
<1>2. i \in Invoice
  BY InvoiceAtWorkIs DEF DropsHold, OutreachInv
<1>3. AccountShape(i)
  BY <1>2 DEF DropsHold, DropsInv, AccountsOK, AccountOK
<1>4. WorkerReads(pc, balance, anchor, i)'
  BY <1>1, <1>2, <1>3, WorkerReadsOn
<1> QED BY <1>1, <1>4, PaymentTurn

(* What a worker at a payment knows.                                       *)
LEMMA AtPayment ==
  ASSUME DropsHold, NEW w \in Worker, worker[w] # IdleWorker,
         worker[w].pc \notin {"done", "failed"}
  PROVE  /\ InvoiceAtWork(w) \in Invoice /\ AccountOK(InvoiceAtWork(w))
         /\ w \in DOMAIN worker /\ WorkersOK
         /\ DOMAIN worker[w] = {"pc", "batch", "row", "entity", "balance", "anchor"}
         /\ worker[w].balance \in Nat /\ worker[w].anchor \in Nat
         /\ worker[w].pc \in Fetched =>
              WorkerReads(worker[w].pc, worker[w].balance, worker[w].anchor,
                          InvoiceAtWork(w))
<1>1. InvoiceAtWork(w) \in Invoice
  BY InvoiceAtWorkIs DEF DropsHold, OutreachInv
<1>2. AccountOK(InvoiceAtWork(w))
  BY <1>1 DEF DropsHold, DropsInv, AccountsOK
<1>3. WorkerKnows(w) /\ WorkersOK
  BY DEF DropsHold, DropsInv, OutreachInv
<1> QED BY <1>1, <1>2, <1>3 DEF WorkerKnows, WorkersOK, WorkerOK

(* What QuickBooks says is no more than any recorded fall ended at.        *)
LEMMA FetchTurn ==
  ASSUME DropsHold, NEW w \in Worker, Fetch(w)
  PROVE  DropsInv'
<1>1. PICK i, b, a : i = InvoiceAtWork(w) /\ b = Balance(i) /\ a = worker[w].anchor
  OBVIOUS
<1>2. /\ worker[w].pc = "fetch" /\ worker[w] # IdleWorker
      /\ UNCHANGED <<qbo, invoice, drops, opening, sync, stops, queue>>
  BY DEF Fetch, bookVars, outcomes, IdleWorker
<1>3. /\ AccountOK(i) /\ a \in Nat /\ w \in DOMAIN worker /\ WorkersOK
      /\ DOMAIN worker[w] = {"pc", "batch", "row", "entity", "balance", "anchor"}
  BY <1>1, <1>2, AtPayment
<1>4. b \in Nat
  BY <1>1, <1>3 DEF AccountOK, AccountShape
<1>5. ComesTo(w, "gates", b, a)
  <2>1. worker' = [worker EXCEPT ![w] = [worker[w] EXCEPT !.pc = "gates", !.balance = b]]
    BY <1>1, <1>3 DEF Fetch, FetchedBalance
  <2>2. [worker[w] EXCEPT !.pc = "gates", !.balance = b] =
          [worker[w] EXCEPT !.pc = "gates", !.balance = b, !.anchor = a]
    BY <1>1, <1>3
  <2>3. worker' = [worker EXCEPT ![w] =
          [worker[w] EXCEPT !.pc = "gates", !.balance = b, !.anchor = a]]
    BY <2>1, <2>2
  <2> QED BY <1>2, <1>3, <2>3, ContinueComes
<1>6. WorkerReads("gates", b, a, i)
  BY <1>1, <1>3, <1>4 DEF WorkerReads, AccountOK, AccountShape
<1> QED BY <1>1, <1>2, <1>3, <1>4, <1>5, <1>6, ReadingTurn

(* Between its fetch and its reads of the invoice nothing is forgotten.    *)
LEMMA GoesOnKnowing ==
  ASSUME DropsHold, NEW w \in Worker, worker[w].pc \in {"gates", "insert"},
         NEW pc \in {"insert", "invoice"}, Continue(w, pc),
         UNCHANGED <<qbo, invoice, drops, opening, sync, stops, queue>>
  PROVE  DropsInv'
<1>1. PICK i, b, a : i = InvoiceAtWork(w) /\ b = worker[w].balance /\ a = worker[w].anchor
  OBVIOUS
<1>2. worker[w] # IdleWorker /\ worker[w].pc \notin {"done", "failed"}
      /\ worker[w].pc \in Fetched
  BY DEF IdleWorker, Fetched
<1>3. /\ WorkersOK /\ b \in Nat /\ a \in Nat
      /\ WorkerReads(worker[w].pc, b, a, i)
  BY <1>1, <1>2, AtPayment
<1>4. ComesTo(w, pc, b, a)
  BY <1>1, <1>2, <1>3, ContinuePcComes
<1>5. WorkerReads(pc, b, a, i)
  BY <1>2, <1>3 DEF WorkerReads, Fetched
<1> QED BY <1>1, <1>2, <1>3, <1>4, <1>5, ReadingTurn

(* The gates read and write nothing of the accounts.                       *)
LEMMA PassGatesTurn ==
  ASSUME DropsHold, NEW w \in Worker, PassGates(w)
  PROVE  DropsInv'
<1>1. /\ worker[w].pc = "gates" /\ worker[w] # IdleWorker
      /\ UNCHANGED <<qbo, invoice, drops, opening, sync, stops, queue>>
  BY DEF PassGates, bookVars, outcomes, IdleWorker
<1>2. CASE NextPayment(w)
  <2>1. AccountsOK'
    BY <1>1, AccountsUntouched
  <2> QED BY <1>1, <1>2, <2>1, NextPaymentTurn
<1>3. CASE ~NextPayment(w)
  <2>1. PICK pc \in {"insert", "invoice"} : Continue(w, pc)
    BY <1>3 DEF PassGates
  <2> QED BY <1>1, <2>1, GoesOnKnowing
<1> QED BY <1>2, <1>3

(* Nor does the insert of a fee.                                           *)
LEMMA InsertLedgerRowTurn ==
  ASSUME DropsHold, NEW w \in Worker, InsertLedgerRow(w)
  PROVE  DropsInv'
BY GoesOnKnowing DEF InsertLedgerRow, bookVars

(* The invoice read: a blank one ends the reconcile.                       *)
LEMMA ReadInvoiceTurn ==
  ASSUME DropsHold, NEW w \in Worker, ReadInvoice(w)
  PROVE  DropsInv'
<1>1. /\ worker[w].pc = "invoice" /\ worker[w] # IdleWorker
      /\ UNCHANGED <<qbo, invoice, drops, opening, sync, stops, queue>>
  BY DEF ReadInvoice, bookVars, outcomes, IdleWorker
<1>2. PICK i, b, a : i = InvoiceAtWork(w) /\ b = worker[w].balance
                     /\ a = invoice[i].outstanding
  OBVIOUS
<1>3. CASE ~invoice[i].synced
  <2>1. AccountsOK'
    BY <1>1, AccountsUntouched
  <2>2. NextPayment(w)
    BY <1>2, <1>3 DEF ReadInvoice
  <2> QED BY <1>1, <2>1, <2>2, NextPaymentTurn
<1>4. CASE invoice[i].synced
  <2>1. /\ AccountOK(i) /\ b \in Nat /\ w \in DOMAIN worker /\ WorkersOK
        /\ DOMAIN worker[w] = {"pc", "batch", "row", "entity", "balance", "anchor"}
    BY <1>1, <1>2, AtPayment
  <2>2. a \in Nat
    BY <1>2, <2>1, AccountNumbers DEF AccountOK
  <2>3. WorkerReads("invoice", b, worker[w].anchor, i)
    BY <1>1, <1>2, AtPayment DEF Fetched
  <2>4. ComesTo(w, "anchor", b, a)
    <3>1. worker' = [worker EXCEPT ![w] = [worker[w] EXCEPT !.pc = "anchor", !.anchor = a]]
      BY <1>2, <1>4, <2>1 DEF ReadInvoice
    <3>2. [worker[w] EXCEPT !.pc = "anchor", !.anchor = a] =
            [worker[w] EXCEPT !.pc = "anchor", !.balance = b, !.anchor = a]
      BY <1>2, <2>1
    <3>3. worker' = [worker EXCEPT ![w] =
            [worker[w] EXCEPT !.pc = "anchor", !.balance = b, !.anchor = a]]
      BY <3>1, <3>2
    <3> QED BY <1>1, <2>1, <3>3, ContinueComes
  <2>5. WorkerReads("anchor", b, a, i)
    BY <1>2, <1>4, <2>3 DEF WorkerReads, Fetched
  <2> QED BY <1>1, <1>2, <2>1, <2>2, <2>4, <2>5, ReadingTurn
<1> QED BY <1>3, <1>4

(* The worker measures from where the last fall ended.                     *)
LEMMA ReadAnchorTurn ==
  ASSUME DropsHold, ~BestEffortFails, NEW w \in Worker, ReadAnchor(w)
  PROVE  DropsInv'
<1>1. /\ worker[w].pc = "anchor" /\ worker[w] # IdleWorker
      /\ UNCHANGED <<qbo, invoice, drops, opening, sync, stops, queue>>
  BY DEF ReadAnchor, bookVars, outcomes, IdleWorker
<1>2. PICK i, b, a : i = InvoiceAtWork(w) /\ b = worker[w].balance /\ a = Mark(i)
  OBVIOUS
<1>3. /\ AccountOK(i) /\ b \in Nat /\ w \in DOMAIN worker /\ WorkersOK
      /\ DOMAIN worker[w] = {"pc", "batch", "row", "entity", "balance", "anchor"}
  BY <1>1, <1>2, AtPayment
<1>4. a \in Nat
  BY <1>2, <1>3, AccountNumbers DEF AccountOK
<1>5. WorkerReads("anchor", b, worker[w].anchor, i)
  BY <1>1, <1>2, AtPayment DEF Fetched
<1>6. a = IF drops[i] = <<>> THEN worker[w].anchor ELSE Last(drops[i]).new
  BY <1>2, <1>5 DEF WorkerReads, Mark
<1>7. ComesTo(w, "emit", b, a)
  <2>1. worker' = [worker EXCEPT ![w] = [worker[w] EXCEPT !.pc = "emit", !.anchor = a]]
    BY <1>2, <1>3, <1>6 DEF ReadAnchor
  <2>2. [worker[w] EXCEPT !.pc = "emit", !.anchor = a] =
          [worker[w] EXCEPT !.pc = "emit", !.balance = b, !.anchor = a]
    BY <1>2, <1>3
  <2>3. worker' = [worker EXCEPT ![w] =
          [worker[w] EXCEPT !.pc = "emit", !.balance = b, !.anchor = a]]
    BY <2>1, <2>2
  <2> QED BY <1>1, <1>3, <2>3, ContinueComes
<1>8. WorkerReads("emit", b, a, i)
  BY <1>2, <1>5 DEF WorkerReads, Fetched
<1> QED BY <1>1, <1>2, <1>3, <1>4, <1>7, <1>8, ReadingTurn

(* Only the account of i moves.                                            *)
LEMMA OneAccountMoves ==
  ASSUME AccountsOK, NEW i, AccountOK(i)',
         \A j \in Invoice : j # i => SameAccount(j),
         DOMAIN invoice' = Invoice, DOMAIN drops' = Invoice, DOMAIN opening' = Invoice,
         stops' \in Nat, stops' = 0 /\ ~Emitting' => stops = 0 /\ ~Emitting
  PROVE  AccountsOK'
<1>1. ASSUME NEW j \in Invoice
      PROVE  AccountOK(j)'
  <2>1. CASE j = i
    BY <2>1
  <2>2. CASE j # i
    <3>1. AccountOK(j)
      BY DEF AccountsOK
    <3> QED BY <2>2, <3>1, SameAccountOK
  <2> QED BY <2>1, <2>2
<1> QED BY <1>1 DEF AccountsOK

(* A fall that is recorded from the mark moves the mark to where it ends.  *)
LEMMA FallRecorded ==
  ASSUME NEW i, AccountOK(i), ~Emitting, NEW a, NEW b \in Nat, a = Mark(i), b <= a,
         invoice[i].synced, Balance(i) <= b, stops' = stops,
         invoice'[i] = invoice[i], opening'[i] = opening[i], Balance(i)' = Balance(i),
         drops'[i] = WithDrop(drops[i], a, b)
  PROVE  AccountOK(i)' /\ Mark(i)' = b
<1>1. AccountShape(i)
  BY DEF AccountOK
<1>2. /\ Recovery(drops[i]) \in Int /\ a \in Nat
      /\ invoice[i].outstanding \in Nat /\ opening[i] \in Nat /\ Balance(i) \in Nat
      /\ drops[i] \in Seq(Drop)
  BY <1>1, AccountNumbers DEF AccountShape
<1>3. PICK q, r, R, S : /\ q = drops[i] /\ r = drops'[i]
                        /\ R = Recovery(q) /\ S = Recovery(r)
  OBVIOUS
<1>4. /\ r \in Seq(Drop) /\ R \in Int /\ S \in Int
      /\ S + b = R + a /\ S >= R
      /\ (r # <<>> /\ Last(r).new = b) \/ (r = q /\ a = b)
  <2>1. q \in Seq(Drop) /\ r = WithDrop(q, a, b) /\ a \in Nat
    BY <1>2, <1>3
  <2>2. Fell(q, r, a, b)
    BY <2>1, WithDropRecovers
  <2> QED BY <1>3, <2>2 DEF Fell
<1>5. Mark(i)' = b
  <2>1. CASE r # <<>> /\ Last(r).new = b
    BY <1>3, <2>1 DEF Mark
  <2>2. CASE r = q /\ a = b
    BY <1>3, <2>2 DEF Mark
  <2> QED BY <1>4, <2>1, <2>2
<1>6. Recovery(drops[i])' = S
  BY <1>3
<1>7. AccountShape(i)'
  BY <1>1, <1>3, <1>4 DEF AccountShape
<1>8. R + a <= opening[i]
      /\ (stops = 0 => invoice[i].outstanding + R >= opening[i] /\ a + R >= opening[i])
  BY <1>3 DEF AccountOK
<1>9. S + b <= opening[i]
      /\ (stops = 0 => invoice[i].outstanding + S >= opening[i] /\ b + S >= opening[i])
  <2>1. PICK o, u : o = opening[i] /\ u = invoice[i].outstanding
    OBVIOUS
  <2>2. o \in Nat /\ u \in Nat /\ a \in Nat /\ R \in Int /\ S \in Int
        /\ S + b = R + a /\ S >= R
    BY <1>2, <1>4, <2>1
  <2>3. S + b <= o
    BY <1>8, <2>1, <2>2
  <2>4. ASSUME stops = 0
        PROVE  u + S >= o /\ b + S >= o
    <3>1. u + R >= o /\ a + R >= o
      BY <1>8, <2>1, <2>4
    <3> QED BY <2>2, <3>1
  <2> QED BY <2>1, <2>3, <2>4
<1>10. invoice[i].synced'
  OBVIOUS
<1>11. Balance(i)' <= b
  OBVIOUS
<1>12. opening'[i] = opening[i] /\ invoice'[i].outstanding = invoice[i].outstanding
  OBVIOUS
<1>13. AccountOK(i)'
  <2>1. (Recovery(drops[i]) + Mark(i) <= opening[i] /\ Balance(i) <= Mark(i))'
    BY <1>5, <1>6, <1>9, <1>11, <1>12
  <2>2. stops' = 0 =>
          (/\ invoice[i].outstanding + Recovery(drops[i]) >= opening[i]
           /\ Mark(i) + Recovery(drops[i]) >= opening[i])'
    BY <1>5, <1>6, <1>9, <1>12
  <2> QED BY <1>7, <1>10, <2>1, <2>2 DEF AccountOK
<1> QED BY <1>5, <1>13

(* The fall is recorded, once, from the mark to what was fetched.          *)
LEMMA EmitDropTurn ==
  ASSUME DropsHold, NEW w \in Worker, EmitDrop(w)
  PROVE  DropsInv'
<1>1. /\ worker[w].pc = "emit" /\ worker[w] # IdleWorker
      /\ UNCHANGED <<qbo, invoice, opening, sync, stops, queue>>
      /\ Continue(w, "update")
  BY DEF EmitDrop, bookVars, IdleWorker
<1>2. PICK i, b, a : i = InvoiceAtWork(w) /\ b = worker[w].balance /\ a = worker[w].anchor
  OBVIOUS
<1>3. /\ i \in Invoice /\ AccountOK(i) /\ b \in Nat /\ a \in Nat /\ WorkersOK
      /\ WorkerReads("emit", b, a, i)
  BY <1>1, <1>2, AtPayment DEF Fetched
<1>4. ~Emitting /\ ~Emitting'
  BY <1>1, NoSyncEmits
<1>5. AccountsOK
  BY DEF DropsHold, DropsInv
<1>6. /\ drops'[i] = WithDrop(drops[i], a, b) /\ DOMAIN drops' = Invoice
      /\ \A j \in Invoice : j # i => drops'[j] = drops[j]
  BY <1>2, <1>3, <1>5 DEF EmitDrop, AccountsOK
<1>7. /\ invoice[i].synced /\ a = Mark(i) /\ b <= a /\ Balance(i) <= b
  BY <1>3 DEF WorkerReads, Fetched
<1>8. AccountOK(i)' /\ Mark(i)' = b
  <2>1. Balance(i)' = Balance(i)
    BY <1>1, BalanceStays
  <2> QED BY <1>1, <1>3, <1>4, <1>6, <1>7, <2>1, FallRecorded
<1>9. AccountsOK'
  <2>1. ASSUME NEW j \in Invoice, j # i
        PROVE  SameAccount(j)
    <3>1. AccountShape(j) /\ Balance(j)' = Balance(j)
      BY <1>1, <1>5, BalanceStays DEF AccountsOK, AccountOK
    <3> QED BY <1>1, <1>6, <2>1, <3>1, AccountNumbers DEF SameAccount, AccountShape
  <2> QED BY <1>1, <1>4, <1>5, <1>6, <1>8, <2>1, OneAccountMoves DEF AccountsOK
<1>10. WorkerReads("update", b, a, i)'
  <2>1. Balance(i)' = Balance(i) /\ Balance(i) \in Nat /\ invoice'[i].synced
    BY <1>1, <1>3, <1>7, BalanceStays DEF AccountOK, AccountShape
  <2> QED BY <1>3, <1>7, <1>8, <2>1 DEF WorkerReads
<1>11. ComesTo(w, "update", b, a)
  BY <1>1, <1>2, <1>3, ContinuePcComes
<1> QED BY <1>1, <1>2, <1>3, <1>9, <1>10, <1>11, PaymentTurn

(* The invoice is brought to where its last fall ended.                    *)
LEMMA UpdateInvoiceTurn ==
  ASSUME DropsHold, NEW w \in Worker, UpdateInvoice(w)
  PROVE  DropsInv'
<1>1. /\ worker[w].pc = "update" /\ worker[w] # IdleWorker
      /\ UNCHANGED <<qbo, drops, opening, sync, stops, queue>>
      /\ NextPayment(w)
  BY DEF UpdateInvoice, bookVars, IdleWorker
<1>2. PICK i, b, a : i = InvoiceAtWork(w) /\ b = worker[w].balance /\ a = worker[w].anchor
  OBVIOUS
<1>3. /\ i \in Invoice /\ AccountOK(i) /\ b \in Nat
      /\ WorkerReads("update", b, a, i)
  BY <1>1, <1>2, AtPayment DEF Fetched
<1>4. ~Emitting /\ ~Emitting'
  BY <1>1, NoSyncEmits
<1>5. AccountsOK
  BY DEF DropsHold, DropsInv
<1>6. AccountShape(i) /\ invoice[i] \in InvoiceRow
  BY <1>3 DEF AccountOK, AccountShape
<1>7. /\ invoice' = [invoice EXCEPT ![i].outstanding = b] /\ DOMAIN invoice' = Invoice
      /\ \A j \in Invoice : j # i => invoice'[j] = invoice[j]
  BY <1>2, <1>3, <1>5 DEF UpdateInvoice, AccountsOK
<1>8. /\ invoice'[i] \in InvoiceRow /\ invoice'[i].outstanding = b
      /\ invoice'[i].synced = invoice[i].synced
  BY <1>3, <1>5, <1>6, <1>7 DEF AccountsOK, InvoiceRow
<1>9. invoice[i].synced /\ b = Mark(i)
  BY <1>3 DEF WorkerReads, Fetched
<1>10. AccountOK(i)'
  <2>1. Mark(i)' = Mark(i)
    BY <1>1, <1>8, <1>9 DEF Mark
  <2>2. Balance(i)' = Balance(i) /\ AccountShape(i)'
    BY <1>1, <1>6, <1>8, BalanceStays DEF AccountShape
  <2>3. Recovery(drops[i])' = Recovery(drops[i]) /\ opening'[i] = opening[i]
    BY <1>1
  <2> QED BY <1>1, <1>3, <1>4, <1>6, <1>8, <1>9, <2>1, <2>2, <2>3, AccountNumbers
        DEF AccountOK
<1>11. AccountsOK'
  <2>1. ASSUME NEW j \in Invoice, j # i
        PROVE  SameAccount(j)
    <3>1. AccountShape(j) /\ Balance(j)' = Balance(j)
      BY <1>1, <1>5, BalanceStays DEF AccountsOK, AccountOK
    <3> QED BY <1>1, <1>7, <2>1, <3>1, AccountNumbers DEF SameAccount, AccountShape
  <2> QED BY <1>1, <1>4, <1>5, <1>7, <1>10, <2>1, OneAccountMoves DEF AccountsOK
<1> QED BY <1>1, <1>11, NextPaymentTurn

(* A throw leaves a recorded fall behind, and the retry measures from it.  *)
LEMMA RowThrowsTurn ==
  ASSUME DropsHold, NEW w \in Worker, RowThrows(w)
  PROVE  DropsInv'
<1>1. /\ worker[w].pc \notin {"done", "failed"} /\ worker[w] # IdleWorker
      /\ UNCHANGED <<qbo, invoice, drops, opening, sync, stops, queue>>
      /\ Continue(w, "failed")
  BY DEF RowThrows, bookVars, outcomes, IdleWorker
<1>2. PICK i, b, a : i = InvoiceAtWork(w) /\ b = worker[w].balance /\ a = worker[w].anchor
  OBVIOUS
<1>3. AccountsOK'
  BY <1>1, AccountsUntouched
<1>4. WorkersOK /\ b \in Nat /\ a \in Nat
  BY <1>1, <1>2, AtPayment
<1>5. ComesTo(w, "failed", b, a)
  BY <1>1, <1>2, <1>4, ContinuePcComes
<1>6. PICK x : worker' = [worker EXCEPT ![w] = x] /\ x.pc = "failed"
               /\ x.balance = b /\ x.anchor = a
  BY <1>5 DEF ComesTo
<1>7. x.pc \notin Fetched
  BY <1>6 DEF Fetched
<1> QED BY <1>1, <1>3, <1>4, <1>6, <1>7, FreshTurn

(* The mark-backs leave the accounts alone, and so does a death.           *)
LEMMA MarkTurn ==
  ASSUME DropsHold, NEW w \in Worker,
         MarkDone(w) \/ MarkFailed(w) \/ MarkLost(w)
  PROVE  DropsInv'
<1>1. /\ worker[w] # IdleWorker /\ NextRow(w)
      /\ UNCHANGED <<qbo, invoice, drops, opening, sync>>
      /\ stops' = stops \/ stops' = stops + 1
  BY DEF MarkDone, MarkFailed, MarkLost, bookVars, outcomes, IdleWorker
<1>2. AccountsOK'
  BY <1>1, AccountsUntouched
<1> QED BY <1>1, <1>2, NextRowTurn

(* A death is counted as a stop.                                           *)
LEMMA WorkerDiesTurn ==
  ASSUME DropsHold, NEW w \in Worker, WorkerDies(w)
  PROVE  DropsInv'
<1>1. /\ worker[w] # IdleWorker /\ worker' = [worker EXCEPT ![w] = IdleWorker]
      /\ UNCHANGED <<qbo, invoice, drops, opening, sync>> /\ stops' = stops + 1
  BY DEF WorkerDies, bookVars, outcomes
<1>2. AccountsOK'
  BY <1>1, AccountsUntouched
<1> QED BY <1>1, <1>2, FreshTurn

-----------------------------------------------------------------------------
(* The steps of a sync.                                                    *)

(* One sync's turn: nobody else is at work.                                *)
LEMMA SyncTurn ==
  ASSUME DropsHold, NEW y \in Sync, NEW x, sync' = [sync EXCEPT ![y] = x],
         sync[y] # IdleSync \/ NobodyAtWork, worker' = worker, AccountsOK',
         x = IdleSync \/ (x \in Syncing /\ \A i \in Invoice : SyncReads(x, i)')
  PROVE  DropsInv'
<1> USE DEF DropsHold, DropsInv
<1>1. /\ DOMAIN sync' = Sync /\ \A z \in Sync : z # y => sync'[z] = IdleSync
      /\ \A w \in Worker : worker'[w] = IdleWorker
      /\ sync'[y] = x
  BY DEF Alone, NobodyAtWork
<1>2. Alone'
  BY <1>1 DEF Alone
<1>3. \A w \in Worker : WorkerKnows(w)'
  BY <1>1 DEF WorkerKnows
<1>4. \A z \in Sync : SyncKnows(z)'
  BY <1>1 DEF SyncKnows
<1> QED BY <1>2, <1>3, <1>4

(* The accounts do not move, and the sync did not owe them its drops,      *)
(* unless it is stopped.                                                   *)
LEMMA SyncLeavesAccounts ==
  ASSUME DropsHold, NEW y \in Sync, sync[y] # IdleSync \/ NobodyAtWork,
         UNCHANGED <<qbo, invoice, drops, opening>>,
         (sync[y].pc # "emit" /\ stops' = stops) \/ stops' = stops + 1
  PROVE  AccountsOK' /\ \A i \in Invoice : SameAccount(i)
<1>1. AccountsOK /\ stops \in Nat
  BY DEF DropsHold, DropsInv, AccountsOK
<1>2. \A i \in Invoice : SameAccount(i)
  BY <1>1, AccountsStay
<1>3. ASSUME sync[y].pc # "emit"
      PROVE  ~Emitting
  <2>1. \A z \in Sync : z # y => sync[z] = IdleSync
    BY DEF DropsHold, DropsInv, Alone, NobodyAtWork
  <2> QED BY <1>3, <2>1 DEF Emitting, IdleSync
<1>4. stops' \in Nat /\ (stops' = 0 => stops = 0 /\ ~Emitting)
  BY <1>1, <1>3
<1>5. DOMAIN invoice' = Invoice /\ DOMAIN drops' = Invoice /\ DOMAIN opening' = Invoice
  BY <1>1 DEF AccountsOK
<1> QED BY <1>1, <1>2, <1>4, <1>5, AccountsOKNext

(* A sync that only reads: what it read holds.                             *)
LEMMA SyncReadingTurn ==
  ASSUME DropsHold, NEW y \in Sync, NEW x, sync' = [sync EXCEPT ![y] = x],
         sync[y] # IdleSync \/ NobodyAtWork, sync[y].pc # "emit",
         UNCHANGED <<qbo, invoice, drops, opening, worker, stops>>,
         x \in Syncing, \A i \in Invoice : SyncReads(x, i)
  PROVE  DropsInv'
<1>1. AccountsOK' /\ \A i \in Invoice : SameAccount(i)
  BY SyncLeavesAccounts
<1>2. ASSUME NEW i \in Invoice
      PROVE  SyncReads(x, i)'
  <2>1. x.balance[i] \in Nat /\ AccountShape(i)
    BY DEF Syncing, DropsHold, DropsInv, AccountsOK, AccountOK
  <2> QED BY <1>1, <2>1, SyncReadsOn
<1> QED BY <1>1, <1>2, SyncTurn

(* A sync starts from the balances as they are.                            *)
LEMMA ListInvoicesTurn ==
  ASSUME DropsHold, OneAtATime, NEW y \in Sync, ListInvoices(y)
  PROVE  DropsInv'
<1>1. PICK x : x = [pc |-> "invoices", balance |-> [i \in Invoice |-> Balance(i)],
                    anchor |-> [i \in Invoice |-> NoAnchor]]
  OBVIOUS
<1>2. /\ NobodyAtWork /\ sync[y].pc # "emit" /\ sync' = [sync EXCEPT ![y] = x]
      /\ UNCHANGED <<qbo, invoice, drops, opening, worker, stops>>
  BY <1>1 DEF ListInvoices, ListedBalances, SyncUnchanged, bookVars, outcomes, IdleSync
<1>3. \A i \in Invoice : AccountOK(i) /\ Balance(i) \in Nat
  BY DEF DropsHold, DropsInv, AccountsOK, AccountOK, AccountShape
<1>4. /\ x.pc = "invoices" /\ x.balance \in [Invoice -> Nat]
      /\ x.anchor \in [Invoice -> Nat \cup {NoAnchor}]
      /\ \A i \in Invoice : x.balance[i] = Balance(i)
  BY <1>1, <1>3
<1>5. x \in Syncing
  <2>1. x = [pc |-> x.pc, balance |-> x.balance, anchor |-> x.anchor]
    BY <1>1
  <2> QED BY <1>4, <2>1 DEF Syncing
<1>6. ASSUME NEW i \in Invoice
      PROVE  SyncReads(x, i)
  BY <1>3, <1>4 DEF SyncReads, AccountOK
<1> QED BY <1>2, <1>5, <1>6, SyncReadingTurn

(* What a sync at work knows.                                              *)
LEMMA AtSync ==
  ASSUME DropsHold, NEW y \in Sync, sync[y] # IdleSync
  PROVE  /\ sync[y] \in Syncing /\ \A i \in Invoice : SyncReads(sync[y], i)
         /\ y \in DOMAIN sync /\ DOMAIN sync[y] = {"pc", "balance", "anchor"}
         /\ \A i \in Invoice : AccountOK(i) /\ AccountShape(i) /\ sync[y].balance[i] \in Nat
<1>1. SyncKnows(y) /\ y \in DOMAIN sync /\ AccountsOK
  BY DEF DropsHold, DropsInv, Alone
<1>2. sync[y] \in Syncing /\ \A i \in Invoice : SyncReads(sync[y], i)
  BY <1>1 DEF SyncKnows
<1>3. sync[y].balance \in [Invoice -> Nat] /\ DOMAIN sync[y] = {"pc", "balance", "anchor"}
  BY <1>2 DEF Syncing
<1> QED BY <1>1, <1>2, <1>3 DEF AccountsOK, AccountOK

(* x is the sync y gone on to pc with anchors g.                           *)
GoneOn(x, y, pc, g) == x = [sync[y] EXCEPT !.pc = pc, !.anchor = g]

LEMMA SyncGoesOn ==
  ASSUME DropsHold, NEW y \in Sync, sync[y] # IdleSync,
         NEW pc \in {"anchors", "upsert", "emit"},
         NEW g \in [Invoice -> Nat \cup {NoAnchor}],
         NEW x, GoneOn(x, y, pc, g)
  PROVE  /\ x \in Syncing /\ x.pc = pc /\ x.balance = sync[y].balance /\ x.anchor = g
<1>1. /\ sync[y].balance \in [Invoice -> Nat]
      /\ DOMAIN sync[y] = {"pc", "balance", "anchor"}
  BY AtSync DEF Syncing
<1>2. x.pc = pc /\ x.balance = sync[y].balance /\ x.anchor = g
  BY <1>1 DEF GoneOn
<1>3. x = [pc |-> x.pc, balance |-> x.balance, anchor |-> x.anchor]
  BY <1>1 DEF GoneOn
<1> QED BY <1>1, <1>2, <1>3 DEF Syncing

(* Its base anchors are the stored amounts.                                *)
LEMMA ReadInvoicesTurn ==
  ASSUME DropsHold, ~BestEffortFails, NEW y \in Sync, ReadInvoices(y)
  PROVE  DropsInv'
<1>1. PICK g : g = [i \in Invoice |-> IF invoice[i].synced THEN invoice[i].outstanding
                                      ELSE NoAnchor]
  OBVIOUS
<1>2. PICK x : x = [sync[y] EXCEPT !.pc = "anchors", !.anchor = g]
  OBVIOUS
<1>3. /\ sync[y].pc = "invoices" /\ sync[y] # IdleSync
      /\ UNCHANGED <<qbo, invoice, drops, opening, worker, stops>>
  BY DEF ReadInvoices, SyncUnchanged, bookVars, outcomes, IdleSync
<1>4. y \in DOMAIN sync /\ \A i \in Invoice : invoice[i].outstanding \in Nat
  BY <1>3, AtSync, AccountNumbers
<1>5. g \in [Invoice -> Nat \cup {NoAnchor}]
  BY <1>1, <1>4
<1>6. /\ x \in Syncing /\ x.pc = "anchors" /\ x.balance = sync[y].balance /\ x.anchor = g
  <2>1. GoneOn(x, y, "anchors", g)
    BY <1>2 DEF GoneOn
  <2> QED BY <1>3, <1>5, <2>1, SyncGoesOn
<1>7. sync' = [sync EXCEPT ![y] = x]
  BY <1>1, <1>2, <1>4 DEF ReadInvoices
<1>8. ASSUME NEW i \in Invoice
      PROVE  SyncReads(x, i)
  <2>1. SyncReads(sync[y], i)
    BY <1>3, AtSync
  <2>2. g[i] = IF invoice[i].synced THEN invoice[i].outstanding ELSE NoAnchor
    BY <1>1
  <2> QED BY <1>3, <1>6, <2>1, <2>2 DEF SyncReads
<1> QED BY <1>3, <1>6, <1>7, <1>8, SyncReadingTurn

(* The last drop, where there is one, is the anchor.                       *)
LEMMA ReadLastDropsTurn ==
  ASSUME DropsHold, ~BestEffortFails, NEW y \in Sync, ReadLastDrops(y)
  PROVE  DropsInv'
<1>1. PICK f, g : /\ f = sync[y].anchor
                  /\ g = [i \in Invoice |->
                            IF f[i] = NoAnchor \/ drops[i] = <<>> THEN f[i]
                            ELSE Last(drops[i]).new]
  OBVIOUS
<1>2. PICK x : x = [sync[y] EXCEPT !.pc = "upsert", !.anchor = g]
  OBVIOUS
<1>3. /\ sync[y].pc = "anchors" /\ sync[y] # IdleSync
      /\ UNCHANGED <<qbo, invoice, drops, opening, worker, stops>>
  BY DEF ReadLastDrops, SyncUnchanged, bookVars, outcomes, IdleSync
<1>4. ASSUME NEW i \in Invoice
      PROVE  /\ g[i] = IF invoice[i].synced THEN Mark(i) ELSE NoAnchor
             /\ g[i] \in Nat \cup {NoAnchor}
  <2>1. SyncReads(sync[y], i) /\ AccountOK(i) /\ AccountShape(i)
    BY <1>3, AtSync
  <2>2. f[i] = IF invoice[i].synced THEN invoice[i].outstanding ELSE NoAnchor
    BY <1>1, <1>3, <2>1 DEF SyncReads
  <2>3. invoice[i].outstanding \in Nat /\ NoAnchor \notin Nat /\ Mark(i) \in Nat
    BY <2>1, AccountNumbers, CaptureAssumption
  <2>4. ~invoice[i].synced => drops[i] = <<>>
    BY <2>1 DEF AccountOK
  <2> QED BY <1>1, <2>2, <2>3, <2>4 DEF Mark
<1>5. g \in [Invoice -> Nat \cup {NoAnchor}]
  BY <1>1, <1>4
<1>6. /\ x \in Syncing /\ x.pc = "upsert" /\ x.balance = sync[y].balance /\ x.anchor = g
  <2>1. GoneOn(x, y, "upsert", g)
    BY <1>2 DEF GoneOn
  <2> QED BY <1>3, <1>5, <2>1, SyncGoesOn
<1>7. sync' = [sync EXCEPT ![y] = x]
  BY <1>1, <1>2, <1>3, AtSync DEF ReadLastDrops
<1>8. ASSUME NEW i \in Invoice
      PROVE  SyncReads(x, i)
  <2>1. SyncReads(sync[y], i)
    BY <1>3, AtSync
  <2> QED BY <1>3, <1>4, <1>6, <2>1 DEF SyncReads
<1> QED BY <1>3, <1>6, <1>7, <1>8, SyncReadingTurn

(* At the upsert the marks move only where nothing has been recorded: to   *)
(* the balance, which is no more than what was there before.               *)
LEMMA UpsertInvoicesTurn ==
  ASSUME DropsHold, NEW y \in Sync, UpsertInvoices(y)
  PROVE  DropsInv'
<1>1. PICK s, x : s = sync[y] /\ x = [sync[y] EXCEPT !.pc = "emit", !.anchor = sync[y].anchor]
  OBVIOUS
<1>2. /\ s.pc = "upsert" /\ s # IdleSync
      /\ UNCHANGED <<qbo, drops, worker, stops>>
  <2>1. sync[y].pc = "upsert" /\ UNCHANGED <<qbo, drops, worker, stops>>
    BY DEF UpsertInvoices, SyncUnchanged, bookVars
  <2> QED BY <1>1, <2>1 DEF IdleSync
<1>3. /\ s \in Syncing /\ y \in DOMAIN sync /\ DOMAIN s = {"pc", "balance", "anchor"}
      /\ \A i \in Invoice : /\ SyncReads(s, i) /\ s.balance[i] \in Nat
                            /\ AccountOK(i) /\ AccountShape(i)
  <2>1. sync[y] # IdleSync
    BY <1>1, <1>2
  <2>2. /\ sync[y] \in Syncing /\ \A i \in Invoice : SyncReads(sync[y], i)
        /\ y \in DOMAIN sync /\ DOMAIN sync[y] = {"pc", "balance", "anchor"}
        /\ \A i \in Invoice : AccountOK(i) /\ AccountShape(i) /\ sync[y].balance[i] \in Nat
    BY <2>1, AtSync
  <2> QED BY <1>1, <2>2
<1>4. /\ x \in Syncing /\ x.pc = "emit" /\ x.balance = s.balance /\ x.anchor = s.anchor
  <2>1. s.anchor \in [Invoice -> Nat \cup {NoAnchor}]
    BY <1>3 DEF Syncing
  <2>2. GoneOn(x, y, "emit", s.anchor)
    BY <1>1 DEF GoneOn
  <2> QED BY <1>1, <1>2, <2>1, <2>2, SyncGoesOn
<1>5. sync' = [sync EXCEPT ![y] = x]
  BY <1>1, <1>3 DEF UpsertInvoices
<1>6. sync'[y].pc = "emit" /\ Emitting' /\ ~Emitting
  <2>1. sync'[y] = x
    BY <1>3, <1>5
  <2>2. \A z \in Sync : z # y => sync[z] = IdleSync
    BY <1>1, <1>2 DEF DropsHold, DropsInv, Alone
  <2>3. sync'[y].pc = "emit"
    BY <1>4, <2>1
  <2>4. \A z \in Sync : sync[z].pc # "emit"
    BY <1>1, <1>2, <2>2 DEF IdleSync
  <2> QED BY <2>3, <2>4 DEF Emitting
<1>7. ASSUME NEW i \in Invoice
      PROVE  AccountOK(i)' /\ SyncReads(x, i)'
  <2>1. PICK b : b = s.balance[i]
    OBVIOUS
  <2>2. /\ invoice'[i] = [invoice[i] EXCEPT !.synced = TRUE, !.outstanding = b]
        /\ opening'[i] = IF invoice[i].synced THEN opening[i] ELSE b
    BY <1>1, <2>1 DEF UpsertInvoices
  <2>3. b \in Nat /\ AccountOK(i) /\ AccountShape(i) /\ SyncReads(s, i)
    BY <1>3, <2>1
  <2>4. /\ Recovery(drops[i]) \in Int /\ Mark(i) \in Nat /\ opening[i] \in Nat
        /\ Balance(i) \in Nat /\ (drops[i] = <<>> => Recovery(drops[i]) = 0)
        /\ invoice[i] \in InvoiceRow /\ drops[i] \in Seq(Drop)
    BY <2>3, AccountNumbers DEF AccountShape
  <2>5. /\ invoice'[i] \in InvoiceRow /\ invoice'[i].synced
        /\ invoice'[i].outstanding = b /\ opening'[i] \in Nat
    BY <2>2, <2>3, <2>4 DEF InvoiceRow
  <2>6. Balance(i)' = Balance(i) /\ drops'[i] = drops[i] /\ Balance(i) <= b
    BY <1>2, <2>1, <2>3, BalanceStays DEF SyncReads
  <2>7. Mark(i)' = IF drops[i] = <<>> THEN b ELSE Mark(i)
    BY <2>5, <2>6 DEF Mark
  <2>8. AccountShape(i)'
    BY <2>4, <2>5, <2>6 DEF AccountShape
  <2>9. invoice[i].synced =>
          b <= Mark(i) /\ Recovery(drops[i]) + Mark(i) <= opening[i] /\ Balance(i) <= Mark(i)
    BY <1>2, <2>1, <2>3 DEF SyncReads, AccountOK
  <2>10. ~invoice[i].synced => drops[i] = <<>>
    BY <2>3 DEF AccountOK
  <2>11. Recovery(drops[i])' = Recovery(drops[i])
    BY <2>6
  <2>12. AccountOK(i)'
    <3>1. (Recovery(drops[i]) + Mark(i) <= opening[i])'
      BY <2>2, <2>3, <2>4, <2>7, <2>9, <2>10, <2>11
    <3>2. (Balance(i) <= Mark(i))'
      BY <2>6, <2>7, <2>9, <2>10
    <3> QED BY <1>6, <2>5, <2>8, <3>1, <3>2 DEF AccountOK
  <2>13. SyncReads(x, i)'
    <3>1. x.balance[i] = b /\ x.anchor[i] = IF invoice[i].synced THEN Mark(i) ELSE NoAnchor
      BY <1>2, <1>4, <2>1, <2>3 DEF SyncReads
    <3>2. NoAnchor \notin Nat
      BY CaptureAssumption
    <3>3. x.anchor[i] = NoAnchor =>
            drops'[i] = <<>> /\ opening'[i] = b
      BY <2>2, <2>4, <2>6, <2>10, <3>1, <3>2
    <3>4. x.anchor[i] # NoAnchor => invoice[i].synced /\ x.anchor[i] = Mark(i)
      BY <3>1
    <3>5. invoice[i].synced =>
            opening'[i] = opening[i]
            /\ (stops = 0 => Recovery(drops[i]) + Mark(i) >= opening[i])
      BY <1>6, <2>2, <2>3, <2>4 DEF AccountOK
    <3>6. x.anchor[i] # NoAnchor =>
            /\ x.balance[i] <= x.anchor[i]
            /\ (drops[i] # <<>> => x.anchor[i] = Mark(i))'
            /\ (Recovery(drops[i]) + x.anchor[i] <= opening[i])'
            /\ (stops = 0 => Recovery(drops[i]) + x.anchor[i] >= opening[i])'
      BY <1>2, <2>6, <2>7, <2>9, <2>11, <3>1, <3>4, <3>5
    <3>7. (Balance(i) <= x.balance[i])' /\ invoice'[i].outstanding = x.balance[i]
      BY <2>5, <2>6, <3>1
    <3> QED BY <1>4, <2>5, <3>1, <3>3, <3>6, <3>7 DEF SyncReads
  <2> QED BY <2>12, <2>13
<1>8. AccountsOK'
  <2>1. DOMAIN invoice' = Invoice /\ DOMAIN opening' = Invoice
    BY DEF UpsertInvoices
  <2> QED BY <1>2, <1>7, <2>1 DEF AccountsOK, DropsHold, DropsInv
<1> QED BY <1>1, <1>2, <1>4, <1>5, <1>7, <1>8, SyncTurn

(* The falls of the batch are recorded, each from its anchor.              *)
LEMMA EmitDropsTurn ==
  ASSUME DropsHold, ~BestEffortFails, NEW y \in Sync, EmitDrops(y)
  PROVE  DropsInv'
<1>1. PICK s : s = sync[y]
  OBVIOUS
<1>2. /\ s.pc = "emit" /\ s # IdleSync /\ sync' = [sync EXCEPT ![y] = IdleSync]
      /\ UNCHANGED <<qbo, invoice, opening, worker, stops>>
  BY <1>1 DEF EmitDrops, SyncUnchanged, bookVars, IdleSync
<1>3. \A i \in Invoice : /\ SyncReads(s, i) /\ s.balance[i] \in Nat
                         /\ s.anchor[i] \in Nat \cup {NoAnchor}
                         /\ AccountOK(i) /\ AccountShape(i)
  BY <1>1, <1>2, AtSync DEF Syncing
<1>4. ASSUME NEW i \in Invoice
      PROVE  AccountOK(i)'
  <2>1. PICK a, b, q, r : /\ a = s.anchor[i] /\ b = s.balance[i]
                          /\ q = drops[i] /\ r = drops'[i]
    OBVIOUS
  <2>2. r = IF a = NoAnchor THEN q ELSE WithDrop(q, a, b)
    BY <1>1, <1>2, <2>1 DEF EmitDrops
  <2>3. b \in Nat /\ a \in Nat \cup {NoAnchor} /\ SyncReads(s, i) /\ AccountShape(i)
    BY <1>3, <2>1
  <2>4. PICK o, R, S : o = opening[i] /\ R = Recovery(q) /\ S = Recovery(r)
    OBVIOUS
  <2>5. o \in Nat /\ R \in Int /\ q \in Seq(Drop) /\ (q = <<>> => R = 0)
    BY <2>1, <2>3, <2>4, AccountNumbers DEF AccountShape
  <2>6. /\ invoice[i].synced /\ invoice[i].outstanding = b /\ Balance(i) <= b
        /\ a = NoAnchor => q = <<>> /\ o = b
        /\ a # NoAnchor => b <= a /\ (q # <<>> => a = Mark(i)) /\ R + a <= o
        /\ a # NoAnchor => (stops = 0 => R + a >= o)
    BY <1>2, <2>1, <2>3, <2>4 DEF SyncReads
  <2>7. /\ r \in Seq(Drop) /\ S \in Int
        /\ S + b <= o /\ (stops = 0 => S + b >= o)
        /\ Mark(i)' = b
    <3>1. CASE a = NoAnchor
      <4>1. r = <<>> /\ S = 0 /\ o = b
        BY <2>2, <2>4, <2>5, <2>6, <3>1
      <4>2. Mark(i)' = b
        BY <1>2, <2>1, <2>6, <4>1 DEF Mark
      <4> QED BY <2>5, <4>1, <4>2
    <3>2. CASE a # NoAnchor
      <4>1. a \in Nat /\ b <= a /\ r = WithDrop(q, a, b)
        BY <2>2, <2>3, <2>6, <3>2
      <4>2. Fell(q, r, a, b)
        BY <2>3, <2>5, <4>1, WithDropRecovers
      <4>3. /\ r \in Seq(Drop) /\ S \in Int /\ S + b = R + a
            /\ (r # <<>> /\ Last(r).new = b) \/ (r = q /\ a = b)
        BY <2>4, <4>2 DEF Fell
      <4>4. S + b <= o /\ (stops = 0 => S + b >= o)
        BY <2>6, <3>2, <4>3
      <4>5. Mark(i)' = b
        <5>1. CASE r # <<>> /\ Last(r).new = b
          BY <2>1, <5>1 DEF Mark
        <5>2. CASE r = q /\ a = b /\ q # <<>>
          <6>1. Mark(i)' = Mark(i)
            BY <1>2, <2>1, <5>2 DEF Mark
          <6> QED BY <2>6, <3>2, <5>2, <6>1
        <5>3. CASE r = q /\ q = <<>>
          BY <1>2, <2>1, <2>6, <5>3 DEF Mark
        <5> QED BY <4>3, <5>1, <5>2, <5>3
      <4> QED BY <4>3, <4>4, <4>5
    <3> QED BY <3>1, <3>2
  <2>8. Balance(i)' = Balance(i) /\ Recovery(drops[i])' = S /\ opening'[i] = o
    BY <1>2, <2>1, <2>4, BalanceStays
  <2>9. AccountShape(i)'
    BY <1>2, <2>1, <2>3, <2>7, <2>8 DEF AccountShape
  <2>10. (Recovery(drops[i]) + Mark(i) <= opening[i] /\ Balance(i) <= Mark(i))'
    BY <2>6, <2>7, <2>8
  <2>11. stops' = 0 =>
           (/\ invoice[i].outstanding + Recovery(drops[i]) >= opening[i]
            /\ Mark(i) + Recovery(drops[i]) >= opening[i])'
    <3>1. invoice'[i].outstanding = b /\ stops' = stops
      BY <1>2, <2>6
    <3>2. b + S = S + b
      BY <2>3, <2>7
    <3> QED BY <2>7, <2>8, <3>1, <3>2
  <2>12. invoice'[i].synced
    BY <1>2, <2>6
  <2> QED BY <2>9, <2>10, <2>11, <2>12 DEF AccountOK
<1>5. AccountsOK'
  <2>1. DOMAIN drops' = Invoice
    BY <1>2 DEF EmitDrops
  <2>2. AccountsOK
    BY DEF DropsHold, DropsInv
  <2> QED BY <1>2, <1>4, <2>1, <2>2 DEF AccountsOK
<1> QED BY <1>1, <1>2, <1>5, SyncTurn

(* A sync that is stopped before its insert is counted as one.             *)
LEMMA SyncStopsTurn ==
  ASSUME DropsHold, NEW y \in Sync, SyncThrows(y) \/ SyncDies(y)
  PROVE  DropsInv'
<1>1. /\ sync[y] # IdleSync /\ sync' = [sync EXCEPT ![y] = IdleSync]
      /\ UNCHANGED <<qbo, invoice, drops, opening, worker>>
      /\ (sync[y].pc # "emit" /\ stops' = stops) \/ stops' = stops + 1
  BY DEF SyncThrows, SyncDies, SyncUnchanged, bookVars, outcomes, IdleSync
<1>2. AccountsOK'
  BY <1>1, SyncLeavesAccounts
<1> QED BY <1>1, <1>2, SyncTurn

-----------------------------------------------------------------------------
(* The rest of the world.                                                  *)

LEMMA WorldTurn ==
  ASSUME DropsHold,
         \/ \E n \in Notification : QueueNotification(n)
         \/ \E i \in Invoice : Contact(i)
         \/ ClockTicks \/ GateFlips \/ UNCHANGED captureVars
  PROVE  DropsInv'
<1>1. AccountsOK /\ QueueShape
  BY DEF DropsHold, DropsInv, OutreachInv
<1>2. /\ UNCHANGED <<qbo, invoice, drops, opening, worker, sync, stops>>
      /\ queue' = queue \/ \E n \in Notification : QueueNotification(n)
  BY DEF QueueNotification, Contact, ClockTicks, Tick, GateFlips, captureVars, bookVars,
         outcomes
<1>3. QueueKept(queue, queue')
  <2>1. CASE queue' = queue
    BY <1>1, <2>1 DEF QueueKept, QueueShape
  <2>2. CASE queue' # queue
    <3>1. PICK n \in Notification : QueueNotification(n)
      BY <1>2, <2>2
    <3>2. PICK e : queue' = Append(queue, e)
      BY <3>1 DEF QueueNotification
    <3> QED BY <1>1, <3>2 DEF QueueKept, QueueShape
  <2> QED BY <2>1, <2>2
<1>4. \A i \in Invoice : SameAccount(i)
  BY <1>1, <1>2, AccountsStay
<1> QED BY <1>1, <1>2, <1>3, <1>4, OthersStep DEF AccountsOK

(* A marker that is written moves no amount.                               *)
LEMMA MarkOutreachTurn ==
  ASSUME DropsHold, NEW c \in contacts, MarkOutreachStarted(c[1], c[2])
  PROVE  DropsInv'
<1>1. AccountsOK /\ QueueShape /\ c[1] \in Invoice /\ c[2] \in Nat
  BY DEF DropsHold, DropsInv, OutreachInv
<1>2. /\ UNCHANGED <<qbo, drops, opening, worker, sync, stops, queue>>
      /\ \/ invoice' = [invoice EXCEPT ![c[1]].outreach = IF @ = Never THEN c[2] ELSE @]
         \/ UNCHANGED invoice
  BY DEF MarkOutreachStarted, bookVars
<1>3. DOMAIN invoice' = Invoice /\ DOMAIN drops' = Invoice /\ DOMAIN opening' = Invoice
  BY <1>1, <1>2 DEF AccountsOK
<1>4. ASSUME NEW i \in Invoice
      PROVE  SameAccount(i)
  <2>1. AccountShape(i) /\ invoice[i] \in InvoiceRow
    BY <1>1 DEF AccountsOK, AccountOK, AccountShape
  <2>2. Balance(i)' = Balance(i) /\ Balance(i) \in Nat
    BY <1>2, <2>1, BalanceStays DEF AccountShape
  <2>3. /\ invoice'[i] \in InvoiceRow
        /\ invoice'[i].synced = invoice[i].synced
        /\ invoice'[i].outstanding = invoice[i].outstanding
    BY <1>1, <1>2, <2>1 DEF AccountsOK, InvoiceRow
  <2> QED BY <1>2, <2>2, <2>3 DEF SameAccount
<1>5. QueueKept(queue, queue')
  BY <1>1, <1>2 DEF QueueKept, QueueShape
<1> QED BY <1>2, <1>3, <1>4, <1>5, OthersStep

(* A payment only lowers what is due.                                      *)
LEMMA CustomerPaysTurn ==
  ASSUME DropsHold, NEW p \in Payment, CustomerPays(p)
  PROVE  DropsInv'
<1>1. AccountsOK /\ QueueShape /\ BooksShape
  BY DEF DropsHold, DropsInv, OutreachInv
<1>2. /\ UNCHANGED <<invoice, drops, opening, worker, sync, stops, queue>>
      /\ RecordPayment(p)
  BY DEF CustomerPays, outcomes
<1>3. DOMAIN invoice' = Invoice /\ DOMAIN drops' = Invoice /\ DOMAIN opening' = Invoice
  BY <1>1, <1>2 DEF AccountsOK
<1>4. ASSUME NEW i \in Invoice
      PROVE  SameAccount(i)
  <2>1. AccountShape(i) /\ invoice[i] \in InvoiceRow /\ Balance(i) \in Nat
    BY <1>1 DEF AccountsOK, AccountOK, AccountShape
  <2>2. Balance(i)' \in Nat /\ Balance(i)' <= Balance(i)
    BY <1>1, <1>2, <2>1, PayingLowersBalance
  <2> QED BY <1>2, <2>1, <2>2 DEF SameAccount
<1>5. QueueKept(queue, queue')
  BY <1>1, <1>2 DEF QueueKept, QueueShape
<1> QED BY <1>2, <1>3, <1>4, <1>5, OthersStep

-----------------------------------------------------------------------------
(* The accounts hold together in every state.                              *)

LEMMA DropsInit == CaptureInit => DropsInv
<1> SUFFICES ASSUME CaptureInit PROVE DropsInv
  OBVIOUS
<1> USE DEF CaptureInit
<1>1. ASSUME NEW i \in Invoice
      PROVE  AccountOK(i)
  <2>1. AccountShape(i)
    BY BalanceAtFirst DEF AccountShape, InvoiceRow, Never
  <2>2. Mark(i) = 0
    BY DEF Mark
  <2>3. Recovery(drops[i]) = 0
    BY NothingRecovered
  <2> QED BY <2>1, <2>2, <2>3 DEF AccountOK
<1>2. AccountsOK
  BY <1>1 DEF AccountsOK
<1> QED BY <1>2 DEF DropsInv, Alone, WorkerKnows, SyncKnows

(* Every step keeps the accounts together.                                 *)
LEMMA DropsStep ==
  ASSUME OneAtATime, ~BestEffortFails, OutreachInv, DropsInv, [CaptureNext]_captureVars
  PROVE  DropsInv'
<1> DropsHold
  BY DEF DropsHold
<1>1. ASSUME NEW w \in Worker, ClaimBatch(w) \/ WorkerStep(w) \/ MarkLost(w) \/ WorkerDies(w)
      PROVE  DropsInv'
  BY <1>1, ClaimTurn, FetchTurn, PassGatesTurn, InsertLedgerRowTurn, ReadInvoiceTurn,
     ReadAnchorTurn, EmitDropTurn, UpdateInvoiceTurn, RowThrowsTurn, MarkTurn,
     WorkerDiesTurn DEF WorkerStep
<1>2. ASSUME NEW y \in Sync, ListInvoices(y) \/ SyncStep(y) \/ SyncDies(y)
      PROVE  DropsInv'
  BY <1>2, ListInvoicesTurn, ReadInvoicesTurn, ReadLastDropsTurn, UpsertInvoicesTurn,
     EmitDropsTurn, SyncStopsTurn DEF SyncStep
<1>3. ASSUME NEW c \in contacts, MarkOutreachStarted(c[1], c[2])
      PROVE  DropsInv'
  BY <1>3, MarkOutreachTurn
<1>4. ASSUME NEW p \in Payment, CustomerPays(p)
      PROVE  DropsInv'
  BY <1>4, CustomerPaysTurn
<1> QED BY <1>1, <1>2, <1>3, <1>4, WorldTurn DEF CaptureNext

(* Never double-counting, computeBalanceEvent.ts's promise, for any number *)
(* of invoices, payments and notifications, and whoever dies: as long as   *)
(* one worker or sync runs at a time and reads do not fail unseen, the     *)
(* drops of an invoice never add up to more than has been paid on it.      *)
THEOREM DropsAreCounted ==
  ASSUME OneAtATime, ~BestEffortFails
  PROVE  CaptureSpec => []DropsAreCountedOnce
<1>1. OutreachInv /\ DropsInv /\ [CaptureNext]_captureVars => DropsInv'
  BY DropsStep
<1>2. DropsInv => DropsAreCountedOnce
  <2> SUFFICES ASSUME DropsInv, NEW i \in Invoice, invoice[i].synced
               PROVE  Recovered(i) + Balance(i) <= opening[i]
    BY DEF DropsAreCountedOnce
  <2>1. AccountOK(i) /\ AccountShape(i)
    BY DEF DropsInv, AccountsOK, AccountOK
  <2>2. Recovery(drops[i]) + Mark(i) <= opening[i] /\ Balance(i) <= Mark(i)
    BY <2>1 DEF AccountOK
  <2> QED BY <2>1, <2>2, AccountNumbers, RecoveredIsRecovery
<1> QED
  BY OutreachInit, OutreachStep, DropsInit, <1>1, <1>2, PTL DEF CaptureSpec

(* Event first, as reconcileInvoiceFromCapture.ts has it: under the same   *)
(* two conditions, and while nobody is stopped, the local invoice never    *)
(* runs ahead of its drops but between a sync's upsert and its insert.     *)
THEOREM NoDropGetsLost ==
  ASSUME OneAtATime, ~BestEffortFails
  PROVE  CaptureSpec => []NoDropIsLost
<1>1. OutreachInv /\ DropsInv /\ [CaptureNext]_captureVars => DropsInv'
  BY DropsStep
<1>2. DropsInv => NoDropIsLost
  <2> SUFFICES ASSUME DropsInv, NEW i \in Invoice, stops = 0, ~Emitting
               PROVE  invoice[i].outstanding + Recovered(i) >= opening[i]
    <3>1. DropsInv => stops \in Nat
      BY DEF DropsInv, AccountsOK
    <3> QED BY <3>1 DEF NoDropIsLost, Emitting
  <2>1. AccountOK(i)
    BY DEF DropsInv, AccountsOK
  <2> QED BY <2>1, RecoveredIsRecovery DEF AccountOK
<1> QED
  BY OutreachInit, OutreachStep, DropsInit, <1>1, <1>2, PTL DEF CaptureSpec

=============================================================================
