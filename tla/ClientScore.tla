---------------------------- MODULE ClientScore ----------------------------
(***************************************************************************)
(* The Client Score of one client (lib/score): how the dates of payment    *)
(* are resolved and the score computed from the client's books, and the    *)
(* requests that store one row per month in ptr_scores.  A page rescores   *)
(* before it renders, when the row it reads is stale; the score route does *)
(* it on request.  Each reads in several calls, while the books change and *)
(* days pass, and any call may fail.                                       *)
(*                                                                         *)
(* Dates are whole days (UTC).  Scores are computed in hundredths of a     *)
(* point with exact arithmetic, where the code rounds floats.  The texts   *)
(* of the row (headline, factors, drivers, trend) are left out.            *)
(***************************************************************************)
EXTENDS Integers, FiniteSets, SequencesExt

CONSTANTS
  Invoice,          \* invoices of the client
  Request,          \* page loads and calls of the score route
  Books,            \* books the client may start with: invoices and evidence
  Evidence,         \* days that QuickBooks may give for a payment
  FirstDay, LastDay,
  MonthLength,      \* days of a month
  MaxChanges,       \* bound: changes of the books
  NoDate, NoRow

ASSUME ScoreAssumption ==
  /\ {FirstDay, LastDay} \subseteq Nat /\ FirstDay <= LastDay
  /\ MonthLength \in Nat \ {0} /\ MaxChanges \in Nat
  /\ Evidence \subseteq Int /\ NoDate \notin Int
  /\ IsFiniteSet(Invoice)

(* Rows of the books.  No invoice is for less than nothing.                *)
InvoiceRow ==
  [status : {"draft", "sent", "partial", "overdue", "in_recovery", "paid", "written_off"},
   due : Int \cup {NoDate}, amount : Nat, outstanding : Int]
PaymentRow == [invoice : Invoice, day : Int]
EventRow ==
  [invoice : Invoice, detected : Int, day : Int, txn : Int \cup {NoDate}]

(* Events of one invoice were found at different instants, all before the  *)
(* one to come, which is numbered by how many there are.                   *)
FoundApart(evs) ==
  /\ evs \in Seq(EventRow)
  /\ \A k \in DOMAIN evs :
       /\ evs[k].detected < Len(evs)
       /\ \A j \in DOMAIN evs :
            evs[j].invoice = evs[k].invoice /\ evs[j].detected = evs[k].detected
              => j = k

ASSUME BooksAssumption ==
  /\ NoRow \notin EventRow
  /\ \A b \in Books :
       /\ b.invoices \in [Invoice -> InvoiceRow]
       /\ b.payments \in Seq(PaymentRow) /\ FoundApart(b.balanceEvents)

VARIABLES
  invoices,         \* invoices[i]: the row
  payments,         \* invoice_payments of succeeded payments, in any order
  balanceEvents,    \* balance_events that reached zero, in any order
  scores,           \* scores[m]: the ptr_scores row of month m
  request,          \* request[r]: what r holds between two calls
  day,              \* the current UTC date
  changes,          \* changes of the books so far
  opening           \* opening[d]: changes of the books before day d began

bookVars == <<invoices, payments, balanceEvents>>
scoreVars == <<bookVars, scores, request, day, changes, opening>>

Day == FirstDay..LastDay
Month(d) == d \div MonthLength

-----------------------------------------------------------------------------
(* The bands of lateness: days at most, and the score.  Mutant: two bands  *)
(* change places.                                                          *)
SwappedBands == <<<<0, 100>>, <<7, 90>>, <<15, 65>>, <<30, 80>>, <<45, 50>>,
  <<60, 35>>, <<75, 25>>, <<90, 15>>, <<105, 10>>, <<120, 5>>>>
Bands == <<<<0, 100>>, <<7, 90>>, <<15, 80>>, <<30, 65>>, <<45, 50>>,
  <<60, 35>>, <<75, 25>>, <<90, 15>>, <<105, 10>>, <<120, 5>>>>

(* 0 to 100 for an invoice paid, or still open, so many days after it was  *)
(* due.                                                                    *)
latenessScore(days) ==
  LET within == {k \in DOMAIN Bands : days <= Bands[k][1]}
  IN IF within = {} THEN 0 ELSE Bands[Min(within)][2]

(* a / b to the nearest whole number, a half upwards. *)
Rounded(a, b) == (2 * a + b) \div (2 * b)

PRIOR == 70

(* The same rule as the page: a sent invoice counts once the sync has      *)
(* found it overdue, one partly paid by its due date.                      *)
uiPastDue(inv, asOf) ==
  \/ inv.status \in {"overdue", "in_recovery"}
  \/ inv.status = "partial" /\ inv.due # NoDate /\ inv.due < asOf

TotalBilled(rows) ==
  MapThenSumSet(LAMBDA i : rows[i].amount,
                {i \in Invoice : rows[i].status # "draft"})

(* Amount-weighted lateness of the dated payments, an invoice written off  *)
(* counting 0, blended with a prior; in hundredths.                        *)
PaymentHistory(rows, paidOn) ==
  LET dated == {i \in Invoice : /\ rows[i].status = "paid"
                                /\ paidOn[i] # NoDate /\ rows[i].due # NoDate}
      evidence == dated \cup {i \in Invoice : rows[i].status = "written_off"}
      n == Cardinality(evidence)
      lateness(i) == latenessScore(paidOn[i] - rows[i].due)
      weight == MapThenSumSet(LAMBDA i : rows[i].amount, evidence)
      sum == MapThenSumSet(LAMBDA i : lateness(i) * rows[i].amount, dated)
  IN CASE n = 0 -> 100 * PRIOR
       [] n > 0 /\ weight > 0 ->
            Rounded(100 * (n * sum + PRIOR * weight), weight * (n + 1))
       [] OTHER ->
            Rounded(100 * (MapThenSumSet(lateness, dated) + PRIOR), n + 1)

DaysPastDue(rows, late, asOf) ==
  {0} \cup {asOf - rows[i].due : i \in {j \in late : rows[j].due # NoDate}}

(* 100 times the share of what was billed that is not past due. *)
Exposure(rows, late) ==
  LET total == TotalBilled(rows)
      owed == MapThenSumSet(LAMBDA i : rows[i].outstanding, late)
  IN Max({0, Min({10000, Rounded(10000 * (total - owed), total)})})

(* The composite of the three components, or insufficient data. *)
computeClientScore(rows, paidOn, asOf) ==
  LET late == {i \in Invoice : uiPastDue(rows[i], asOf)}
      current == latenessScore(Max(DaysPastDue(rows, late, asOf)))
  IN IF TotalBilled(rows) <= 0 THEN NoRow
     ELSE Rounded(55 * PaymentHistory(rows, paidOn) + 3000 * current
                    + 15 * Exposure(rows, late), 10000)

-----------------------------------------------------------------------------
(* The last succeeded payment of an invoice, from rows in any order.       *)
(* Mutant: the row read last wins.                                         *)
LastRowRead(rows, i) ==
  FoldLeft(LAMBDA cur, p : IF p.invoice = i THEN p.day ELSE cur, NoDate, rows)
LastPayment(rows, i) ==
  FoldLeft(LAMBDA cur, p :
             IF p.invoice = i /\ (cur = NoDate \/ p.day > cur) THEN p.day
             ELSE cur, NoDate, rows)

(* The first event that left nothing owed, of the events that were found   *)
(* at different instants.                                                  *)
FirstZero(rows, i) ==
  FoldLeft(LAMBDA cur, e :
             IF e.invoice = i /\ (cur = NoRow \/ e.detected < cur.detected)
             THEN e ELSE cur, NoRow, rows)

(* The day each invoice was paid in full: the last payment recorded, else  *)
(* the day QuickBooks gives for the first event, else the day of that      *)
(* event, else unknown.                                                    *)
resolvePaidTimings(pays, evs) ==
  [i \in Invoice |->
     LET pay == LastPayment(pays, i) zero == FirstZero(evs, i)
     IN CASE pay # NoDate -> pay
          [] pay = NoDate /\ zero = NoRow -> NoDate
          [] OTHER -> IF zero.txn # NoDate THEN zero.txn ELSE zero.day]

-----------------------------------------------------------------------------
IdleRequest == [at |-> "idle", mode |-> "page", asOf |-> FirstDay,
                shown |-> NoRow, rows |-> NoRow, seen |-> 0, score |-> NoRow]

(* SCORER_VERSION; a row may date from an earlier one. *)
Version == "v1.1"
Row(score, date, seen) ==
  [score |-> score, date |-> date, seen |-> seen, version |-> Version]

ScoreInit ==
  /\ \E b \in Books :
       /\ invoices = b.invoices
       /\ payments = b.payments /\ balanceEvents = b.balanceEvents
  /\ day = FirstDay /\ changes = 0 /\ opening = [d \in Day |-> 0]
  /\ \/ scores = [m \in {Month(d) : d \in Day} |-> NoRow]
     \/ scores = [m \in {Month(d) : d \in Day} |->
          IF m = Month(FirstDay)
          THEN [Row(PRIOR, FirstDay, 0) EXCEPT !.version = "v1.0"] ELSE NoRow]
  /\ request = [r \in Request |-> IdleRequest]

(* ensureCurrentScore: a page has read the client's invoices, found one    *)
(* that is not a draft, and takes the time.                                *)
OpensPage(r) ==
  /\ request[r].at = "idle"
  /\ \E i \in Invoice : invoices[i].status # "draft"
  /\ request' = [request EXCEPT ![r].at = "opened", ![r].asOf = day]
  /\ UNCHANGED <<bookVars, scores, day, changes, opening>>

(* POST and GET of the score route: the client is the subscriber's. *)
Scores(r, mode) ==
  /\ request[r].at = "idle"
  /\ request' = [request EXCEPT ![r].at = "loading", ![r].mode = mode,
                   ![r].asOf = day]
  /\ UNCHANGED <<bookVars, scores, day, changes, opening>>

(* getPtrScores: the row of the latest date; of a failed read, none. *)
LatestRow ==
  LET stored == {scores[m] : m \in DOMAIN scores} \ {NoRow}
  IN IF stored = {} THEN NoRow
     ELSE CHOOSE row \in stored : \A other \in stored : other.date <= row.date

ReadsRow == {LatestRow, NoRow}

isScoreStale(row, asOf) ==
  row = NoRow \/ row.date # asOf \/ row.version # Version

(* The request is over and forgotten; a page has what it shows. *)
Ends(r) == request' = [request EXCEPT ![r] = IdleRequest]

ReadScores(r) ==
  /\ request[r].at = "opened"
  /\ \E row \in ReadsRow :
       IF isScoreStale(row, request[r].asOf)
       THEN request' = [request EXCEPT ![r].at = "loading", ![r].shown = row]
       ELSE request' = [request EXCEPT ![r].at = "rendered", ![r].shown = row]
  /\ UNCHANGED <<bookVars, scores, day, changes, opening>>

(* A call fails: a page renders what it read before, the route answers 500 *)
(* and nothing is written.                                                 *)
Throws(r) ==
  /\ request[r].at \in {"loading", "loaded", "scored"}
  /\ IF request[r].mode = "page"
     THEN request' = [request EXCEPT ![r] = [IdleRequest EXCEPT
            !.at = "rendered", !.shown = request[r].shown]]
     ELSE Ends(r)
  /\ UNCHANGED <<bookVars, scores, day, changes, opening>>

(* loadScoreInputs: the invoices first. *)
LoadScoreInputs(r) ==
  /\ request[r].at = "loading"
  /\ request' = [request EXCEPT ![r].at = "loaded", ![r].rows = invoices,
                   ![r].seen = changes]
  /\ UNCHANGED <<bookVars, scores, day, changes, opening>>

(* loadPaidTimings: then the evidence for those that were paid, and the    *)
(* score.  Without enough data or in a dry run there is nothing to write.  *)
LoadPaidTimings(r) ==
  /\ request[r].at = "loaded"
  /\ LET score == computeClientScore(request[r].rows,
                    resolvePaidTimings(payments, balanceEvents),
                    request[r].asOf)
     IN IF score = NoRow \/ request[r].mode = "dry_run"
        THEN Ends(r)
        ELSE request' = [request EXCEPT ![r].at = "scored",
                           ![r].rows = NoRow, ![r].score = score]
  /\ UNCHANGED <<bookVars, scores, day, changes, opening>>

(* The date of the row is the day the request took, not the day of the     *)
(* write.  Mutant: it is the day of the write.                             *)
DatedAtWrite(r) == day
ScoreDate(r) == request[r].asOf

(* The upsert on client and month. *)
UpsertScore(r) ==
  /\ request[r].at = "scored"
  /\ scores' = [scores EXCEPT ![Month(ScoreDate(r))] =
                  Row(request[r].score, ScoreDate(r), request[r].seen)]
  /\ IF request[r].mode = "page"
     THEN request' = [request EXCEPT ![r] =
            [IdleRequest EXCEPT !.at = "written", !.asOf = request[r].asOf]]
     ELSE Ends(r)
  /\ UNCHANGED <<bookVars, day, changes, opening>>

RereadScores(r) ==
  /\ request[r].at = "written"
  /\ \E row \in ReadsRow :
       request' = [request EXCEPT ![r] =
         [IdleRequest EXCEPT !.at = "rendered", !.shown = row]]
  /\ UNCHANGED <<bookVars, scores, day, changes, opening>>

Leaves(r) ==
  /\ request[r].at = "rendered" /\ Ends(r)
  /\ UNCHANGED <<bookVars, scores, day, changes, opening>>

-----------------------------------------------------------------------------
(* The other components write the books: a row and its evidence land one   *)
(* after the other.                                                        *)
Moves(from) ==
  CASE from = "draft" -> {"sent"}
    [] from = "sent" -> {"partial", "overdue", "paid"}
    [] from \in {"partial", "overdue", "in_recovery"} -> {"paid", "written_off"}
    [] OTHER -> {}

InvoiceMoves(i) ==
  /\ \E to \in Moves(invoices[i].status) :
       invoices' = [invoices EXCEPT ![i].status = to,
         ![i].outstanding = IF to = "paid" THEN 0 ELSE @]
  /\ UNCHANGED <<payments, balanceEvents>>

PaymentLands(i) ==
  /\ payments' = Append(payments, [invoice |-> i, day |-> day])
  /\ UNCHANGED <<invoices, balanceEvents>>

EventLands(i) ==
  /\ \E txn \in Evidence \cup {NoDate} :
       balanceEvents' = Append(balanceEvents, [invoice |-> i,
         detected |-> Len(balanceEvents), day |-> day, txn |-> txn])
  /\ UNCHANGED <<invoices, payments>>

BooksMove ==
  /\ changes < MaxChanges /\ changes' = changes + 1
  /\ \E i \in Invoice : InvoiceMoves(i) \/ PaymentLands(i) \/ EventLands(i)
  /\ UNCHANGED <<scores, request, day, opening>>

NextDay ==
  /\ day < LastDay /\ day' = day + 1
  /\ opening' = [opening EXCEPT ![day + 1] = changes]
  /\ UNCHANGED <<bookVars, scores, request, changes>>

ScoreNext ==
  \/ \E r \in Request :
       \/ OpensPage(r) \/ ReadScores(r) \/ LoadScoreInputs(r)
       \/ LoadPaidTimings(r) \/ UpsertScore(r) \/ RereadScores(r)
       \/ Throws(r) \/ Leaves(r)
       \/ \E mode \in {"write", "dry_run"} : Scores(r, mode)
  \/ BooksMove \/ NextDay

ScoreSpec == ScoreInit /\ [][ScoreNext]_scoreVars

-----------------------------------------------------------------------------
(* The row of a day, which no page rescores while that day lasts, misses   *)
(* nothing that had happened to the books before the day began: requests   *)
(* overlap, are slow, and run over midnight.                               *)
RowMissesNothingBeforeItsDay ==
  \A m \in DOMAIN scores :
    scores[m] # NoRow => scores[m].seen >= opening[scores[m].date]

(* The dates of payment are what the rows say whatever the order they are  *)
(* read in: the last of the payments, else the first of the events.        *)
TimingsIgnoreOrder ==
  \A i \in Invoice :
    LET days == {payments[k].day : k \in {k \in DOMAIN payments :
                                            payments[k].invoice = i}}
        zeros == {k \in DOMAIN balanceEvents : balanceEvents[k].invoice = i}
        first == balanceEvents[CHOOSE k \in zeros : \A j \in zeros :
                   balanceEvents[k].detected <= balanceEvents[j].detected]
        paid == resolvePaidTimings(payments, balanceEvents)[i]
    IN /\ paid = resolvePaidTimings(Reverse(payments), Reverse(balanceEvents))[i]
       /\ days # {} => paid = Max(days)
       /\ days = {} /\ zeros # {} =>
            paid \in {first.txn, first.day} \ {NoDate}
       /\ days = {} /\ zeros = {} => paid = NoDate

(* Paying later never helps: no payment made later, and no invoice written *)
(* off instead, gives the client a better score.                           *)
PayingLaterNeverHelps ==
  (changes = 0 /\ day = FirstDay /\ TotalBilled(invoices) > 0) =>
    LET paidOn == resolvePaidTimings(payments, balanceEvents)
        Score(rows, on) == computeClientScore(rows, on, day)
    IN \A i \in Invoice :
         invoices[i].status = "paid" /\ paidOn[i] # NoDate
           /\ invoices[i].due # NoDate =>
         /\ \A later \in paidOn[i]..(paidOn[i] + 30) :
              Score(invoices, [paidOn EXCEPT ![i] = later])
                <= Score(invoices, paidOn)
         /\ Score([invoices EXCEPT ![i].status = "written_off"], paidOn)
              <= Score(invoices, paidOn)

(* Each month keeps its last score. *)
MonthKeepsLast ==
  [][\A m \in DOMAIN scores : scores[m] # NoRow =>
       scores'[m].date >= scores[m].date]_scoreVars

=============================================================================
