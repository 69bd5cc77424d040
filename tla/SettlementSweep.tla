-------------------------- MODULE SettlementSweep --------------------------
(***************************************************************************)
(* The monthly settlement sweep: runSettlementSweep runs, possibly         *)
(* overlapping, read the eligible rows of rev_share_ledger in three paged  *)
(* reads, group them per subscriber and persist one settlement for each    *)
(* subscriber whose total reaches the minimum charge.  Payments are        *)
(* captured into the ledger at any time, with any past accrual cycle.      *)
(***************************************************************************)
EXTENDS FeeSettlements

CONSTANTS
  Sweep,            \* concurrent sweep invocations
  LineSubscriber,   \* rev_share_ledger.subscriber_id
  Rank,             \* the order of the ledger ids, which are random uuids
  PrepaidLine,      \* ledger rows of source 'stripe_recovery': the fee was
                    \* collected at capture; the others are of source 'qbo'
  Page,             \* rows one read returns (1000)
  MinChargeCents,   \* app_config.settlement_min_charge_cents
  MaxTime,          \* bound: the last moment of the calendar
  SweepSwitchMoves, \* bound: whether operators move the sweep's kill-switch
  MaxSweepCrashes   \* bound: sweeps that die or fail a call

(* Time runs from moment to moment: moment 2c is the 15th on which cycle c *)
(* closes, moment 2c + 1 the days from there to the next 15th.  The first  *)
(* moment is the 15th of cycle 1.                                          *)
Cycle == 1..((MaxTime + 1) \div 2)

ASSUME SweepAssumption ==
  /\ Settlement = Subscriber \X Cycle
  /\ SubscriberOf = [s \in Settlement |-> s[1]]
  /\ LineSubscriber \in [Line -> Subscriber]
  /\ Rank \in [Line -> Nat]
  /\ \A k, l \in Line : Rank[k] = Rank[l] => k = l
  /\ PrepaidLine \subseteq Line
  /\ Page \in Nat \ {0}
  /\ MinChargeCents \in Nat
  /\ MaxTime \in Nat /\ MaxTime >= 2
  /\ SweepSwitchMoves \in BOOLEAN
  /\ MaxSweepCrashes \in Nat

VARIABLES
  ledger,           \* cycle_close of each ledger row, NotCaptured before its insert
  sweep,            \* the local state of each sweep
  now,              \* the calendar
  sweepEnabled,     \* app_config.settlement_sweep_enabled
  sweepCrashes      \* how much of MaxSweepCrashes is used up

sweepVars == <<row, books, sub, ledger, sweep, now, sweepEnabled, sweepCrashes>>

NotCaptured == 0

(* nextCycleCloseDate (a payment of the 15th still accrues to the cycle    *)
(* that closes that day) and mostRecentClosedCycleClose.                   *)
NextClose(t) == (t + 1) \div 2

\* Mutant: the close the month is heading for, on the 15th the next one.
MostRecentCloseAhead(t) == t \div 2 + 1
MostRecentClose(t) == t \div 2

IdleSweep == [stage |-> "idle"]

(* from is the offset of the next page; read how often each ledger row was *)
(* returned; plans the subscribers whose settlement is still to persist.   *)
Sweeping == [stage : {"subscribers", "linked", "ledger", "persist"},
             boundary : Cycle, active : SUBSET Subscriber, linked : SUBSET Line,
             from : Nat, read : [Line -> Nat], plans : SUBSET Subscriber]

SweepTypeOK ==
  /\ TablesTypeOK
  /\ ledger \in [Line -> Cycle \cup {NotCaptured}]
  /\ sweep \in [Sweep -> Sweeping \cup {IdleSweep}]
  /\ now \in 2..MaxTime
  /\ sweepEnabled \in BOOLEAN
  /\ sweepCrashes \in 0..MaxSweepCrashes

SweepLocalsInit ==
  /\ ledger = [l \in Line |-> NotCaptured]
  /\ sweep = [w \in Sweep |-> IdleSweep]
  /\ now = 2
  /\ sweepEnabled = TRUE
  /\ sweepCrashes = 0

SettlementsInit ==
  /\ row = [s \in Settlement |-> AbsentRow]
  /\ books = [s \in Settlement |-> NoBooks]
  /\ sub \in [Subscriber -> Subscribers]

SweepInit == SettlementsInit /\ SweepLocalsInit

-----------------------------------------------------------------------------
(* Reading.                                                                *)

(* The switch, the minimum and the boundary are read once, at the start; a *)
(* disabled sweep only logs.                                               *)
StartSweep(w) ==
  /\ sweep[w] = IdleSweep
  /\ sweepEnabled
  /\ sweep' = [sweep EXCEPT ![w] =
       [stage |-> "subscribers", boundary |-> MostRecentClose(now), active |-> {},
        linked |-> {}, from |-> 0, read |-> [l \in Line |-> 0], plans |-> {}]]
  /\ UNCHANGED <<row, books, sub, ledger, now, sweepEnabled, sweepCrashes>>

ReadSubscribers(w) ==
  LET active == {u \in Subscriber : sub[u] # "inactive"} IN
  /\ sweep[w].stage = "subscribers"
  /\ sweep' = [sweep EXCEPT ![w] =
       IF active = {} THEN IdleSweep
       ELSE [sweep[w] EXCEPT !.stage = "linked", !.active = active]]
  /\ UNCHANGED <<row, books, sub, ledger, now, sweepEnabled, sweepCrashes>>

(* .order("id").range(from, from + PAGE - 1): the rows at those positions  *)
(* of the table as it is when the page is read.                            *)
Window(S, from) ==
  {l \in S : Cardinality({k \in S : Rank[k] <= Rank[l]}) \in (from + 1)..(from + Page)}

LinkedLines == UNION {books[s].lines : s \in Settlement}

ReadLinkedPage(w) ==
  LET page == Window(LinkedLines, sweep[w].from) IN
  /\ sweep[w].stage = "linked"
  /\ sweep' =
       IF Cardinality(page) < Page
       THEN [sweep EXCEPT ![w].stage = "ledger", ![w].from = 0,
                          ![w].linked = @ \cup page]
       ELSE [sweep EXCEPT ![w].from = @ + Page, ![w].linked = @ \cup page]
  /\ UNCHANGED <<row, books, sub, ledger, now, sweepEnabled, sweepCrashes>>

(* Mutants: every source, and the rows of the boundary's own cycle only.   *)
InScopeOfAnySource(boundary) ==
  {l \in Line : ledger[l] # NotCaptured /\ ledger[l] <= boundary}
InScopeOfOneCycle(boundary) ==
  {l \in Line \ PrepaidLine : ledger[l] = boundary}

(* Accrued on or before the boundary, from a source that the sweep bills.  *)
InScope(boundary) ==
  {l \in Line \ PrepaidLine : ledger[l] # NotCaptured /\ ledger[l] <= boundary}

\* Mutant: rows of earlier settlements are not left out.
PlanLinesLinkedToo(x, u) == {l \in Line : x.read[l] > 0 /\ LineSubscriber[l] = u}

(* Grouping, rounding per line and summing.                                *)
PlanLines(x, u) ==
  {l \in Line : x.read[l] > 0 /\ LineSubscriber[l] = u /\ l \notin x.linked}
PlanCount(x, u) == MapThenSumSet(LAMBDA l : x.read[l], PlanLines(x, u))
PlanCents(x, u) == MapThenSumSet(LAMBDA l : x.read[l] * FeeCents[l], PlanLines(x, u))

Billable(x) ==
  {u \in x.active : PlanLines(x, u) # {} /\ PlanCents(x, u) >= MinChargeCents}

(* The last page is followed by computeSettlements.                        *)
ReadLedgerPage(w) ==
  LET page == Window(InScope(sweep[w].boundary), sweep[w].from)
      x == [sweep[w] EXCEPT !.read = [l \in Line |->
              IF l \in page THEN sweep[w].read[l] + 1 ELSE sweep[w].read[l]]]
  IN
  /\ sweep[w].stage = "ledger"
  /\ sweep' = [sweep EXCEPT ![w] =
       IF Cardinality(page) = Page THEN [x EXCEPT !.from = @ + Page]
       ELSE IF Billable(x) = {} THEN IdleSweep
       ELSE [x EXCEPT !.stage = "persist", !.plans = Billable(x)]]
  /\ UNCHANGED <<row, books, sub, ledger, now, sweepEnabled, sweepCrashes>>

-----------------------------------------------------------------------------
(* Writing.                                                                *)

(* Mutants: a function that links the lines also when the settlement was   *)
(* there, and one without the unique index on the ledger row.              *)
PersistRelinking(w, u) ==
  LET s == <<u, sweep[w].boundary>>
      lines == PlanLines(sweep[w], u) \ LinkedLines IN
  /\ sweep[w].stage = "persist"
  /\ u \in sweep[w].plans
  /\ row' = IF row[s].status = "absent" THEN [row EXCEPT ![s] = NewRow] ELSE row
  /\ books' = [books EXCEPT ![s] =
       IF row[s].status = "absent"
       THEN [lines |-> lines, lineCount |-> PlanCount(sweep[w], u),
             totalCents |-> PlanCents(sweep[w], u)]
       ELSE [@ EXCEPT !.lines = @ \cup lines]]
  /\ sweep' = [sweep EXCEPT ![w] =
       IF sweep[w].plans = {u} THEN IdleSweep
       ELSE [sweep[w] EXCEPT !.plans = @ \ {u}]]
  /\ UNCHANGED <<sub, ledger, now, sweepEnabled, sweepCrashes>>

PersistUnguarded(w, u) ==
  LET s == <<u, sweep[w].boundary>> IN
  /\ sweep[w].stage = "persist"
  /\ u \in sweep[w].plans
  /\ IF row[s].status = "absent"
     THEN /\ row' = [row EXCEPT ![s] = NewRow]
          /\ books' = [books EXCEPT ![s] =
               [lines |-> PlanLines(sweep[w], u), lineCount |-> PlanCount(sweep[w], u),
                totalCents |-> PlanCents(sweep[w], u)]]
     ELSE UNCHANGED <<row, books>>
  /\ sweep' = [sweep EXCEPT ![w] =
       IF sweep[w].plans = {u} THEN IdleSweep
       ELSE [sweep[w] EXCEPT !.plans = @ \ {u}]]
  /\ UNCHANGED <<sub, ledger, now, sweepEnabled, sweepCrashes>>

(* persist_fee_settlement for one plan, in one transaction: the settlement *)
(* of the subscriber and cycle is inserted unless it is there; its lines   *)
(* go in only with it, the ones that some settlement already has left out. *)
PersistSettlement(w, u) ==
  LET s == <<u, sweep[w].boundary>> IN
  /\ sweep[w].stage = "persist"
  /\ u \in sweep[w].plans
  /\ IF row[s].status = "absent"
     THEN /\ row' = [row EXCEPT ![s] = NewRow]
          /\ books' = [books EXCEPT ![s] =
               [lines |-> PlanLines(sweep[w], u) \ LinkedLines,
                lineCount |-> PlanCount(sweep[w], u),
                totalCents |-> PlanCents(sweep[w], u)]]
     ELSE UNCHANGED <<row, books>>
  /\ sweep' = [sweep EXCEPT ![w] =
       IF sweep[w].plans = {u} THEN IdleSweep
       ELSE [sweep[w] EXCEPT !.plans = @ \ {u}]]
  /\ UNCHANGED <<sub, ledger, now, sweepEnabled, sweepCrashes>>

(* A failed read or call throws out of the sweep; the process may die.     *)
SweepStops(w) ==
  /\ sweep[w] # IdleSweep
  /\ sweepCrashes < MaxSweepCrashes
  /\ sweepCrashes' = sweepCrashes + 1
  /\ sweep' = [sweep EXCEPT ![w] = IdleSweep]
  /\ UNCHANGED <<row, books, sub, ledger, now, sweepEnabled>>

-----------------------------------------------------------------------------
(* The environment.                                                        *)

(* A payment is captured.  The cycle is that of the payment's own date,    *)
(* which for QuickBooks is whatever was entered there, today or earlier.   *)
Capture(l) ==
  /\ ledger[l] = NotCaptured
  /\ \E c \in Cycle :
       /\ c <= NextClose(now)
       /\ ledger' = [ledger EXCEPT ![l] = c]
  /\ UNCHANGED <<row, books, sub, sweep, now, sweepEnabled, sweepCrashes>>

TimePasses ==
  /\ now < MaxTime
  /\ now' = now + 1
  /\ UNCHANGED <<row, books, sub, ledger, sweep, sweepEnabled, sweepCrashes>>

SweptSubscriberMoves(u) ==
  /\ SubscriberMoves(u)
  /\ UNCHANGED <<row, books, ledger, sweep, now, sweepEnabled, sweepCrashes>>

ToggleSweep ==
  /\ SweepSwitchMoves
  /\ sweepEnabled' = ~sweepEnabled
  /\ UNCHANGED <<row, books, sub, ledger, sweep, now, sweepCrashes>>

SweepStep(w) ==
  \/ ReadSubscribers(w) \/ ReadLinkedPage(w) \/ ReadLedgerPage(w)
  \/ \E u \in Subscriber : PersistSettlement(w, u)

SweepNext ==
  \/ \E w \in Sweep : StartSweep(w) \/ SweepStep(w) \/ SweepStops(w)
  \/ \E l \in Line : Capture(l)
  \/ \E u \in Subscriber : SweptSubscriberMoves(u)
  \/ TimePasses \/ ToggleSweep

SweepSpec == SweepInit /\ [][SweepNext]_sweepVars

-----------------------------------------------------------------------------
(* Safety.                                                                 *)

(* A captured fee is billed by at most one settlement, whatever sweeps     *)
(* overlap and whatever each of them read.                                 *)
EachFeeInOneSettlement ==
  \A s, t \in Settlement : s # t => books[s].lines \cap books[t].lines = {}

(* A settlement only bills what its subscriber owes by the time its cycle  *)
(* closes, and never a fee that was collected at capture.                  *)
BillsOnlyWhatIsOwed ==
  \A s \in Settlement : \A l \in books[s].lines :
    /\ LineSubscriber[l] = s[1]
    /\ l \notin PrepaidLine
    /\ ledger[l] # NotCaptured /\ ledger[l] <= s[2]

(* What a subscriber was told is due does not change under the charge: the *)
(* books of a settlement are frozen once it exists.                        *)
BooksAreFrozen ==
  [][\A s \in Settlement :
       row[s].status # "absent" => books'[s] = books[s]]_<<row, books>>

(* Every settlement adds up: its lines are as many as it says and sum to   *)
(* its total, so that the charge's gate passes.                            *)
SettlementsReconcile ==
  \A s \in Settlement :
    row[s].status # "absent" => Reconciles(books[s], books[s].lines)

(* A settlement is of a closed cycle: no fee accrues to it any more.       *)
SettledCyclesAreClosed ==
  \A s \in Settlement : row[s].status # "absent" => s[2] < NextClose(now)

-----------------------------------------------------------------------------
(* Liveness.                                                               *)

(* The daily cron keeps starting sweeps, a sweep that runs goes on, and    *)
(* the days pass.                                                          *)
SweepFairness ==
  /\ \A w \in Sweep : WF_sweepVars(SweepStep(w))
  /\ \A w \in Sweep : WF_sweepVars(StartSweep(w))
  /\ WF_sweepVars(TimePasses)

FairSweepSpec == SweepSpec /\ SweepFairness

(* A month is left in the calendar in which a sweep can bill the fee.      *)
CapturedInTime(l) == ledger[l] # NotCaptured /\ NextClose(now) < MostRecentClose(MaxTime)

(* The smallest sets of one subscriber's fees that amount to a charge.     *)
Charge(S) == MapThenSumSet(LAMBDA l : FeeCents[l], S) >= MinChargeCents
SmallestCharges(u) ==
  {S \in SUBSET {l \in Line \ PrepaidLine : LineSubscriber[l] = u} :
     Charge(S) /\ \A l \in S : ~Charge(S \ {l})}

(* No fee is forgotten.  Of fees that together are large enough to be      *)
(* charged, however late and for whatever past cycle they were captured,   *)
(* settled ones included, some are billed in the end, as long as their     *)
(* subscriber stays active and sweeping stays enabled; so what stays       *)
(* unbilled never amounts to a charge.                                     *)
EveryFeeIsBilled ==
  \A u \in Subscriber : \A S \in SmallestCharges(u) :
    <>(\A l \in S : CapturedInTime(l)) /\ [](sweepEnabled /\ sub[u] # "inactive")
      => <>(S \cap LinkedLines # {})

=============================================================================
