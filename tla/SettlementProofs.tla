-------------------------- MODULE SettlementProofs --------------------------
(***************************************************************************)
(* Proofs about the settlement of a subscriber's fees, for every number of *)
(* subscribers, settlements, lines, runs, calls, webhook invocations,      *)
(* invoices, refunds, attempts and crashes, and every page size.           *)
(*                                                                         *)
(*   1. SettlementSweep: a fee is billed by one settlement at most, only   *)
(*      when it is owed, and for good.                                     *)
(*   2. SettlementCharge: what is marked paid was collected and is the     *)
(*      bill, and how often a fee can be charged.                          *)
(*   3. SettlementRefund: the refund alone.                                *)
(*   4. SettlementLifecycle: the charge and the refund of a settlement     *)
(*      implement FeeCollection.  The two share the settlement's row.      *)
(*      What each one's own proof has shown of its steps is cited; new is  *)
(*      what one needs of the other: a refund is under way only where      *)
(*      money was collected.                                               *)
(***************************************************************************)
EXTENDS SettlementSweep, SettlementLifecycle, TLAPS, FiniteSetTheorems

-----------------------------------------------------------------------------
(* Part 1. The sweep. *)

(* The shapes the arguments need.  The counts and totals of the books are  *)
(* folds over sets, of which the provers know nothing, and are left out.   *)
SweepShape ==
  /\ books = [s \in Settlement |-> books[s]]
  /\ \A s \in Settlement : books[s].lines \subseteq Line
  /\ ledger \in [Line -> Cycle \cup {NotCaptured}]
  /\ sweep \in [Sweep -> Sweeping \cup {IdleSweep}]
  /\ now \in 2..MaxTime

(* What a sweep has read stays owed: rows of the ledger do not change.     *)
ReadsAreOwed ==
  \A w \in Sweep : sweep[w] # IdleSweep =>
    \A l \in Line : sweep[w].read[l] > 0 =>
      /\ l \notin PrepaidLine
      /\ ledger[l] # NotCaptured /\ ledger[l] <= sweep[w].boundary

(* A sweep that is past its start has a full working state.                *)
LEMMA BusySweep ==
  ASSUME SweepShape, NEW w \in Sweep, sweep[w].stage # "idle"
  PROVE  sweep[w] \in Sweeping /\ sweep[w] # IdleSweep
BY DEF SweepShape, IdleSweep

(* The boundary of a sweep that starts is a cycle of the calendar.         *)
LEMMA BoundaryIsACycle ==
  ASSUME SweepShape
  PROVE  MostRecentClose(now) \in Cycle
<1>1. MaxTime \in Nat /\ now \in Nat /\ 2 <= now /\ now <= MaxTime
  BY SweepAssumption DEF SweepShape
<1>2. now \div 2 \in Nat /\ 1 <= now \div 2 /\ now \div 2 <= (MaxTime + 1) \div 2
  BY <1>1, SMT
<1>3. (MaxTime + 1) \div 2 \in Nat
  BY <1>1, SMT
<1>4. QED
  BY <1>2, <1>3 DEF MostRecentClose, Cycle

(* The initial tables have these shapes, and bill nothing.                 *)
LEMMA ShapeInit == SweepInit => SweepShape
BY SweepAssumption
DEF SweepInit, SettlementsInit, SweepLocalsInit, SweepShape, NoBooks, NotCaptured

(* A sweep that is replaced by a working or an idle one is well shaped.    *)
LEMMA SweepUpdate ==
  ASSUME SweepShape, NEW w \in Sweep, NEW x \in Sweeping \cup {IdleSweep},
         sweep' = [sweep EXCEPT ![w] = x],
         UNCHANGED <<books, ledger, now>>
  PROVE  SweepShape'
BY DEF SweepShape, Cycle

(* Reading and stopping keep the shapes.                                   *)
LEMMA ShapeReads ==
  ASSUME SweepShape, NEW w \in Sweep,
         StartSweep(w) \/ ReadSubscribers(w) \/ ReadLinkedPage(w)
           \/ ReadLedgerPage(w) \/ SweepStops(w)
  PROVE  SweepShape'
<1>1. CASE StartSweep(w)
  <2> DEFINE x == [stage |-> "subscribers", boundary |-> MostRecentClose(now),
                   active |-> {}, linked |-> {}, from |-> 0,
                   read |-> [l \in Line |-> 0], plans |-> {}]
  <2>1. x \in Sweeping
    BY BoundaryIsACycle DEF Sweeping
  <2>2. QED
    BY <1>1, <2>1, SweepUpdate DEF StartSweep
<1>2. CASE ReadSubscribers(w)
  <2> DEFINE active == {u \in Subscriber : sub[u] # "inactive"}
             x == IF active = {} THEN IdleSweep
                  ELSE [sweep[w] EXCEPT !.stage = "linked", !.active = active]
  <2>1. sweep[w] \in Sweeping
    BY <1>2, BusySweep DEF ReadSubscribers
  <2>2. x \in Sweeping \cup {IdleSweep}
    BY <2>1 DEF Sweeping
  <2>3. sweep' = [sweep EXCEPT ![w] = x]
    BY <1>2 DEF ReadSubscribers
  <2>4. QED
    BY <1>2, <2>2, <2>3, SweepUpdate DEF ReadSubscribers
<1>3. CASE ReadLinkedPage(w)
  <2> DEFINE page == Window(LinkedLines, sweep[w].from)
             x == [sweep[w] EXCEPT !.stage = "ledger", !.from = 0,
                                   !.linked = @ \cup page]
             y == [sweep[w] EXCEPT !.from = @ + Page, !.linked = @ \cup page]
  <2>1. sweep[w] \in Sweeping
    BY <1>3, BusySweep DEF ReadLinkedPage
  <2>2. page \subseteq Line
    BY DEF Window, LinkedLines, SweepShape
  <2> HIDE DEF page
  <2>3. x \in Sweeping /\ y \in Sweeping
    <3>1. sweep[w].linked \cup page \subseteq Line
      BY <2>1, <2>2 DEF Sweeping
    <3>2. sweep[w].from + Page \in Nat
      BY <2>1, SweepAssumption DEF Sweeping
    <3>3. QED
      BY <2>1, <3>1, <3>2 DEF Sweeping
  <2> USE DEF page
  <2>4. sweep' = [sweep EXCEPT ![w] = x] \/ sweep' = [sweep EXCEPT ![w] = y]
    BY <1>3 DEF ReadLinkedPage
  <2>5. QED
    BY <1>3, <2>3, <2>4, SweepUpdate DEF ReadLinkedPage
<1>4. CASE ReadLedgerPage(w)
  <2> DEFINE page == Window(InScope(sweep[w].boundary), sweep[w].from)
             read == [l \in Line |-> IF l \in page THEN sweep[w].read[l] + 1
                                     ELSE sweep[w].read[l]]
             x == [sweep[w] EXCEPT !.read = read]
             y == IF Cardinality(page) = Page THEN [x EXCEPT !.from = @ + Page]
                  ELSE IF Billable(x) = {} THEN IdleSweep
                  ELSE [x EXCEPT !.stage = "persist", !.plans = Billable(x)]
  <2>1. sweep[w] \in Sweeping
    BY <1>4, BusySweep DEF ReadLedgerPage
  <2>2. read \in [Line -> Nat]
    BY <2>1 DEF Sweeping
  <2>3. x \in Sweeping /\ x.active \subseteq Subscriber
    BY <2>1, <2>2 DEF Sweeping
  <2>4. Billable(x) \subseteq Subscriber
    BY <2>3 DEF Billable
  <2> HIDE DEF x
  <2>5. y \in Sweeping \cup {IdleSweep}
    <3>1. [x EXCEPT !.from = @ + Page] \in Sweeping
      <4>1. x.from + Page \in Nat
        BY <2>3, SweepAssumption DEF Sweeping
      <4>2. QED
        BY <2>3, <4>1 DEF Sweeping
    <3>2. [x EXCEPT !.stage = "persist", !.plans = Billable(x)] \in Sweeping
      BY <2>3, <2>4 DEF Sweeping
    <3>3. QED
      BY <3>1, <3>2
  <2>6. sweep' = [sweep EXCEPT ![w] = y]
    BY <1>4 DEF ReadLedgerPage, x
  <2>7. QED
    BY <1>4, <2>5, <2>6, SweepUpdate DEF ReadLedgerPage
<1>5. CASE SweepStops(w)
  BY <1>5, SweepUpdate DEF SweepStops
<1>6. QED
  BY <1>1, <1>2, <1>3, <1>4, <1>5

(* What persisting does to the books: nothing, or it fills those of one    *)
(* settlement that was absent with unbilled lines of the plan.             *)
LEMMA PersistBooks ==
  ASSUME SweepShape, NEW w \in Sweep, NEW u \in Subscriber, PersistSettlement(w, u)
  PROVE  LET s == <<u, sweep[w].boundary>> IN
         /\ s \in Settlement
         /\ \/ UNCHANGED books
            \/ /\ row[s].status = "absent"
               /\ \A t \in Settlement : t # s => books'[t] = books[t]
               /\ books'[s].lines = PlanLines(sweep[w], u) \ LinkedLines
<1> DEFINE s == <<u, sweep[w].boundary>>
<1>1. sweep[w] \in Sweeping
  BY BusySweep DEF PersistSettlement
<1>2. s \in Settlement
  BY <1>1, SweepAssumption DEF Sweeping
<1>3. CASE row[s].status = "absent"
  BY <1>2, <1>3 DEF PersistSettlement, SweepShape
<1>4. CASE row[s].status # "absent"
  BY <1>2, <1>4 DEF PersistSettlement
<1>5. QED
  BY <1>2, <1>3, <1>4

(* Persisting keeps the shapes.                                            *)
LEMMA ShapePersist ==
  ASSUME SweepShape, NEW w \in Sweep, NEW u \in Subscriber, PersistSettlement(w, u)
  PROVE  SweepShape'
<1> DEFINE x == IF sweep[w].plans = {u} THEN IdleSweep
                ELSE [sweep[w] EXCEPT !.plans = @ \ {u}]
<1>1. sweep[w] \in Sweeping
  BY BusySweep DEF PersistSettlement
<1>2. x \in Sweeping \cup {IdleSweep}
  BY <1>1 DEF Sweeping
<1>3. sweep' = [sweep EXCEPT ![w] = x]
  BY DEF PersistSettlement
<1>4. sweep' \in [Sweep -> Sweeping \cup {IdleSweep}]
  BY <1>2, <1>3 DEF SweepShape
<1>5. books' = [s \in Settlement |-> books'[s]]
  BY DEF PersistSettlement, SweepShape
<1>6. \A s \in Settlement : books'[s].lines \subseteq Line
  BY PersistBooks DEF SweepShape, PlanLines
<1>7. ledger' = ledger /\ now' = now
  BY DEF PersistSettlement
<1>8. QED
  BY <1>4, <1>5, <1>6, <1>7 DEF SweepShape, Cycle

(* The environment keeps the shapes.                                       *)
LEMMA ShapeEnvironment ==
  ASSUME SweepShape,
         \/ \E l \in Line : Capture(l)
         \/ \E u \in Subscriber : SweptSubscriberMoves(u)
         \/ TimePasses \/ ToggleSweep \/ UNCHANGED sweepVars
  PROVE  SweepShape'
<1>1. CASE \E l \in Line : Capture(l)
  BY <1>1 DEF Capture, SweepShape, Cycle
<1>2. CASE TimePasses
  <2>1. now' \in 2..MaxTime
    BY <1>2, SweepAssumption DEF TimePasses, SweepShape
  <2>2. UNCHANGED <<books, ledger, sweep>>
    BY <1>2 DEF TimePasses
  <2>3. QED
    BY <2>1, <2>2 DEF SweepShape, Cycle
<1>3. CASE UNCHANGED <<books, ledger, sweep, now>>
  BY <1>3 DEF SweepShape, Cycle
<1>4. QED
  BY <1>1, <1>2, <1>3 DEF SweptSubscriberMoves, ToggleSweep, sweepVars

(* Every step keeps the shapes.                                            *)
LEMMA ShapeStep ==
  ASSUME SweepShape, [SweepNext]_sweepVars
  PROVE  SweepShape'
BY ShapeReads, ShapePersist, ShapeEnvironment DEF SweepNext, SweepStep

-----------------------------------------------------------------------------
(* What the sweeps have read was owed when it was read, and still is.      *)
LEMMA OwedInit == SweepInit => ReadsAreOwed
BY DEF SweepInit, SweepLocalsInit, ReadsAreOwed

(* A sweep that has read nothing new keeps what it says of the ledger.     *)
LEMMA OwedUnread ==
  ASSUME SweepShape, ReadsAreOwed, NEW w \in Sweep, NEW x,
         x # IdleSweep => /\ sweep[w] # IdleSweep
                          /\ x.read = sweep[w].read
                          /\ x.boundary = sweep[w].boundary,
         sweep' = [sweep EXCEPT ![w] = x], UNCHANGED ledger
  PROVE  ReadsAreOwed'
BY DEF SweepShape, ReadsAreOwed

(* Every step keeps the reads owed: a page is in scope, and nothing that   *)
(* was captured leaves the ledger.                                         *)
LEMMA OwedStep ==
  ASSUME SweepShape, ReadsAreOwed, [SweepNext]_sweepVars
  PROVE  ReadsAreOwed'
<1>1. CASE \E w \in Sweep : StartSweep(w)
  <2>1. PICK w \in Sweep : StartSweep(w)
    BY <1>1
  <2>2. sweep'[w].read = [l \in Line |-> 0]
    BY <2>1 DEF StartSweep, SweepShape
  <2>3. \A v \in Sweep : v # w => sweep'[v] = sweep[v]
    BY <2>1 DEF StartSweep, SweepShape
  <2>4. ledger' = ledger
    BY <2>1 DEF StartSweep
  <2>5. QED
    BY <2>2, <2>3, <2>4 DEF ReadsAreOwed
<1>2. CASE \E w \in Sweep : ReadSubscribers(w)
  <2>1. PICK w \in Sweep : ReadSubscribers(w)
    BY <1>2
  <2> DEFINE active == {u \in Subscriber : sub[u] # "inactive"}
             y == [sweep[w] EXCEPT !.stage = "linked", !.active = active]
             x == IF active = {} THEN IdleSweep
                  ELSE y
  <2>2. sweep[w] \in Sweeping /\ sweep[w] # IdleSweep
    BY <2>1, BusySweep DEF ReadSubscribers
  <2>3. y.read = sweep[w].read /\ y.boundary = sweep[w].boundary
    BY <2>2 DEF Sweeping
  <2>4. sweep' = [sweep EXCEPT ![w] = x] /\ ledger' = ledger
    BY <2>1 DEF ReadSubscribers
  <2> HIDE DEF y
  <2>6. x # IdleSweep => /\ sweep[w] # IdleSweep
                         /\ x.read = sweep[w].read
                         /\ x.boundary = sweep[w].boundary
    BY <2>2, <2>3
  <2> HIDE DEF x
  <2>7. QED
    BY <2>4, <2>6, OwedUnread
<1>3. CASE \E w \in Sweep : ReadLinkedPage(w)
  <2>1. PICK w \in Sweep : ReadLinkedPage(w)
    BY <1>3
  <2> DEFINE page == Window(LinkedLines, sweep[w].from)
             x == [sweep[w] EXCEPT !.stage = "ledger", !.from = 0,
                                   !.linked = @ \cup page]
             y == [sweep[w] EXCEPT !.from = @ + Page, !.linked = @ \cup page]
  <2>2. sweep[w] \in Sweeping /\ sweep[w] # IdleSweep
    BY <2>1, BusySweep DEF ReadLinkedPage
  <2>3. /\ x.read = sweep[w].read /\ x.boundary = sweep[w].boundary
        /\ y.read = sweep[w].read /\ y.boundary = sweep[w].boundary
    BY <2>2 DEF Sweeping
  <2>4. sweep' = [sweep EXCEPT ![w] = x] \/ sweep' = [sweep EXCEPT ![w] = y]
    BY <2>1 DEF ReadLinkedPage
  <2>5. ledger' = ledger
    BY <2>1 DEF ReadLinkedPage
  <2> HIDE DEF x, y
  <2>6. QED
    BY <2>2, <2>3, <2>4, <2>5, OwedUnread
<1>4. CASE \E w \in Sweep : ReadLedgerPage(w)
  <2>1. PICK w \in Sweep : ReadLedgerPage(w)
    BY <1>4
  <2> DEFINE page == Window(InScope(sweep[w].boundary), sweep[w].from)
             read == [l \in Line |-> IF l \in page THEN sweep[w].read[l] + 1
                                     ELSE sweep[w].read[l]]
             x == [sweep[w] EXCEPT !.read = read]
  <2>2. sweep[w] \in Sweeping /\ sweep[w] # IdleSweep
    BY <2>1, BusySweep DEF ReadLedgerPage
  <2>3. x.read = read /\ x.boundary = sweep[w].boundary
    BY <2>2 DEF Sweeping
  <2>4. \A l \in Line : read[l] > 0 =>
          /\ l \notin PrepaidLine
          /\ ledger[l] # NotCaptured /\ ledger[l] <= sweep[w].boundary
    <3> SUFFICES ASSUME NEW l \in Line, read[l] > 0
                 PROVE  /\ l \notin PrepaidLine
                        /\ ledger[l] # NotCaptured /\ ledger[l] <= sweep[w].boundary
      OBVIOUS
    <3>1. CASE l \in page
      BY <3>1 DEF Window, InScope
    <3>2. CASE l \notin page
      BY <3>2, <2>2 DEF ReadsAreOwed
    <3>3. QED
      BY <3>1, <3>2
  <2>5. sweep'[w] # IdleSweep =>
          /\ sweep'[w].read = read
          /\ sweep'[w].boundary = sweep[w].boundary
    <3>1. sweep' = [sweep EXCEPT ![w] =
            IF Cardinality(page) = Page THEN [x EXCEPT !.from = @ + Page]
            ELSE IF Billable(x) = {} THEN IdleSweep
            ELSE [x EXCEPT !.stage = "persist", !.plans = Billable(x)]]
      BY <2>1 DEF ReadLedgerPage
    <3>2. /\ [x EXCEPT !.from = @ + Page].read = x.read
          /\ [x EXCEPT !.from = @ + Page].boundary = x.boundary
          /\ [x EXCEPT !.stage = "persist", !.plans = Billable(x)].read = x.read
          /\ [x EXCEPT !.stage = "persist", !.plans = Billable(x)].boundary
               = x.boundary
      <4>1. x \in [stage : {sweep[w].stage}, boundary : {sweep[w].boundary},
                   active : {sweep[w].active}, linked : {sweep[w].linked},
                   from : {sweep[w].from}, read : {read},
                   plans : {sweep[w].plans}]
        BY <2>2 DEF Sweeping
      <4> HIDE DEF x
      <4>2. QED
        BY <4>1
    <3> HIDE DEF x, read
    <3>3. QED
      BY <3>1, <3>2, <2>3 DEF SweepShape
  <2>6. /\ \A v \in Sweep : v # w => sweep'[v] = sweep[v]
        /\ ledger' = ledger
    BY <2>1 DEF ReadLedgerPage, SweepShape
  <2> HIDE DEF read
  <2>7. QED
    BY <2>4, <2>5, <2>6 DEF ReadsAreOwed
<1>5. CASE \E w \in Sweep : SweepStops(w)
  <2>1. PICK w \in Sweep : SweepStops(w)
    BY <1>5
  <2>2. sweep' = [sweep EXCEPT ![w] = IdleSweep] /\ ledger' = ledger
    BY <2>1 DEF SweepStops
  <2>3. QED
    BY <2>2, OwedUnread
<1>6. CASE \E w \in Sweep, u \in Subscriber : PersistSettlement(w, u)
  <2>1. PICK w \in Sweep, u \in Subscriber : PersistSettlement(w, u)
    BY <1>6
  <2> DEFINE y == [sweep[w] EXCEPT !.plans = @ \ {u}]
             x == IF sweep[w].plans = {u} THEN IdleSweep
                  ELSE y
  <2>2. sweep[w] \in Sweeping /\ sweep[w] # IdleSweep
    BY <2>1, BusySweep DEF PersistSettlement
  <2>3. y.read = sweep[w].read /\ y.boundary = sweep[w].boundary
    BY <2>2 DEF Sweeping
  <2>4. sweep' = [sweep EXCEPT ![w] = x] /\ ledger' = ledger
    BY <2>1 DEF PersistSettlement
  <2> HIDE DEF y
  <2>6. x # IdleSweep => /\ sweep[w] # IdleSweep
                         /\ x.read = sweep[w].read
                         /\ x.boundary = sweep[w].boundary
    BY <2>2, <2>3
  <2> HIDE DEF x
  <2>7. QED
    BY <2>4, <2>6, OwedUnread
<1>7. CASE \E l \in Line : Capture(l)
  BY <1>7 DEF Capture, ReadsAreOwed, SweepShape
<1>8. CASE UNCHANGED <<sweep, ledger>>
  BY <1>8 DEF ReadsAreOwed
<1>9. QED
  BY <1>1, <1>2, <1>3, <1>4, <1>5, <1>6, <1>7, <1>8
  DEF SweepNext, SweepStep, SweptSubscriberMoves, TimePasses, ToggleSweep, sweepVars

-----------------------------------------------------------------------------
(* Persisting bills rows that no settlement has, and that are owed.        *)
LEMMA PersistKeepsBooks ==
  ASSUME SweepShape, ReadsAreOwed, EachFeeInOneSettlement, BillsOnlyWhatIsOwed,
         NEW w \in Sweep, NEW u \in Subscriber, PersistSettlement(w, u)
  PROVE  EachFeeInOneSettlement' /\ BillsOnlyWhatIsOwed'
<1> DEFINE s == <<u, sweep[w].boundary>>
           new == PlanLines(sweep[w], u) \ LinkedLines
<1>1. s \in Settlement /\ sweep[w] \in Sweeping /\ sweep[w] # IdleSweep
  BY PersistBooks, BusySweep DEF PersistSettlement
<1>2. CASE UNCHANGED books
  BY <1>2 DEF PersistSettlement, EachFeeInOneSettlement, BillsOnlyWhatIsOwed
<1>3. CASE /\ \A t \in Settlement : t # s => books'[t] = books[t]
           /\ books'[s].lines = new
  <2>1. \A t \in Settlement : new \cap books[t].lines = {}
    BY DEF LinkedLines
  <2>2. EachFeeInOneSettlement'
    BY <1>1, <1>3, <2>1 DEF EachFeeInOneSettlement
  <2>3. \A l \in new : /\ LineSubscriber[l] = u
                      /\ l \notin PrepaidLine
                      /\ ledger[l] # NotCaptured
                      /\ ledger[l] <= sweep[w].boundary
    BY <1>1 DEF PlanLines, ReadsAreOwed
  <2>4. s[1] = u /\ s[2] = sweep[w].boundary
    OBVIOUS
  <2>5. ledger' = ledger
    BY DEF PersistSettlement
  <2>6. BillsOnlyWhatIsOwed'
    BY <1>1, <1>3, <2>3, <2>4, <2>5 DEF BillsOnlyWhatIsOwed
  <2>7. QED
    BY <2>2, <2>6
<1>4. QED
  BY <1>2, <1>3, PersistBooks

(* The invariant of all sweeps: the shapes, the reads and the books.       *)
SweepInv ==
  SweepShape /\ ReadsAreOwed /\ EachFeeInOneSettlement /\ BillsOnlyWhatIsOwed

(* No other step writes books, and a captured row is not billed yet.       *)
LEMMA SweepInvStep ==
  ASSUME SweepInv, [SweepNext]_sweepVars
  PROVE  SweepInv'
<1>1. SweepShape' /\ ReadsAreOwed'
  BY ShapeStep, OwedStep DEF SweepInv
<1>2. CASE \E w \in Sweep, u \in Subscriber : PersistSettlement(w, u)
  BY <1>1, <1>2, PersistKeepsBooks DEF SweepInv
<1>3. CASE \E l \in Line : Capture(l)
  <2>1. PICK l \in Line : Capture(l)
    BY <1>3
  <2>2. books' = books /\ ledger[l] = NotCaptured
    BY <2>1 DEF Capture
  <2>3. \A k \in Line : k # l => ledger'[k] = ledger[k]
    BY <2>1 DEF Capture, SweepInv, SweepShape
  <2>4. \A s \in Settlement : books[s].lines \subseteq Line \ {l}
    BY <2>2 DEF SweepInv, SweepShape, BillsOnlyWhatIsOwed
  <2>5. EachFeeInOneSettlement' /\ BillsOnlyWhatIsOwed'
    BY <2>2, <2>3, <2>4 DEF SweepInv, EachFeeInOneSettlement, BillsOnlyWhatIsOwed
  <2>6. QED
    BY <1>1, <2>5 DEF SweepInv
<1>4. CASE UNCHANGED <<books, ledger>>
  BY <1>1, <1>4 DEF SweepInv, EachFeeInOneSettlement, BillsOnlyWhatIsOwed
<1>5. QED
  BY <1>2, <1>3, <1>4
  DEF SweepNext, SweepStep, StartSweep, ReadSubscribers, ReadLinkedPage,
      ReadLedgerPage, SweepStops, SweptSubscriberMoves, TimePasses, ToggleSweep,
      sweepVars

(* The invariant holds in every reachable state.                           *)
THEOREM SweepInvariant == SweepSpec => []SweepInv
<1>1. SweepInit => SweepInv
  <2>1. SweepInit => EachFeeInOneSettlement /\ BillsOnlyWhatIsOwed
    BY DEF SweepInit, SettlementsInit, NoBooks, EachFeeInOneSettlement,
           BillsOnlyWhatIsOwed
  <2>2. QED
    BY <2>1, ShapeInit, OwedInit DEF SweepInv
<1>2. SweepInv /\ [SweepNext]_sweepVars => SweepInv'
  BY SweepInvStep
<1>3. QED
  BY <1>1, <1>2, PTL DEF SweepSpec

(* However many sweeps overlap, whatever pages they read and wherever they *)
(* stop, a captured fee is billed by at most one settlement.               *)
THEOREM EachFeeInOneSettlementHolds == SweepSpec => []EachFeeInOneSettlement
<1>1. SweepInv => EachFeeInOneSettlement
  BY DEF SweepInv
<1>2. QED
  BY <1>1, SweepInvariant, PTL

(* A settlement only ever bills its own subscriber's captured, accrued and *)
(* sweep-billable fees.                                                    *)
THEOREM BillsOnlyWhatIsOwedHolds == SweepSpec => []BillsOnlyWhatIsOwed
<1>1. SweepInv => BillsOnlyWhatIsOwed
  BY DEF SweepInv
<1>2. QED
  BY <1>1, SweepInvariant, PTL

(* The books of a settlement are frozen once it exists.                    *)
THEOREM BooksAreFrozenHolds == SweepSpec => BooksAreFrozen
<1> DEFINE Frozen == \A s \in Settlement :
                       row[s].status # "absent" => books'[s] = books[s]
<1>1. SweepInv /\ [SweepNext]_sweepVars => [Frozen]_<<row, books>>
  <2> SUFFICES ASSUME SweepInv, [SweepNext]_sweepVars PROVE [Frozen]_<<row, books>>
    OBVIOUS
  <2>1. CASE \E w \in Sweep, u \in Subscriber : PersistSettlement(w, u)
    BY <2>1, PersistBooks DEF SweepInv
  <2>2. CASE UNCHANGED books
    BY <2>2
  <2>3. QED
    BY <2>1, <2>2
    DEF SweepNext, SweepStep, StartSweep, ReadSubscribers, ReadLinkedPage,
        ReadLedgerPage, SweepStops, Capture, SweptSubscriberMoves, TimePasses,
        ToggleSweep, sweepVars
<1>2. QED
  BY <1>1, SweepInvariant, PTL DEF SweepSpec, BooksAreFrozen

-----------------------------------------------------------------------------
(* Part 2. The charge. *)

(* A run that is past selection has a full working state.                  *)
LEMMA BusyRun ==
  ASSUME ChargeTypeOK, NEW r \in Run, run[r].pc # "idle"
  PROVE  /\ run[r] \in Work
         /\ run[r].pc \in {"items", "pay"} => run[r].invoice \in Slot
         /\ run[r].pc = "write" => run[r].result \in {"paid", "failed"}
<1>1. run[r] \in RunState /\ run[r] # Idle
  BY DEF ChargeTypeOK, Idle
<1>2. QED
  BY <1>1 DEF RunState, Work

(* A webhook invocation that has started holds an event.                   *)
LEMMA BusyHook ==
  ASSUME ChargeTypeOK, NEW h \in Hook, hook[h].step # "idle"
  PROVE  hook[h] \in Handling
BY DEF ChargeTypeOK, IdleHook

(* Only one run changes, to a well-typed state.                            *)
LEMMA RunUpdate ==
  ASSUME ChargeTypeOK, NEW r \in Run, NEW w \in Work,
         w.pc \in {"items", "pay"} => w.invoice # NoInvoice,
         w.pc = "write" => w.result # "none",
         run' = [run EXCEPT ![r] = w]
  PROVE  run' \in [Run -> RunState]
<1>1. w \in RunState
  BY DEF RunState
<1>2. QED
  BY <1>1 DEF ChargeTypeOK

(* Giving up leaves a well-typed run that is about to write a failure.     *)
LEMMA GiveUpType ==
  ASSUME ChargeTypeOK, NEW r \in Run, run[r] \in Work,
         NEW why \in {"none", "no_customer", "reconcile", "invoice_build", "payment"},
         NEW inv \in Slot \cup {NoInvoice}, GiveUp(r, why, inv)
  PROVE  run' \in [Run -> RunState]
<1> DEFINE w == [run[r] EXCEPT !.pc = "write", !.result = "failed", !.why = why,
                               !.invoice = inv, !.todo = {}]
<1>1. w \in Work /\ w.pc = "write" /\ w.result = "failed"
  BY DEF Work
<1>2. run' = [run EXCEPT ![r] = w]
  BY DEF GiveUp
<1>3. QED
  BY <1>1, <1>2, RunUpdate

(* The initial state is well typed.                                        *)
LEMMA TypeInit == ChargeInit => ChargeTypeOK
<1> SUFFICES ASSUME ChargeInit PROVE ChargeTypeOK
  OBVIOUS
<1>1. TablesTypeOK
  BY SettlementAssumption, ChargeAssumption
  DEF ChargeInit, TablesTypeOK, NewRow, Row, Status, Claim, NoInvoice
<1>2. StripeTypeOK
  BY DEF ChargeInit, ChargeLocalsInit, StripeInit, StripeTypeOK, Invoice, NoItems
<1>3. QED
  BY <1>1, <1>2, ChargeAssumption
  DEF ChargeInit, ChargeLocalsInit, ChargeTypeOK, HistoryTypeOK, RunState

(* Only one invoice changes, to a well-typed one.                          *)
LEMMA InvoiceUpdate ==
  ASSUME invoices \in [Settlement -> [Slot -> Invoice]],
         NEW s \in Settlement, NEW i \in Slot, NEW x \in Invoice
  PROVE  [invoices EXCEPT ![s][i] = x] \in [Settlement -> [Slot -> Invoice]]
<1>1. [invoices[s] EXCEPT ![i] = x] \in [Slot -> Invoice]
  OBVIOUS
<1>2. QED
  BY <1>1

(* Moving an invoice to another status keeps the table well typed.         *)
LEMMA StatusUpdate ==
  ASSUME StripeTypeOK, NEW s \in Settlement, NEW i \in Slot,
         NEW st \in {"none", "draft", "open", "paid"}
  PROVE  [invoices EXCEPT ![s][i].status = st] \in [Settlement -> [Slot -> Invoice]]
<1> DEFINE x == [invoices[s][i] EXCEPT !.status = st]
<1>1. x \in Invoice
  BY DEF StripeTypeOK, Invoice
<1>2. [invoices EXCEPT ![s][i].status = st] = [invoices EXCEPT ![s][i] = x]
  OBVIOUS
<1>3. QED
  BY <1>1, <1>2, InvoiceUpdate DEF StripeTypeOK

(* Creating an invoice keeps Stripe's side well typed.                     *)
LEMMA TypeCreate ==
  ASSUME StripeTypeOK, NEW s \in Settlement, NEW i \in Slot, CreateInvoice(s, i)
  PROVE  StripeTypeOK'
<1>1. CASE UNCHANGED <<invoices, liveKey>>
  BY <1>1 DEF StripeTypeOK, CreateInvoice
<1>2. CASE /\ invoices' = [invoices EXCEPT ![s][i].status = "draft"]
           /\ liveKey' = [liveKey EXCEPT ![s] = i]
  <2>1. invoices' \in [Settlement -> [Slot -> Invoice]]
    BY <1>2, StatusUpdate
  <2>2. liveKey' \in [Settlement -> Slot \cup {NoInvoice}]
    BY <1>2 DEF StripeTypeOK
  <2>3. QED
    BY <2>1, <2>2 DEF StripeTypeOK, CreateInvoice
<1>3. QED
  BY <1>1, <1>2 DEF CreateInvoice

(* Adding an item keeps Stripe's side well typed.                          *)
LEMMA TypeAddItem ==
  ASSUME StripeTypeOK, NEW s \in Settlement, NEW i \in Slot, NEW l \in Line,
         AddInvoiceItem(s, i, l)
  PROVE  StripeTypeOK'
<1>1. CASE UNCHANGED <<invoices, itemKeys>>
  BY <1>1 DEF StripeTypeOK, AddInvoiceItem
<1>2. CASE /\ invoices' = [invoices EXCEPT ![s][i].items[l] = @ + 1]
           /\ itemKeys' = [itemKeys EXCEPT ![s] = @ \cup {l}]
  <2> DEFINE y == [invoices[s][i].items EXCEPT ![l] = @ + 1]
             x == [invoices[s][i] EXCEPT !.items = y]
  <2>1. invoices[s][i] \in Invoice
    BY DEF StripeTypeOK
  <2>2. y \in [Line -> Nat]
    BY <2>1 DEF Invoice
  <2>3. x \in Invoice
    BY <2>1, <2>2 DEF Invoice
  <2>4. invoices' = [invoices EXCEPT ![s][i] = x]
    BY <1>2
  <2>5. invoices' \in [Settlement -> [Slot -> Invoice]]
    BY <2>3, <2>4, InvoiceUpdate DEF StripeTypeOK
  <2>6. itemKeys' \in [Settlement -> SUBSET Line]
    BY <1>2 DEF StripeTypeOK
  <2>7. QED
    BY <2>5, <2>6 DEF StripeTypeOK, AddInvoiceItem
<1>3. QED
  BY <1>1, <1>2 DEF AddInvoiceItem

(* Finalizing an invoice keeps Stripe's side well typed.                   *)
LEMMA TypeFinalize ==
  ASSUME StripeTypeOK, NEW s \in Settlement, NEW i \in Slot, FinalizeInvoice(s, i)
  PROVE  StripeTypeOK'
BY StatusUpdate DEF StripeTypeOK, FinalizeInvoice

(* Collecting a payment keeps Stripe's side well typed.                    *)
LEMMA TypeCollect ==
  ASSUME StripeTypeOK, NEW s \in Settlement, NEW i \in Slot, CollectPayment(s, i)
  PROVE  StripeTypeOK'
<1>1. invoices' \in [Settlement -> [Slot -> Invoice]]
  BY StatusUpdate DEF CollectPayment
<1>2. [type |-> "payment_succeeded", s |-> s, invoice |-> i, n |-> 0] \in Event
  BY StripeAssumption DEF Event
<1>3. QED
  BY <1>1, <1>2 DEF StripeTypeOK, CollectPayment

(* Declining a payment keeps Stripe's side well typed.                     *)
LEMMA TypeDecline ==
  ASSUME StripeTypeOK, NEW s \in Settlement, NEW i \in Slot, DeclinePayment(s, i)
  PROVE  StripeTypeOK'
BY StripeAssumption DEF StripeTypeOK, DeclinePayment, Event

(* Forgetting a key keeps Stripe's side well typed.                        *)
LEMMA TypeExpire ==
  ASSUME StripeTypeOK, NEW s \in Settlement, ExpireKeys(s)
  PROVE  StripeTypeOK'
BY DEF StripeTypeOK, ExpireKeys

(* Selecting reads only; the working state starts well typed.              *)
LEMMA TypeSelect ==
  ASSUME ChargeTypeOK, NEW r \in Run, NEW s \in Settlement, SelectCandidate(r, s)
  PROVE  ChargeTypeOK'
<1> DEFINE w == [pc |-> "selected", s |-> s, attempts |-> row[s].attempts,
                 invoice |-> row[s].invoice, sub |-> "inactive", todo |-> {},
                 result |-> "none", why |-> "none"]
<1>1. row[s] \in Row
  BY DEF ChargeTypeOK, TablesTypeOK
<1>2. w \in Work
  BY <1>1 DEF Row, Work, SubscriberState
<1>3. run' \in [Run -> RunState]
  BY <1>2 DEF SelectCandidate, ChargeTypeOK, RunState
<1>4. QED
  BY <1>3 DEF SelectCandidate, ChargeTypeOK, TablesTypeOK, StripeTypeOK, HistoryTypeOK, history, tables,
              stripeVars

(* The batch loads keep the types.                                         *)
LEMMA TypeLoad ==
  ASSUME ChargeTypeOK, NEW r \in Run, LoadContext(r)
  PROVE  ChargeTypeOK'
<1>1. run[r] \in Work
  BY BusyRun DEF LoadContext
<1>2. PICK ls \in LoadedLines(run[r].s) :
        run' = [run EXCEPT ![r].pc = "loaded", ![r].todo = ls,
                           ![r].sub = sub[SubscriberOf[run[r].s]]]
  BY DEF LoadContext
<1>3. ls \subseteq Line
  BY <1>1, <1>2 DEF ChargeTypeOK, TablesTypeOK, LoadedLines, Work, Books
<1>4. sub[SubscriberOf[run[r].s]] \in SubscriberState
  BY <1>1, SettlementAssumption DEF ChargeTypeOK, TablesTypeOK, Work
<1>5. run' \in [Run -> RunState]
  BY <1>1, <1>2, <1>3, <1>4 DEF ChargeTypeOK, RunState, Work
<1>6. QED
  BY <1>5 DEF LoadContext, ChargeTypeOK, TablesTypeOK, StripeTypeOK, HistoryTypeOK, history, tables,
              stripeVars

(* The drain's other steps that leave the tables and Stripe alone.         *)
LEMMA TypeLocalStep ==
  ASSUME ChargeTypeOK, NEW r \in Run,
         \/ SkipInactive(r) \/ LoseClaim(r) \/ RefuseToCharge(r)
         \/ ResumeAtPayment(r) \/ BuildThrows(r) \/ PayThrows(r)
  PROVE  ChargeTypeOK'
<1>1. UNCHANGED <<tables, stripeVars, hook, audited, chargingEnabled, crashes, history>>
  BY DEF SkipInactive, LoseClaim, RefuseToCharge, ResumeAtPayment, BuildThrows,
         PayThrows
<1>2. run[r] \in Work /\ run \in [Run -> RunState]
  BY BusyRun DEF ChargeTypeOK, SkipInactive, LoseClaim, RefuseToCharge,
                 ResumeAtPayment, BuildThrows, PayThrows
<1>3. run' \in [Run -> RunState]
  <2>1. CASE SkipInactive(r) \/ LoseClaim(r)
    BY <2>1, <1>2 DEF SkipInactive, LoseClaim, RunState
  <2>2. CASE RefuseToCharge(r)
    BY <2>2, <1>2, GiveUpType DEF RefuseToCharge
  <2>3. CASE ResumeAtPayment(r)
    <3> DEFINE w == [run[r] EXCEPT !.pc = "pay", !.todo = {}]
    <3>1. w \in Work /\ w.pc = "pay" /\ w.invoice # NoInvoice
      BY <2>3, <1>2 DEF ResumeAtPayment, Work
    <3>2. run' = [run EXCEPT ![r] = w]
      BY <2>3 DEF ResumeAtPayment
    <3>3. QED
      BY <3>1, <3>2, RunUpdate
  <2>4. CASE BuildThrows(r)
    BY <2>4, <1>2, GiveUpType DEF BuildThrows
  <2>5. CASE PayThrows(r)
    BY <2>5, <1>2, GiveUpType DEF PayThrows, Work
  <2>6. QED
    BY <2>1, <2>2, <2>3, <2>4, <2>5
<1>4. QED
  BY <1>1, <1>3 DEF ChargeTypeOK, TablesTypeOK, StripeTypeOK, HistoryTypeOK, history, tables, stripeVars

(* Whose claims are displaced are runs.                                    *)
LEMMA TypeDisplaces ==
  ASSUME HistoryTypeOK, NEW s, NEW others \in SUBSET Run, Displaces(s, others)
  PROVE  HistoryTypeOK'
BY DEF HistoryTypeOK, Displaces

(* The claim keeps the types.                                              *)
LEMMA TypeClaim ==
  ASSUME ChargeTypeOK, NEW r \in Run, ClaimForCharge(r)
  PROVE  ChargeTypeOK'
<1>1. run[r] \in Work
  BY BusyRun DEF ClaimForCharge
<1>2. run' \in [Run -> RunState]
  BY <1>1 DEF ClaimForCharge, ChargeTypeOK, RunState, Work
<1>3. row' \in [Settlement -> Row]
  BY <1>1 DEF ClaimForCharge, ChargeTypeOK, TablesTypeOK, Work, Row, Status, Claim
<1>4. QED
  BY <1>2, <1>3 DEF ClaimForCharge, ChargeTypeOK, TablesTypeOK, HistoryTypeOK,
                    StripeTypeOK, stripeVars

(* The drain's last update keeps the types.                                *)
LEMMA TypeWriteOutcome ==
  ASSUME ChargeTypeOK, NEW r \in Run, WriteOutcome(r)
  PROVE  ChargeTypeOK'
<1>1. run[r] \in Work /\ run[r].result \in {"paid", "failed"}
  BY BusyRun DEF WriteOutcome
<1> DEFINE s == run[r].s
<1>2. s \in Settlement /\ row[s] \in Row
  BY <1>1 DEF Work, ChargeTypeOK, TablesTypeOK
<1>3. Outcome(row[s], run[r]) \in Row
  <2>1. run[r].attempts + 1 \in Nat /\ run[r].invoice \in Slot \cup {NoInvoice}
    BY <1>1 DEF Work
  <2>2. QED
    BY <1>1, <1>2, <2>1, Zenon DEF Outcome, Row, Status
<1>4. row' \in [Settlement -> Row]
  BY <1>2, <1>3 DEF WriteOutcome, ChargeTypeOK, TablesTypeOK
<1>5. run' \in [Run -> RunState]
  BY DEF WriteOutcome, ChargeTypeOK, RunState
<1>6. QED
  BY <1>4, <1>5, TypeDisplaces DEF WriteOutcome, ChargeTypeOK, TablesTypeOK,
                                   StripeTypeOK, stripeVars

(* The drain's calls to Stripe.                                            *)
LEMMA TypeStripeStep ==
  ASSUME ChargeTypeOK, NEW r \in Run,
         \/ StartInvoice(r) \/ AddItem(r) \/ Finalize(r) \/ Pay(r) \/ PayDeclined(r)
  PROVE  ChargeTypeOK'
<1>1. UNCHANGED <<tables, hook, audited, chargingEnabled, crashes, history>>
  BY DEF StartInvoice, AddItem, Finalize, Pay, PayDeclined
<1>2. /\ run[r] \in Work
      /\ run[r].pc \in {"items", "pay"} => run[r].invoice \in Slot
      /\ run \in [Run -> RunState]
  BY BusyRun DEF ChargeTypeOK, StartInvoice, AddItem, Finalize, Pay, PayDeclined
<1>3. StripeTypeOK /\ run[r].s \in Settlement /\ run[r].todo \subseteq Line
  BY <1>2 DEF ChargeTypeOK, Work
<1>4. StripeTypeOK' /\ run' \in [Run -> RunState]
  <2>1. CASE StartInvoice(r)
    <3>1. PICK i \in Slot :
            /\ CreateInvoice(run[r].s, i)
            /\ run' = [run EXCEPT ![r].pc = "items", ![r].invoice = i]
      BY <2>1 DEF StartInvoice
    <3>2. i # NoInvoice
      BY DEF Slot, NoInvoice
    <3> DEFINE w == [run[r] EXCEPT !.pc = "items", !.invoice = i]
    <3>3. w \in Work /\ w.pc = "items" /\ w.invoice = i
      BY <1>2 DEF Work
    <3>4. run' = [run EXCEPT ![r] = w]
      BY <3>1
    <3>5. run' \in [Run -> RunState]
      BY <3>2, <3>3, <3>4, RunUpdate
    <3>6. QED
      BY <3>1, <3>5, <1>3, TypeCreate
  <2>2. CASE AddItem(r)
    <3>1. PICK l \in run[r].todo :
            /\ AddInvoiceItem(run[r].s, run[r].invoice, l)
            /\ run' = [run EXCEPT ![r].todo = @ \ {l}]
      BY <2>2 DEF AddItem
    <3> DEFINE w == [run[r] EXCEPT !.todo = @ \ {l}]
    <3>2. w \in Work /\ w.pc = "items" /\ w.invoice # NoInvoice
      BY <2>2, <1>2 DEF AddItem, Work, Slot, NoInvoice
    <3>3. run' = [run EXCEPT ![r] = w]
      BY <3>1
    <3>4. run' \in [Run -> RunState]
      BY <3>2, <3>3, RunUpdate
    <3>5. QED
      BY <3>1, <3>4, <1>2, <1>3, <2>2, TypeAddItem DEF AddItem
  <2>3. CASE Finalize(r)
    <3> DEFINE w == [run[r] EXCEPT !.pc = "pay"]
    <3>1. w \in Work /\ w.pc = "pay" /\ w.invoice # NoInvoice
      BY <2>3, <1>2 DEF Finalize, Work, Slot, NoInvoice
    <3>2. run' = [run EXCEPT ![r] = w] \/ GiveUp(r, "invoice_build", NoInvoice)
      BY <2>3 DEF Finalize
    <3>3. run' \in [Run -> RunState]
      BY <3>1, <3>2, <1>2, RunUpdate, GiveUpType
    <3>4. QED
      BY <3>3, <2>3, <1>2, <1>3, TypeFinalize DEF Finalize
  <2>4. CASE Pay(r)
    <3> DEFINE w == [run[r] EXCEPT !.pc = "write", !.result = "paid"]
    <3>1. w \in Work /\ w.pc = "write" /\ w.result = "paid"
      BY <1>2 DEF Work
    <3>2. run' = [run EXCEPT ![r] = w] \/ GiveUp(r, "payment", run[r].invoice)
      BY <2>4 DEF Pay
    <3>3. run[r].invoice \in Slot \cup {NoInvoice}
      BY <1>2 DEF Work
    <3>4. run' \in [Run -> RunState]
      BY <3>1, <3>2, <3>3, <1>2, RunUpdate, GiveUpType
    <3>5. QED
      BY <3>4, <2>4, <1>2, <1>3, TypeCollect DEF Pay
  <2>5. CASE PayDeclined(r)
    <3>1. run' \in [Run -> RunState]
      BY <2>5, <1>2, GiveUpType DEF PayDeclined, Work
    <3>2. QED
      BY <3>1, <2>5, <1>2, <1>3, TypeDecline DEF PayDeclined
  <2>6. QED
    BY <2>1, <2>2, <2>3, <2>4, <2>5
<1>5. QED
  BY <1>1, <1>4 DEF ChargeTypeOK, TablesTypeOK, HistoryTypeOK, history, tables

(* A run that dies keeps the types.                                        *)
LEMMA TypeCrash ==
  ASSUME ChargeTypeOK, NEW r \in Run, Crash(r)
  PROVE  ChargeTypeOK'
<1>1. run' \in [Run -> RunState]
  BY DEF Crash, ChargeTypeOK, RunState
<1>2. crashes' \in 0..MaxCrashes
  BY ChargeAssumption DEF Crash, ChargeTypeOK
<1>3. QED
  BY <1>1, <1>2 DEF Crash, ChargeTypeOK, TablesTypeOK, StripeTypeOK, HistoryTypeOK, history, tables,
                    stripeVars

(* The webhooks' update keeps the types.                                   *)
LEMMA TypeReconcile ==
  ASSUME ChargeTypeOK, NEW h \in Hook, hook[h].step # "idle",
         NEW status \in {"paid", "failed"}, Reconcile(h, status)
  PROVE  ChargeTypeOK'
<1> DEFINE e == hook[h].event
<1>1. hook[h] \in Handling /\ e \in Event
  BY BusyHook DEF Handling
<1>2. e.s \in Settlement /\ e.invoice \in Slot /\ row[e.s] \in Row
  BY <1>1 DEF Event, ChargeTypeOK, TablesTypeOK
<1>3. row' \in [Settlement -> Row]
  <2> DEFINE x == [row[e.s] EXCEPT !.status = status, !.invoice = e.invoice]
  <2>1. x \in Row
    BY <1>2 DEF Row, Status
  <2>2. row' = row \/ row' = [row EXCEPT ![e.s] = x]
    BY <1>2 DEF Reconcile
  <2>3. QED
    BY <1>2, <2>1, <2>2 DEF ChargeTypeOK, TablesTypeOK
<1>4. hook' \in [Hook -> Handling \cup {IdleHook}]
  BY <1>1 DEF Reconcile, ChargeTypeOK, Handling
<1>5. HistoryTypeOK'
  BY TypeDisplaces DEF Reconcile, ChargeTypeOK, HistoryTypeOK, history
<1>6. QED
  BY <1>3, <1>4, <1>5 DEF Reconcile, ChargeTypeOK, TablesTypeOK, StripeTypeOK, stripeVars

(* Every step of a webhook keeps the types.                                *)
LEMMA TypeHookStep ==
  ASSUME ChargeTypeOK, NEW h \in Hook, HookStep(h)
  PROVE  ChargeTypeOK'
<1>1. CASE \E e \in events : Deliver(h, e)
  <2>1. hook' \in [Hook -> Handling \cup {IdleHook}]
    BY <1>1 DEF Deliver, ChargeTypeOK, StripeTypeOK, Handling
  <2>2. QED
    BY <1>1, <2>1 DEF Deliver, ChargeTypeOK, TablesTypeOK, StripeTypeOK, HistoryTypeOK, history, tables,
                      stripeVars
<1>2. CASE SettlementInvoicePaid(h)
  BY <1>2, TypeReconcile DEF SettlementInvoicePaid
<1>3. CASE SettlementInvoiceFailed(h)
  BY <1>3, TypeReconcile DEF SettlementInvoiceFailed
<1>4. CASE WriteAudit(h)
  <2>1. hook[h].event \in Event
    BY <1>4, BusyHook DEF WriteAudit, Handling
  <2>2. QED
    BY <1>4, <2>1 DEF WriteAudit, ChargeTypeOK, TablesTypeOK, StripeTypeOK, HistoryTypeOK, history, tables,
                      stripeVars
<1>5. CASE HookStops(h)
  BY <1>5 DEF HookStops, ChargeTypeOK, TablesTypeOK, StripeTypeOK, HistoryTypeOK, history, tables, stripeVars
<1>6. QED
  BY <1>1, <1>2, <1>3, <1>4, <1>5 DEF HookStep

(* Every step of the environment keeps the types.                          *)
LEMMA TypeEnvironment ==
  ASSUME ChargeTypeOK, Environment
  PROVE  ChargeTypeOK'
<1>1. CASE \E s \in Settlement : ClaimGoesStale(s)
  <2>1. row' \in [Settlement -> Row]
    BY <1>1 DEF ClaimGoesStale, ChargeTypeOK, TablesTypeOK, Row, Claim
  <2>2. QED
    BY <1>1, <2>1 DEF ClaimGoesStale, ChargeTypeOK, TablesTypeOK, StripeTypeOK, HistoryTypeOK, history,
                      stripeVars
<1>2. CASE \E s \in Settlement : PaidOutOfBand(s)
  BY <1>2, TypeCollect
  DEF PaidOutOfBand, ChargeTypeOK, TablesTypeOK, HistoryTypeOK, history, tables
<1>3. CASE \E s \in Settlement : KeysForgotten(s)
  <2>1. HistoryTypeOK'
    BY <1>3 DEF KeysForgotten, ChargeTypeOK, HistoryTypeOK
  <2>2. QED
    BY <1>3, <2>1, TypeExpire DEF KeysForgotten, ChargeTypeOK, TablesTypeOK, tables
<1>4. CASE \E u \in Subscriber : ChangeSubscriber(u)
  BY <1>4, SettlementAssumption
  DEF ChangeSubscriber, SubscriberMoves, ChargeTypeOK, TablesTypeOK, StripeTypeOK, HistoryTypeOK, history, stripeVars
<1>5. CASE ToggleCharging
  BY <1>5 DEF ToggleCharging, ChargeTypeOK, TablesTypeOK, StripeTypeOK, HistoryTypeOK, history, tables,
              stripeVars
<1>6. QED
  BY <1>1, <1>2, <1>3, <1>4, <1>5 DEF Environment

(* Every step keeps the types.                                             *)
LEMMA TypeStep ==
  ASSUME ChargeTypeOK, [ChargeNext]_chargeVars
  PROVE  ChargeTypeOK'
<1>1. CASE UNCHANGED chargeVars
  BY <1>1 DEF chargeVars, ChargeTypeOK, TablesTypeOK, StripeTypeOK, HistoryTypeOK, history, tables, stripeVars
<1>2. ASSUME NEW r \in Run, NEW s \in Settlement, SelectCandidate(r, s)
      PROVE  ChargeTypeOK'
  BY <1>2, TypeSelect
<1>3. ASSUME NEW r \in Run, RunStep(r)
      PROVE  ChargeTypeOK'
  BY <1>3, TypeLoad, TypeLocalStep, TypeClaim, TypeStripeStep, TypeWriteOutcome
  DEF RunStep
<1>4. ASSUME NEW r \in Run, Crash(r)
      PROVE  ChargeTypeOK'
  BY <1>4, TypeCrash
<1>5. ASSUME NEW h \in Hook, HookStep(h)
      PROVE  ChargeTypeOK'
  BY <1>5, TypeHookStep
<1>6. CASE Environment
  BY <1>6, TypeEnvironment
<1>7. QED
  BY <1>1, <1>2, <1>3, <1>4, <1>5, <1>6 DEF ChargeNext

(* Every table, Stripe object and local state keeps its shape: no action   *)
(* of a drain, webhook or crash writes a status, an attempt count or an    *)
(* invoice id outside the columns' types.                                  *)
THEOREM TypeCorrect == ChargeSpec => []ChargeTypeOK
BY TypeInit, TypeStep, PTL DEF ChargeSpec

-----------------------------------------------------------------------------
(***************************************************************************)
(* What the row says is true of Stripe.  PaidIsCollected and               *)
(* StoredInvoiceIsFinalized are not inductive alone: the row is written    *)
(* from a run's snapshot or from an event, so what a run and an event      *)
(* carry must be true as well, and must stay true until it is written.     *)
(***************************************************************************)
Collected(s, i) == invoices[s][i].status = "paid"

(* From "items" to the end of the build a run names a draft; any other     *)
(* invoice id it carries is of a finalized invoice.                        *)
RunsTellTheTruth ==
  \A r \in Run :
    run[r] # Idle =>
      /\ run[r].pc # "items" /\ run[r].invoice # NoInvoice
           => Finalized(run[r].s, run[r].invoice)
      /\ run[r].pc = "write" /\ run[r].result = "paid"
           => run[r].invoice # NoInvoice /\ Collected(run[r].s, run[r].invoice)

EventsTellTheTruth ==
  \A e \in events :
    /\ Finalized(e.s, e.invoice)
    /\ e.type = "payment_succeeded" => Collected(e.s, e.invoice)

HooksCarryEvents ==
  \A h \in Hook : hook[h] # IdleHook => hook[h].event \in events

KnowledgeInv ==
  /\ ChargeTypeOK
  /\ StoredInvoiceIsFinalized
  /\ RunsTellTheTruth
  /\ EventsTellTheTruth
  /\ HooksCarryEvents

MoneyInv == KnowledgeInv /\ PaidIsCollected

(* An invoice never goes back: finalized stays finalized, paid stays paid. *)
LEMMA InvoicesProgress ==
  ASSUME ChargeTypeOK, [ChargeNext]_chargeVars, NEW s \in Settlement, NEW i \in Slot
  PROVE  /\ Finalized(s, i) => Finalized(s, i)'
         /\ Collected(s, i) => Collected(s, i)'
<1> USE DEF Finalized, Collected
<1>1. CASE UNCHANGED invoices
  BY <1>1
<1>2. ASSUME NEW q \in Settlement, NEW j \in Slot, NEW st \in {"draft", "open", "paid"},
             invoices' = [invoices EXCEPT ![q][j].status = st],
             invoices[q][j].status = "paid" => st = "paid",
             invoices[q][j].status = "open" => st \in {"open", "paid"}
      PROVE  /\ Finalized(s, i) => Finalized(s, i)'
             /\ Collected(s, i) => Collected(s, i)'
  <2>1. invoices'[s][i].status
          = IF q = s /\ j = i THEN st ELSE invoices[s][i].status
    BY <1>2 DEF ChargeTypeOK, StripeTypeOK, Invoice
  <2>2. QED
    BY <2>1, <1>2
<1>3. ASSUME NEW q \in Settlement, NEW j \in Slot, NEW l \in Line,
             invoices' = [invoices EXCEPT ![q][j].items[l] = @ + 1]
      PROVE  /\ Finalized(s, i) => Finalized(s, i)'
             /\ Collected(s, i) => Collected(s, i)'
  <2>1. invoices'[s][i].status = invoices[s][i].status
    BY <1>3 DEF ChargeTypeOK, StripeTypeOK, Invoice
  <2>2. QED
    BY <2>1
<1>4. ASSUME NEW r \in Run, RunStep(r)
      PROVE  /\ Finalized(s, i) => Finalized(s, i)'
             /\ Collected(s, i) => Collected(s, i)'
  <2>1. CASE StartInvoice(r)
    <3>1. run[r].s \in Settlement
      BY <2>1, BusyRun DEF StartInvoice, Work
    <3>2. QED
      BY <2>1, <3>1, <1>1, <1>2 DEF StartInvoice, CreateInvoice
  <2>2. CASE AddItem(r)
    <3>1. /\ run[r].s \in Settlement /\ run[r].invoice \in Slot
          /\ run[r].todo \subseteq Line
      BY <2>2, BusyRun DEF AddItem, Work
    <3>2. PICK l \in run[r].todo : AddInvoiceItem(run[r].s, run[r].invoice, l)
      BY <2>2 DEF AddItem
    <3>3. l \in Line
      BY <3>1, <3>2
    <3>4. CASE UNCHANGED invoices
      BY <3>4, <1>1
    <3>5. CASE invoices' = [invoices EXCEPT ![run[r].s][run[r].invoice].items[l] = @ + 1]
      BY <3>5, <3>1, <3>3, <1>3
    <3>6. QED
      BY <3>2, <3>4, <3>5 DEF AddInvoiceItem
  <2>3. CASE Finalize(r)
    <3>1. run[r].s \in Settlement /\ run[r].invoice \in Slot
      BY <2>3, BusyRun DEF Finalize, Work
    <3>2. QED
      BY <2>3, <3>1, <1>2 DEF Finalize, FinalizeInvoice
  <2>4. CASE Pay(r)
    <3>1. run[r].s \in Settlement /\ run[r].invoice \in Slot
      BY <2>4, BusyRun DEF Pay, Work
    <3>2. QED
      BY <2>4, <3>1, <1>2 DEF Pay, CollectPayment
  <2>5. CASE PayDeclined(r)
    BY <2>5, <1>1 DEF PayDeclined, DeclinePayment
  <2>6. QED
    BY <1>4, <2>1, <2>2, <2>3, <2>4, <2>5, <1>1
    DEF RunStep, LoadContext, SkipInactive, ClaimForCharge, LoseClaim,
        RefuseToCharge, ResumeAtPayment, BuildThrows, PayThrows, WriteOutcome,
        stripeVars
<1>5. CASE Environment
  <2>1. CASE \E q \in Settlement : PaidOutOfBand(q)
    BY <2>1, <1>2 DEF PaidOutOfBand, CollectPayment
  <2>2. QED
    BY <1>5, <2>1, <1>1
    DEF Environment, ClaimGoesStale, KeysForgotten, ExpireKeys, ChangeSubscriber,
        ToggleCharging, stripeVars
<1>6. QED
  BY <1>1, <1>4, <1>5
  DEF ChargeNext, chargeVars, SelectCandidate, Crash, HookStep, Deliver,
      SettlementInvoicePaid, SettlementInvoiceFailed, Reconcile, WriteAudit,
      HookStops, stripeVars

(* An event is emitted together with the payment it reports, and nothing   *)
(* that it says is undone.                                                 *)
LEMMA EventsStep ==
  ASSUME KnowledgeInv, [ChargeNext]_chargeVars
  PROVE  EventsTellTheTruth' /\ events \subseteq events'
<1>1. ASSUME NEW e \in events
      PROVE  /\ Finalized(e.s, e.invoice)'
             /\ e.type = "payment_succeeded" => Collected(e.s, e.invoice)'
  <2>1. e.s \in Settlement /\ e.invoice \in Slot
    BY DEF KnowledgeInv, ChargeTypeOK, StripeTypeOK, Event
  <2>2. QED
    BY <2>1, InvoicesProgress DEF KnowledgeInv, EventsTellTheTruth
<1>2. CASE UNCHANGED events
  BY <1>1, <1>2 DEF EventsTellTheTruth
<1>3. ASSUME NEW s \in Settlement, NEW i \in Slot, CollectPayment(s, i)
      PROVE  EventsTellTheTruth' /\ events \subseteq events'
  <2>1. Collected(s, i)' /\ Finalized(s, i)'
    BY <1>3 DEF KnowledgeInv, ChargeTypeOK, StripeTypeOK, Invoice, CollectPayment,
                Collected, Finalized
  <2>2. QED
    BY <1>1, <1>3, <2>1 DEF CollectPayment, EventsTellTheTruth
<1>4. ASSUME NEW s \in Settlement, NEW i \in Slot, DeclinePayment(s, i)
      PROVE  EventsTellTheTruth' /\ events \subseteq events'
  <2>1. Finalized(s, i)'
    BY <1>4 DEF DeclinePayment, Finalized
  <2>2. PICK n \in 1..MaxDeclines :
          events' = events \cup {[type |-> "payment_failed", s |-> s,
                                  invoice |-> i, n |-> n]}
    BY <1>4 DEF DeclinePayment
  <2>3. QED
    BY <1>1, <2>1, <2>2 DEF EventsTellTheTruth
<1>5. ASSUME NEW r \in Run, RunStep(r)
      PROVE  EventsTellTheTruth' /\ events \subseteq events'
  <2>1. CASE Pay(r) \/ PayDeclined(r)
    <3>1. run[r].s \in Settlement /\ run[r].invoice \in Slot
      BY <2>1, BusyRun DEF KnowledgeInv, Pay, PayDeclined, Work
    <3>2. QED
      BY <2>1, <3>1, <1>3, <1>4 DEF Pay, PayDeclined
  <2>2. QED
    BY <1>5, <2>1, <1>2
    DEF RunStep, LoadContext, SkipInactive, ClaimForCharge, LoseClaim,
        RefuseToCharge, ResumeAtPayment, StartInvoice, CreateInvoice, AddItem,
        AddInvoiceItem, Finalize, FinalizeInvoice, BuildThrows, PayThrows,
        WriteOutcome, stripeVars
<1>6. CASE Environment
  <2>1. CASE \E q \in Settlement : PaidOutOfBand(q)
    BY <2>1, <1>3 DEF PaidOutOfBand
  <2>2. QED
    BY <1>6, <2>1, <1>2
    DEF Environment, ClaimGoesStale, KeysForgotten, ExpireKeys, ChangeSubscriber,
        ToggleCharging, stripeVars
<1>7. QED
  BY <1>2, <1>5, <1>6
  DEF ChargeNext, chargeVars, SelectCandidate, Crash, HookStep, Deliver,
      SettlementInvoicePaid, SettlementInvoiceFailed, Reconcile, WriteAudit,
      HookStops, stripeVars

(* A webhook invocation only ever carries an event Stripe emitted.         *)
LEMMA HooksStep ==
  ASSUME KnowledgeInv, [ChargeNext]_chargeVars
  PROVE  HooksCarryEvents'
<1>1. events \subseteq events'
  BY EventsStep
<1>2. CASE UNCHANGED hook
  BY <1>1, <1>2 DEF KnowledgeInv, HooksCarryEvents
<1>3. ASSUME NEW h \in Hook, HookStep(h)
      PROVE  HooksCarryEvents'
  <2>1. CASE \E e \in events : Deliver(h, e)
    BY <1>1, <2>1 DEF Deliver, KnowledgeInv, ChargeTypeOK, HooksCarryEvents
  <2>2. CASE WriteAudit(h) \/ HookStops(h)
    BY <1>1, <2>2 DEF WriteAudit, HookStops, KnowledgeInv, ChargeTypeOK, HooksCarryEvents
  <2>3. CASE SettlementInvoicePaid(h) \/ SettlementInvoiceFailed(h)
    <3>1. hook[h] \in Handling /\ hook[h] # IdleHook
      BY <2>3, BusyHook
      DEF KnowledgeInv, SettlementInvoicePaid, SettlementInvoiceFailed, IdleHook
    <3>2. hook' = [hook EXCEPT ![h].step = "audit"]
      BY <2>3 DEF SettlementInvoicePaid, SettlementInvoiceFailed, Reconcile
    <3>3. hook'[h].event = hook[h].event
      BY <3>1, <3>2 DEF KnowledgeInv, ChargeTypeOK, Handling
    <3>4. QED
      BY <1>1, <3>1, <3>2, <3>3 DEF KnowledgeInv, ChargeTypeOK, HooksCarryEvents
  <2>4. QED
    BY <1>3, <2>1, <2>2, <2>3 DEF HookStep
<1>4. QED
  BY <1>2, <1>3
  DEF ChargeNext, chargeVars, SelectCandidate, Crash, RunStep, LoadContext,
      SkipInactive, ClaimForCharge, LoseClaim, RefuseToCharge, ResumeAtPayment,
      StartInvoice, AddItem, Finalize, BuildThrows, Pay, PayDeclined, PayThrows,
      WriteOutcome, Environment, ClaimGoesStale, PaidOutOfBand, KeysForgotten,
      ChangeSubscriber, ToggleCharging

(* What RunsTellTheTruth asks of one run.                                  *)
Truthful(r) ==
  /\ run[r].pc # "items" /\ run[r].invoice # NoInvoice
       => Finalized(run[r].s, run[r].invoice)
  /\ run[r].pc = "write" /\ run[r].result = "paid"
       => run[r].invoice # NoInvoice /\ Collected(run[r].s, run[r].invoice)

(* A run that does not move stays truthful.                                *)
LEMMA TruthKeeps ==
  ASSUME KnowledgeInv, [ChargeNext]_chargeVars, NEW r \in Run, run[r] # Idle,
         run'[r] = run[r]
  PROVE  Truthful(r)'
<1>1. run[r] \in Work
  BY DEF KnowledgeInv, ChargeTypeOK, RunState
<1>2. run[r].s \in Settlement /\ run[r].invoice \in Slot \cup {NoInvoice}
  BY <1>1 DEF Work
<1>3. run[r].invoice # NoInvoice =>
        /\ Finalized(run[r].s, run[r].invoice)
             => invoices'[run[r].s][run[r].invoice].status \in {"open", "paid"}
        /\ Collected(run[r].s, run[r].invoice)
             => invoices'[run[r].s][run[r].invoice].status = "paid"
  BY <1>2, InvoicesProgress DEF KnowledgeInv, Finalized, Collected
<1>4. QED
  BY <1>3 DEF KnowledgeInv, RunsTellTheTruth, Truthful, Finalized, Collected

(* The snapshot of the row is truthful because the row is.                 *)
LEMMA SelectTruth ==
  ASSUME KnowledgeInv, NEW r \in Run, NEW s \in Settlement, SelectCandidate(r, s)
  PROVE  Truthful(r)'
<1>1. /\ run'[r].pc = "selected" /\ run'[r].s = s
      /\ run'[r].invoice = row[s].invoice /\ invoices' = invoices
  BY DEF SelectCandidate, KnowledgeInv, ChargeTypeOK, stripeVars
<1>2. QED
  BY <1>1 DEF KnowledgeInv, StoredInvoiceIsFinalized, Truthful, Finalized

(* Each further step of a run leaves it idle or truthful.                  *)
LEMMA OwnStepTruth ==
  ASSUME KnowledgeInv, NEW r \in Run, RunStep(r)
  PROVE  run'[r] = Idle \/ Truthful(r)'
<1>1. run[r] \in Work /\ run[r] # Idle
  <2>1. run[r].pc # "idle"
    BY DEF RunStep, LoadContext, SkipInactive, ClaimForCharge, LoseClaim,
           RefuseToCharge, ResumeAtPayment, StartInvoice, AddItem, Finalize,
           BuildThrows, Pay, PayDeclined, PayThrows, WriteOutcome
  <2>2. QED
    BY <2>1, BusyRun DEF KnowledgeInv, Idle
<1>2. run \in [Run -> RunState] /\ Truthful(r)
  BY <1>1 DEF KnowledgeInv, ChargeTypeOK, RunsTellTheTruth, Truthful
<1>3. /\ run[r].s \in Settlement /\ run[r].invoice \in Slot \cup {NoInvoice}
      /\ run[r].pc \in {"items", "pay"} => run[r].invoice \in Slot
  BY <1>1, BusyRun DEF Work, KnowledgeInv, Idle
<1>4. CASE LoadContext(r)
  <2>1. /\ run'[r].pc = "loaded" /\ run'[r].s = run[r].s
        /\ run'[r].invoice = run[r].invoice
    BY <1>1, <1>2, <1>4 DEF LoadContext, Work
  <2>2. QED
    BY <1>2, <1>4, <2>1 DEF LoadContext, Truthful, Finalized, stripeVars
<1>5. CASE SkipInactive(r) \/ LoseClaim(r) \/ WriteOutcome(r)
  BY <1>2, <1>5 DEF SkipInactive, LoseClaim, WriteOutcome
<1>6. CASE ClaimForCharge(r)
  <2>1. /\ run'[r].pc = "claimed" /\ run'[r].s = run[r].s
        /\ run'[r].invoice = run[r].invoice
    BY <1>1, <1>2, <1>6 DEF ClaimForCharge, Work
  <2>2. QED
    BY <1>2, <1>6, <2>1 DEF ClaimForCharge, Truthful, Finalized, stripeVars
<1>7. ASSUME NEW why, GiveUp(r, why, NoInvoice)
      PROVE  Truthful(r)'
  <2>1. run'[r].result = "failed" /\ run'[r].invoice = NoInvoice
    BY <1>1, <1>2, <1>7 DEF GiveUp, Work
  <2>2. QED
    BY <2>1 DEF Truthful
<1>8. ASSUME NEW why, GiveUp(r, why, run[r].invoice),
             invoices'[run[r].s][run[r].invoice].status \in {"open", "paid"}
      PROVE  Truthful(r)'
  <2>1. /\ run'[r].result = "failed" /\ run'[r].invoice = run[r].invoice
        /\ run'[r].s = run[r].s
    BY <1>1, <1>2, <1>8 DEF GiveUp, Work
  <2>2. QED
    BY <2>1, <1>8 DEF Truthful, Finalized
<1>9. CASE RefuseToCharge(r) \/ BuildThrows(r)
  BY <1>7, <1>9 DEF RefuseToCharge, BuildThrows
<1>10. CASE ResumeAtPayment(r)
  <2>1. /\ run'[r].pc = "pay" /\ run'[r].s = run[r].s
        /\ run'[r].invoice = run[r].invoice
    BY <1>1, <1>2, <1>10 DEF ResumeAtPayment, Work
  <2>2. QED
    BY <1>2, <1>10, <2>1 DEF ResumeAtPayment, Truthful, Finalized, stripeVars
<1>11. CASE StartInvoice(r) \/ AddItem(r)
  <2>1. run'[r].pc = "items"
    BY <1>1, <1>2, <1>11 DEF StartInvoice, AddItem, Work
  <2>2. QED
    BY <2>1 DEF Truthful
<1>12. CASE Finalize(r)
  <2>1. invoices'[run[r].s][run[r].invoice].status = "open"
    BY <1>3, <1>12 DEF Finalize, FinalizeInvoice, KnowledgeInv, ChargeTypeOK,
                       StripeTypeOK, Invoice
  <2>2. CASE run' = [run EXCEPT ![r].pc = "pay"]
    <3>1. /\ run'[r].pc = "pay" /\ run'[r].s = run[r].s
          /\ run'[r].invoice = run[r].invoice
      BY <1>1, <1>2, <2>2 DEF Work
    <3>2. QED
      BY <2>1, <3>1 DEF Truthful, Finalized
  <2>3. QED
    BY <1>7, <1>12, <2>2 DEF Finalize
<1>13. CASE Pay(r)
  <2>1. run[r].invoice \in Slot /\ run[r].invoice # NoInvoice
    BY <1>3, <1>13 DEF Pay, Slot, NoInvoice
  <2>2. invoices'[run[r].s][run[r].invoice].status = "paid"
    BY <1>3, <1>13, <2>1 DEF Pay, CollectPayment, KnowledgeInv, ChargeTypeOK,
                             StripeTypeOK, Invoice
  <2>3. CASE run' = [run EXCEPT ![r].pc = "write", ![r].result = "paid"]
    <3>1. run'[r].s = run[r].s /\ run'[r].invoice = run[r].invoice
      BY <1>1, <1>2, <2>3 DEF Work
    <3>2. QED
      BY <2>1, <2>2, <3>1 DEF Truthful, Finalized, Collected
  <2>4. QED
    BY <1>8, <1>13, <2>2, <2>3 DEF Pay
<1>14. CASE PayDeclined(r) \/ PayThrows(r)
  <2>1. run[r].pc = "pay" /\ run[r].invoice \in Slot /\ UNCHANGED invoices
    BY <1>3, <1>14 DEF PayDeclined, PayThrows, DeclinePayment, stripeVars
  <2>2. invoices'[run[r].s][run[r].invoice].status \in {"open", "paid"}
    BY <1>2, <2>1 DEF Truthful, Finalized, Slot, NoInvoice
  <2>3. QED
    BY <1>8, <1>14, <2>2 DEF PayDeclined, PayThrows
<1>15. QED
  BY <1>4, <1>5, <1>6, <1>9, <1>10, <1>11, <1>12, <1>13, <1>14 DEF RunStep

(* What a run knows of its invoice stays true through every step.          *)
LEMMA RunsStep ==
  ASSUME KnowledgeInv, [ChargeNext]_chargeVars
  PROVE  RunsTellTheTruth'
<1> SUFFICES ASSUME NEW q \in Run, run'[q] # Idle
             PROVE  Truthful(q)'
  BY DEF RunsTellTheTruth, Truthful
<1>1. ASSUME run'[q] = run[q]
      PROVE  Truthful(q)'
  BY <1>1, TruthKeeps
<1>2. ASSUME NEW r \in Run, NEW s \in Settlement, SelectCandidate(r, s)
      PROVE  Truthful(q)'
  <2>1. CASE q = r
    BY <1>2, <2>1, SelectTruth
  <2>2. CASE q # r
    BY <1>1, <1>2, <2>2 DEF SelectCandidate, KnowledgeInv, ChargeTypeOK
  <2>3. QED
    BY <2>1, <2>2
<1>3. ASSUME NEW r \in Run, RunStep(r)
      PROVE  Truthful(q)'
  <2>1. CASE q = r
    BY <1>3, <2>1, OwnStepTruth
  <2>2. CASE q # r
    <3>1. run'[q] = run[q]
      BY <1>3, <2>2
      DEF KnowledgeInv, ChargeTypeOK, RunStep, LoadContext, SkipInactive,
          ClaimForCharge, LoseClaim, RefuseToCharge, ResumeAtPayment, StartInvoice,
          AddItem, Finalize, BuildThrows, Pay, PayDeclined, PayThrows, WriteOutcome,
          GiveUp
    <3>2. QED
      BY <1>1, <3>1
  <2>3. QED
    BY <2>1, <2>2
<1>4. ASSUME NEW r \in Run, Crash(r)
      PROVE  Truthful(q)'
  <2>1. CASE q = r
    BY <1>4, <2>1 DEF Crash, KnowledgeInv, ChargeTypeOK
  <2>2. CASE q # r
    BY <1>1, <1>4, <2>2 DEF Crash, KnowledgeInv, ChargeTypeOK
  <2>3. QED
    BY <2>1, <2>2
<1>5. CASE UNCHANGED run
  BY <1>1, <1>5
<1>6. QED
  BY <1>2, <1>3, <1>4, <1>5
  DEF ChargeNext, chargeVars, HookStep, Deliver, SettlementInvoicePaid,
      SettlementInvoiceFailed, Reconcile, WriteAudit, HookStops, Environment,
      ClaimGoesStale, PaidOutOfBand, KeysForgotten, ChangeSubscriber, ToggleCharging

(* What a step leaves of a row: an invoice it names is finalized, and      *)
(* 'paid' was there before or comes with the money.                        *)
RowStaysTrue(s) ==
  /\ row'[s].invoice # NoInvoice => Finalized(s, row[s].invoice)'
  /\ row'[s].status = "paid" =>
       \/ row[s].status = "paid" /\ row'[s].invoice = row[s].invoice
       \/ row'[s].invoice # NoInvoice /\ Collected(s, row[s].invoice)'

(* A row whose invoice is not rewritten and that does not become paid.     *)
LEMMA RowKeeps ==
  ASSUME KnowledgeInv, [ChargeNext]_chargeVars, NEW s \in Settlement,
         row'[s].invoice = row[s].invoice,
         row'[s].status = "paid" => row[s].status = "paid"
  PROVE  RowStaysTrue(s)
<1>1. row[s].invoice \in Slot \cup {NoInvoice}
  BY DEF KnowledgeInv, ChargeTypeOK, TablesTypeOK, Row
<1>2. row[s].invoice # NoInvoice =>
        invoices'[s][row[s].invoice].status \in {"open", "paid"}
  BY <1>1, InvoicesProgress DEF KnowledgeInv, StoredInvoiceIsFinalized, Finalized
<1>3. QED
  BY <1>2 DEF RowStaysTrue, Finalized

(* The drain's last update copies a truthful run into the row.             *)
LEMMA WriteOutcomeTrue ==
  ASSUME KnowledgeInv, NEW r \in Run, NEW s \in Settlement, s = run[r].s,
         WriteOutcome(r), [ChargeNext]_chargeVars
  PROVE  RowStaysTrue(s)
<1>1. run[r] \in Work /\ run[r] # Idle /\ run[r].result \in {"paid", "failed"}
  BY BusyRun DEF KnowledgeInv, WriteOutcome, Idle
<1>2. Truthful(r) /\ run[r].pc = "write"
  BY <1>1 DEF KnowledgeInv, RunsTellTheTruth, Truthful, WriteOutcome
<1>3. row'[s] = Outcome(row[s], run[r]) /\ row[s] \in Row
  BY <1>2 DEF WriteOutcome, KnowledgeInv, ChargeTypeOK, TablesTypeOK
<1>4. row'[s].status = run[r].result
  BY <1>3, Zenon DEF Outcome, Row
<1>5. CASE run[r].invoice = NoInvoice
  <2>1. row'[s].invoice = row[s].invoice
    BY <1>3, <1>5, Zenon DEF Outcome, Row
  <2>2. row'[s].status # "paid"
    BY <1>1, <1>2, <1>4, <1>5 DEF Truthful
  <2>3. QED
    BY <1>2, <2>1, <2>2, RowKeeps
<1>6. CASE run[r].invoice # NoInvoice
  <2>1. row'[s].invoice = run[r].invoice
    BY <1>3, <1>6, Zenon DEF Outcome, Row
  <2>2. invoices' = invoices
    BY DEF WriteOutcome, stripeVars
  <2>3. QED
    BY <1>2, <1>4, <2>1, <2>2 DEF Truthful, RowStaysTrue, Finalized, Collected
<1>7. QED
  BY <1>5, <1>6

(* A webhook copies an event into the row, and events tell the truth.      *)
LEMMA ReconcileTrue ==
  ASSUME KnowledgeInv, NEW h \in Hook, NEW s \in Settlement, [ChargeNext]_chargeVars,
         SettlementInvoicePaid(h) \/ SettlementInvoiceFailed(h)
  PROVE  RowStaysTrue(s)
<1> DEFINE e == hook[h].event
<1>1. hook[h] # IdleHook /\ hook[h] \in Handling
  BY BusyHook DEF KnowledgeInv, SettlementInvoicePaid, SettlementInvoiceFailed, IdleHook
<1>2. e \in events /\ e \in Event
  BY <1>1 DEF KnowledgeInv, HooksCarryEvents, ChargeTypeOK, StripeTypeOK
<1>3. /\ Finalized(e.s, e.invoice)
      /\ e.type = "payment_succeeded" => Collected(e.s, e.invoice)
      /\ e.s \in Settlement /\ e.invoice # NoInvoice
  BY <1>2 DEF KnowledgeInv, EventsTellTheTruth, Event, Slot, NoInvoice
<1>4. invoices' = invoices /\ row \in [Settlement -> Row]
  BY DEF SettlementInvoicePaid, SettlementInvoiceFailed, Reconcile, stripeVars,
         KnowledgeInv, ChargeTypeOK, TablesTypeOK
<1>5. CASE row'[s] = row[s]
  BY <1>5, RowKeeps
<1>6. CASE row'[s] # row[s]
  <2>1. s = e.s
    BY <1>4, <1>6 DEF SettlementInvoicePaid, SettlementInvoiceFailed, Reconcile
  <2>2. /\ row'[s].invoice = e.invoice
        /\ row'[s].status = "paid" => e.type = "payment_succeeded"
    <3>1. CASE SettlementInvoicePaid(h)
      <4>1. Reconcile(h, "paid") /\ e.type = "payment_succeeded"
        BY <3>1 DEF SettlementInvoicePaid
      <4>2. row'[s].invoice = e.invoice
        BY <1>3, <1>4, <1>6, <2>1, <4>1 DEF Reconcile, Row
      <4>3. QED
        BY <4>1, <4>2
    <3>2. CASE SettlementInvoiceFailed(h)
      <4>1. Reconcile(h, "failed")
        BY <3>2 DEF SettlementInvoiceFailed
      <4>2. row'[s].invoice = e.invoice
        BY <1>3, <1>4, <1>6, <2>1, <4>1 DEF Reconcile, Row
      <4>3. row'[s].status = "failed"
        BY <1>3, <1>4, <1>6, <2>1, <4>1 DEF Reconcile, Row
      <4>4. QED
        BY <4>2, <4>3
    <3>3. QED
      BY <3>1, <3>2
  <2>3. QED
    BY <1>3, <1>4, <2>1, <2>2 DEF RowStaysTrue, Finalized, Collected
<1>7. QED
  BY <1>5, <1>6

(* What a row claims of its invoice stays true through every step.         *)
LEMMA RowsStep ==
  ASSUME KnowledgeInv, [ChargeNext]_chargeVars
  PROVE  \A s \in Settlement : RowStaysTrue(s)
<1> SUFFICES ASSUME NEW s \in Settlement
             PROVE  RowStaysTrue(s)
  OBVIOUS
<1>1. row \in [Settlement -> Row]
  BY DEF KnowledgeInv, ChargeTypeOK, TablesTypeOK
<1>2. CASE UNCHANGED row
  BY <1>2, RowKeeps
<1>3. ASSUME NEW r \in Run, RunStep(r)
      PROVE  RowStaysTrue(s)
  <2>1. CASE ClaimForCharge(r)
    <3>1. row'[s].invoice = row[s].invoice /\ (row'[s] = row[s] \/ row'[s].status = "charging")
      BY <1>1, <2>1 DEF ClaimForCharge, Row
    <3>2. QED
      BY <3>1, RowKeeps
  <2>2. CASE WriteOutcome(r)
    <3>1. CASE s = run[r].s
      BY <2>2, <3>1, WriteOutcomeTrue
    <3>2. CASE s # run[r].s
      <4>1. row'[s] = row[s]
        BY <1>1, <2>2, <3>2 DEF WriteOutcome
      <4>2. QED
        BY <4>1, RowKeeps
    <3>3. QED
      BY <3>1, <3>2
  <2>3. QED
    BY <1>2, <1>3, <2>1, <2>2
    DEF RunStep, LoadContext, SkipInactive, LoseClaim, RefuseToCharge,
        ResumeAtPayment, StartInvoice, AddItem, Finalize, BuildThrows, Pay,
        PayDeclined, PayThrows, tables
<1>4. ASSUME NEW h \in Hook, HookStep(h)
      PROVE  RowStaysTrue(s)
  BY <1>2, <1>4, ReconcileTrue DEF HookStep, Deliver, WriteAudit, HookStops, tables
<1>5. ASSUME NEW q \in Settlement, ClaimGoesStale(q)
      PROVE  RowStaysTrue(s)
  <2>1. row'[s].invoice = row[s].invoice /\ row'[s].status = row[s].status
    BY <1>1, <1>5 DEF ClaimGoesStale, Row
  <2>2. QED
    BY <2>1, RowKeeps
<1>6. QED
  BY <1>2, <1>3, <1>4, <1>5
  DEF ChargeNext, chargeVars, SelectCandidate, Crash, Environment, PaidOutOfBand,
      KeysForgotten, ChangeSubscriber, ToggleCharging, tables

(* The money invariant holds initially.                                    *)
LEMMA MoneyInit == ChargeInit => MoneyInv
<1> SUFFICES ASSUME ChargeInit PROVE MoneyInv
  OBVIOUS
<1>1. StoredInvoiceIsFinalized /\ PaidIsCollected
  BY DEF ChargeInit, NewRow, StoredInvoiceIsFinalized, PaidIsCollected
<1>2. RunsTellTheTruth /\ EventsTellTheTruth /\ HooksCarryEvents
  BY DEF ChargeInit, ChargeLocalsInit, StripeInit, RunsTellTheTruth,
         EventsTellTheTruth, HooksCarryEvents
<1>3. QED
  BY <1>1, <1>2, TypeInit DEF MoneyInv, KnowledgeInv

(* Every step keeps what rows, runs and events know true.                  *)
LEMMA KnowledgeStep ==
  ASSUME KnowledgeInv, [ChargeNext]_chargeVars
  PROVE  KnowledgeInv'
<1>1. StoredInvoiceIsFinalized'
  BY RowsStep DEF StoredInvoiceIsFinalized, RowStaysTrue
<1>2. QED
  BY <1>1, TypeStep, EventsStep, HooksStep, RunsStep DEF KnowledgeInv

(* Every step keeps the money invariant.                                   *)
LEMMA MoneyInvStep ==
  ASSUME MoneyInv, [ChargeNext]_chargeVars
  PROVE  MoneyInv'
<1>1. KnowledgeInv'
  BY KnowledgeStep DEF MoneyInv
<1>2. ASSUME NEW s \in Settlement, row'[s].status = "paid"
      PROVE  row'[s].invoice # NoInvoice /\ Collected(s, row[s].invoice)'
  <2>1. CASE row[s].status = "paid" /\ row'[s].invoice = row[s].invoice
    <3>1. row[s].invoice \in Slot /\ Collected(s, row[s].invoice)
      BY <2>1 DEF MoneyInv, KnowledgeInv, PaidIsCollected, ChargeTypeOK,
                  TablesTypeOK, Row, Collected
    <3>2. invoices'[s][row[s].invoice].status = "paid"
      BY <3>1, InvoicesProgress DEF MoneyInv, KnowledgeInv, Collected
    <3>3. QED
      BY <2>1, <3>1, <3>2 DEF Collected, Slot, NoInvoice
  <2>2. QED
    BY <1>2, <2>1, RowsStep DEF MoneyInv, RowStaysTrue
<1>3. QED
  BY <1>1, <1>2 DEF MoneyInv, PaidIsCollected, Collected

(* In every reachable state an invoice id, in a row, a run or an event,    *)
(* and a 'paid' wherever it is written, say what is so at Stripe.          *)
THEOREM MoneyInvariant == ChargeSpec => []MoneyInv
BY MoneyInit, MoneyInvStep, PTL DEF ChargeSpec

(* 'paid' is never written without the money having been collected, in     *)
(* every interleaving of drains, webhooks and crashes, and whether or not  *)
(* Stripe forgets idempotency keys.                                        *)
THEOREM PaidIsCollectedHolds == ChargeSpec => []PaidIsCollected
<1>1. MoneyInv => PaidIsCollected
  BY DEF MoneyInv
<1>2. QED
  BY <1>1, MoneyInvariant, PTL

(* A stored invoice id is always that of a finalized invoice, so the       *)
(* drain's resume straight at the payment never meets a draft.             *)
THEOREM StoredInvoiceHolds == ChargeSpec => []StoredInvoiceIsFinalized
<1>1. MoneyInv => StoredInvoiceIsFinalized
  BY DEF MoneyInv, KnowledgeInv
<1>2. QED
  BY <1>1, MoneyInvariant, PTL

-----------------------------------------------------------------------------
(* A step of a run changes that run alone; short of the claim it holds a   *)
(* settlement after the step only if it held it before.                    *)
LEMMA OwnHold ==
  ASSUME ChargeTypeOK, NEW r \in Run, RunStep(r) \/ Crash(r),
         ~ClaimForCharge(r)
  PROVE  /\ \A q \in Run \ {r} : run'[q] = run[q]
         /\ \/ run'[r] = Idle
            \/ run'[r].pc = "loaded"
            \/ run'[r].s = run[r].s /\ run[r].pc \in {"claimed", "items", "pay"}
<1>1. CASE Crash(r)
  BY <1>1 DEF Crash, ChargeTypeOK
<1>2. CASE RunStep(r)
  <2>1. run[r].pc # "idle"
    BY <1>2 DEF RunStep, LoadContext, SkipInactive, ClaimForCharge, LoseClaim,
           RefuseToCharge, ResumeAtPayment, StartInvoice, AddItem, Finalize,
           BuildThrows, Pay, PayDeclined, PayThrows, WriteOutcome
  <2>2. run[r] \in Work /\ run \in [Run -> RunState]
    BY <2>1, BusyRun DEF ChargeTypeOK
  <2>3. CASE LoadContext(r)
    BY <2>2, <2>3 DEF LoadContext, Work
  <2>4. CASE SkipInactive(r) \/ LoseClaim(r) \/ WriteOutcome(r)
    BY <2>2, <2>4 DEF SkipInactive, LoseClaim, WriteOutcome
  <2>5. ASSUME NEW why, NEW inv, GiveUp(r, why, inv)
        PROVE  run'[r].s = run[r].s /\ \A q \in Run \ {r} : run'[q] = run[q]
    BY <2>2, <2>5 DEF GiveUp, Work
  <2>6. CASE RefuseToCharge(r) \/ BuildThrows(r) \/ PayDeclined(r) \/ PayThrows(r)
    BY <2>5, <2>6 DEF RefuseToCharge, BuildThrows, PayDeclined, PayThrows
  <2>7. CASE ResumeAtPayment(r) \/ StartInvoice(r) \/ AddItem(r)
    BY <2>2, <2>7 DEF ResumeAtPayment, StartInvoice, AddItem, Work
  <2>8. CASE Finalize(r)
    <3>1. CASE run' = [run EXCEPT ![r].pc = "pay"]
      BY <2>2, <2>8, <3>1 DEF Finalize, Work
    <3>2. QED
      BY <2>5, <2>8, <3>1 DEF Finalize
  <2>9. CASE Pay(r)
    <3>1. CASE run' = [run EXCEPT ![r].pc = "write", ![r].result = "paid"]
      BY <2>2, <2>9, <3>1 DEF Pay, Work
    <3>2. QED
      BY <2>5, <2>9, <3>1 DEF Pay
  <2>10. QED
    BY <1>2, <2>3, <2>4, <2>6, <2>7, <2>8, <2>9 DEF RunStep
<1>3. QED
  BY <1>1, <1>2

(* Short of a claim, no step makes a run hold a settlement it did not.     *)
LEMMA HoldsAreOld ==
  ASSUME ChargeTypeOK, [ChargeNext]_chargeVars,
         \A r \in Run : ~ClaimForCharge(r)
  PROVE  \A q \in Run : \A s \in Settlement : HoldsClaim(q, s)' => HoldsClaim(q, s)
<1> SUFFICES ASSUME NEW q \in Run, NEW s \in Settlement, HoldsClaim(q, s)'
             PROVE  HoldsClaim(q, s)
  OBVIOUS
<1>1. CASE run'[q] = run[q]
  BY <1>1 DEF HoldsClaim
<1>2. ASSUME NEW r \in Run, NEW x \in Settlement, SelectCandidate(r, x)
      PROVE  HoldsClaim(q, s)
  <2>1. run'[r].pc = "selected" /\ \A p \in Run \ {r} : run'[p] = run[p]
    BY <1>2 DEF SelectCandidate, ChargeTypeOK
  <2>2. QED
    BY <1>1, <2>1 DEF HoldsClaim
<1>3. ASSUME NEW r \in Run, RunStep(r) \/ Crash(r)
      PROVE  HoldsClaim(q, s)
  <2>1. CASE q = r
    <3>1. run'[r].s = run[r].s /\ run[r].pc \in {"claimed", "items", "pay"}
      BY <1>3, <2>1, OwnHold DEF HoldsClaim
    <3>2. QED
      BY <2>1, <3>1 DEF HoldsClaim, Idle
  <2>2. QED
    BY <1>1, <1>3, <2>1, OwnHold
<1>4. CASE UNCHANGED run
  BY <1>1, <1>4
<1>5. QED
  BY <1>2, <1>3, <1>4
  DEF ChargeNext, chargeVars, HookStep, Deliver, SettlementInvoicePaid,
      SettlementInvoiceFailed, Reconcile, WriteAudit, HookStops, Environment,
      ClaimGoesStale, PaidOutOfBand, KeysForgotten, ChangeSubscriber, ToggleCharging

(* The steps that change a run's state, and which one.                     *)
LEMMA RunMovers ==
  ASSUME ChargeTypeOK, [ChargeNext]_chargeVars, NEW q \in Run, run'[q] # run[q]
  PROVE  \/ \E s \in Settlement : SelectCandidate(q, s)
         \/ RunStep(q)
         \/ Crash(q)
<1>1. ASSUME NEW r \in Run, r # q,
             \/ \E s \in Settlement : SelectCandidate(r, s)
             \/ RunStep(r) \/ Crash(r)
      PROVE  FALSE
  <2>1. CASE \E s \in Settlement : SelectCandidate(r, s)
    BY <1>1, <2>1 DEF SelectCandidate, ChargeTypeOK
  <2>2. CASE ClaimForCharge(r)
    BY <1>1, <2>2 DEF ClaimForCharge, ChargeTypeOK
  <2>3. QED
    BY <1>1, <2>1, <2>2, OwnHold
<1>2. QED
  BY <1>1
  DEF ChargeNext, chargeVars, HookStep, Deliver, SettlementInvoicePaid,
      SettlementInvoiceFailed, Reconcile, WriteAudit, HookStops, Environment,
      ClaimGoesStale, PaidOutOfBand, KeysForgotten, ChangeSubscriber, ToggleCharging

-----------------------------------------------------------------------------
(***************************************************************************)
(* How often a settlement is charged.  Under a live key every create       *)
(* answers the same invoice, so a new one takes a key that was forgotten;  *)
(* and a run creates only where none is on record.                         *)
(***************************************************************************)
InvoicesWithinLapses ==
  \A s \in Settlement : \A i \in Slot :
    invoices[s][i].status # "none" =>
      /\ i <= 1 + lapses[s]
      /\ liveKey[s] = NoInvoice /\ Unrecorded(s) => i <= lapses[s]

(* No step takes the invoice off the record of a settlement again.         *)
LEMMA RecordsStay ==
  ASSUME ChargeTypeOK, [ChargeNext]_chargeVars, NEW s \in Settlement, Unrecorded(s)'
  PROVE  Unrecorded(s)
<1>1. row \in [Settlement -> Row] /\ run \in [Run -> RunState]
  BY DEF ChargeTypeOK, TablesTypeOK
<1>2. row'[s].invoice = NoInvoice => row[s].invoice = NoInvoice
  <2>1. ASSUME NEW r \in Run, WriteOutcome(r)
        PROVE  row'[s].invoice = NoInvoice => row[s].invoice = NoInvoice
    <3>1. CASE run[r].s = s
      <4>1. row'[s] = Outcome(row[s], run[r])
        BY <1>1, <2>1, <3>1 DEF WriteOutcome
      <4>2. QED
        BY <1>1, <4>1 DEF Outcome, Row
    <3>2. QED
      BY <1>1, <2>1, <3>1 DEF WriteOutcome
  <2>2. ASSUME NEW h \in Hook, NEW status, hook[h].step # "idle", Reconcile(h, status)
        PROVE  row'[s].invoice = NoInvoice => row[s].invoice = NoInvoice
    <3>1. hook[h].event.invoice # NoInvoice
      BY <2>2, BusyHook DEF Handling, Event, Slot, NoInvoice
    <3>2. CASE UNCHANGED row
      BY <3>2
    <3>3. CASE row' = [row EXCEPT ![hook[h].event.s].status = status,
                                  ![hook[h].event.s].invoice = hook[h].event.invoice]
      BY <1>1, <3>1, <3>3 DEF Row
    <3>4. QED
      BY <2>2, <3>2, <3>3 DEF Reconcile
  <2>3. ASSUME NEW r \in Run, ClaimForCharge(r)
        PROVE  row'[s].invoice = row[s].invoice
    BY <1>1, <2>3 DEF ClaimForCharge, Row
  <2>4. ASSUME NEW x \in Settlement, ClaimGoesStale(x)
        PROVE  row'[s].invoice = row[s].invoice
    BY <1>1, <2>4 DEF ClaimGoesStale, Row
  <2>5. ASSUME NEW h \in Hook, HookStep(h)
        PROVE  row'[s].invoice = NoInvoice => row[s].invoice = NoInvoice
    BY <2>2, <2>5 DEF HookStep, Deliver, SettlementInvoicePaid,
       SettlementInvoiceFailed, WriteAudit, HookStops, tables
  <2>6. QED
    BY <2>1, <2>3, <2>4, <2>5
    DEF ChargeNext, chargeVars, SelectCandidate, RunStep, LoadContext,
        SkipInactive, LoseClaim, RefuseToCharge, ResumeAtPayment, StartInvoice,
        AddItem, Finalize, BuildThrows, Pay, PayDeclined, PayThrows, Crash,
        Environment, PaidOutOfBand, KeysForgotten, ChangeSubscriber,
        ToggleCharging, tables
<1> DEFINE Early(w) == /\ w # Idle /\ w.s = s
                       /\ w.pc \in {"selected", "loaded", "claimed"}
                       /\ w.invoice = NoInvoice
<1>3. ASSUME NEW q \in Run, Early(run'[q]), run'[q] # run[q]
      PROVE  Unrecorded(s)
  <2>1. CASE \E x \in Settlement : SelectCandidate(q, x)
    BY <1>1, <1>3, <2>1 DEF SelectCandidate, Unrecorded
  <2>2. CASE Crash(q)
    BY <1>1, <1>3, <2>2 DEF Crash
  <2>3. CASE RunStep(q)
    <3>1. run[q].pc # "idle"
      BY <2>3 DEF RunStep, LoadContext, SkipInactive, ClaimForCharge, LoseClaim,
             RefuseToCharge, ResumeAtPayment, StartInvoice, AddItem, Finalize,
             BuildThrows, Pay, PayDeclined, PayThrows, WriteOutcome
    <3>2. run[q] \in Work /\ run[q] # Idle
      BY <3>1, BusyRun DEF Idle
    <3>3. CASE LoadContext(q) \/ ClaimForCharge(q)
      <4>1. run'[q].s = run[q].s /\ run'[q].invoice = run[q].invoice
        <5>1. CASE LoadContext(q)
          BY <1>1, <3>2, <5>1 DEF LoadContext, Work
        <5>2. CASE ClaimForCharge(q)
          BY <1>1, <3>2, <5>2 DEF ClaimForCharge, Work
        <5>3. QED
          BY <3>3, <5>1, <5>2
      <4>2. run[q].s = s /\ run[q].invoice = NoInvoice
        BY <1>3, <4>1
      <4>3. run[q].pc \in {"selected", "loaded"}
        BY <3>3 DEF LoadContext, ClaimForCharge
      <4>4. QED
        BY <3>2, <4>2, <4>3 DEF Unrecorded
    <3>4. ASSUME NEW why, NEW inv, GiveUp(q, why, inv)
          PROVE  FALSE
      BY <1>1, <1>3, <3>2, <3>4 DEF GiveUp, Work
    <3>5. CASE ResumeAtPayment(q) \/ StartInvoice(q) \/ AddItem(q)
      <4>1. run'[q].pc \in {"pay", "items"}
        <5>1. CASE ResumeAtPayment(q)
          BY <1>1, <3>2, <5>1 DEF ResumeAtPayment, Work
        <5>2. CASE StartInvoice(q)
          BY <1>1, <3>2, <5>2 DEF StartInvoice, Work
        <5>3. CASE AddItem(q)
          BY <1>1, <3>2, <5>3 DEF AddItem, Work
        <5>4. QED
          BY <3>5, <5>1, <5>2, <5>3
      <4>2. QED
        BY <1>3, <4>1
    <3>6. CASE SkipInactive(q) \/ LoseClaim(q) \/ WriteOutcome(q)
      BY <1>1, <1>3, <3>6 DEF SkipInactive, LoseClaim, WriteOutcome
    <3>7. CASE RefuseToCharge(q) \/ BuildThrows(q) \/ PayDeclined(q) \/ PayThrows(q)
      BY <3>4, <3>7 DEF RefuseToCharge, BuildThrows, PayDeclined, PayThrows
    <3>8. CASE Finalize(q)
      BY <1>1, <1>3, <3>2, <3>4, <3>8 DEF Finalize, Work
    <3>9. CASE Pay(q)
      BY <1>1, <1>3, <3>2, <3>4, <3>9 DEF Pay, Work
    <3>10. QED
      BY <2>3, <3>3, <3>5, <3>6, <3>7, <3>8, <3>9 DEF RunStep
  <2>4. QED
    BY <1>3, <2>1, <2>2, <2>3, RunMovers
<1>4. QED
  BY <1>2, <1>3 DEF Unrecorded

(* Every step keeps the invoices of a settlement within its lapses.        *)
LEMMA LapseStep ==
  ASSUME ChargeTypeOK, InvoicesWithinLapses, [ChargeNext]_chargeVars
  PROVE  InvoicesWithinLapses'
<1>1. lapses \in [Settlement -> Nat] /\ StripeTypeOK
  BY DEF ChargeTypeOK, HistoryTypeOK
<1>2. \A s \in Settlement : Unrecorded(s)' => Unrecorded(s)
  BY RecordsStay
<1>3. ASSUME UNCHANGED <<liveKey, lapses>>,
             \A s \in Settlement : \A i \in Slot :
               invoices'[s][i].status # "none" => invoices[s][i].status # "none"
      PROVE  InvoicesWithinLapses'
  BY <1>2, <1>3 DEF InvoicesWithinLapses
<1>4. ASSUME NEW s \in Settlement, NEW i \in Slot, NEW st,
             invoices[s][i].status # "none",
             invoices' = [invoices EXCEPT ![s][i].status = st]
      PROVE  \A x \in Settlement : \A j \in Slot :
               invoices'[x][j].status # "none" => invoices[x][j].status # "none"
  BY <1>1, <1>4 DEF StripeTypeOK, Invoice
<1>5. ASSUME NEW r \in Run, StartInvoice(r)
      PROVE  InvoicesWithinLapses'
  <2> DEFINE s == run[r].s
  <2>1. s \in Settlement /\ run[r] # Idle
    BY <1>5, BusyRun DEF StartInvoice, Work, Idle
  <2>2. PICK i \in Slot : CreateInvoice(s, i)
    BY <1>5 DEF StartInvoice
  <2>3. Unrecorded(s) /\ lapses' = lapses
    BY <1>5, <2>1 DEF StartInvoice, Unrecorded, history
  <2>4. CASE UNCHANGED <<invoices, liveKey>>
    BY <1>3, <2>3, <2>4
  <2>5. CASE /\ liveKey[s] = NoInvoice
             /\ \A j \in 1..(i - 1) : invoices[s][j].status # "none"
             /\ invoices' = [invoices EXCEPT ![s][i].status = "draft"]
             /\ liveKey' = [liveKey EXCEPT ![s] = i]
    <3>1. i <= 1 + lapses[s]
      <4>1. CASE i = 1
        BY <1>1, <2>1, <4>1
      <4>2. CASE i # 1
        <5>1. i - 1 \in Slot /\ i - 1 \in 1..(i - 1)
          BY <4>2, SettlementAssumption DEF Slot
        <5>2. i - 1 <= lapses[s]
          BY <2>1, <2>3, <2>5, <5>1 DEF InvoicesWithinLapses
        <5>3. QED
          BY <1>1, <2>1, <5>2, SettlementAssumption DEF Slot
      <4>3. QED
        BY <4>1, <4>2
    <3>2. /\ liveKey'[s] # NoInvoice
          /\ \A x \in Settlement \ {s} : /\ invoices'[x] = invoices[x]
                                         /\ liveKey'[x] = liveKey[x]
          /\ \A j \in Slot \ {i} : invoices'[s][j] = invoices[s][j]
      BY <1>1, <2>1, <2>5 DEF StripeTypeOK, Slot, NoInvoice
    <3>3. QED
      BY <1>2, <2>1, <2>3, <3>1, <3>2 DEF InvoicesWithinLapses
  <2>6. QED
    BY <2>2, <2>4, <2>5 DEF CreateInvoice
<1>6. ASSUME NEW r \in Run, AddItem(r)
      PROVE  InvoicesWithinLapses'
  <2>1. /\ run[r].s \in Settlement /\ run[r].invoice \in Slot
        /\ run[r].todo \subseteq Line
    BY <1>6, BusyRun DEF AddItem, Work
  <2>2. PICK l \in run[r].todo : AddInvoiceItem(run[r].s, run[r].invoice, l)
    BY <1>6 DEF AddItem
  <2>3. ASSUME NEW x \in Settlement, NEW j \in Slot
        PROVE  invoices'[x][j].status = invoices[x][j].status
    <3>1. CASE invoices' = [invoices EXCEPT ![run[r].s][run[r].invoice].items[l] = @ + 1]
      BY <1>1, <2>1, <2>2, <3>1 DEF StripeTypeOK, Invoice
    <3>2. QED
      BY <2>2, <3>1 DEF AddInvoiceItem
  <2>4. QED
    BY <1>3, <1>6, <2>2, <2>3 DEF AddItem, AddInvoiceItem, history
<1>7. ASSUME NEW r \in Run, Finalize(r)
      PROVE  InvoicesWithinLapses'
  <2>1. run[r].s \in Settlement /\ run[r].invoice \in Slot
    BY <1>7, BusyRun DEF Finalize, Work
  <2>2. QED
    BY <1>3, <1>4, <1>7, <2>1 DEF Finalize, FinalizeInvoice, history
<1>8. ASSUME NEW r \in Run, Pay(r)
      PROVE  InvoicesWithinLapses'
  <2>1. run[r].s \in Settlement /\ run[r].invoice \in Slot
    BY <1>8, BusyRun DEF Pay, Work
  <2>2. QED
    BY <1>3, <1>4, <1>8, <2>1 DEF Pay, CollectPayment, history
<1>9. ASSUME NEW s \in Settlement, PaidOutOfBand(s)
      PROVE  InvoicesWithinLapses'
  BY <1>3, <1>4, <1>9 DEF PaidOutOfBand, CollectPayment, history
<1>10. ASSUME NEW s \in Settlement, KeysForgotten(s)
       PROVE  InvoicesWithinLapses'
  <2>1. /\ invoices' = invoices /\ lapses' \in [Settlement -> Nat]
        /\ \A x \in Settlement \ {s} : /\ liveKey'[x] = liveKey[x]
                                       /\ lapses'[x] = lapses[x]
        /\ lapses'[s] = IF Unrecorded(s) THEN lapses[s] + 1 ELSE lapses[s]
    BY <1>1, <1>10 DEF KeysForgotten, ExpireKeys, StripeTypeOK
  <2>2. ASSUME NEW x \in Settlement, NEW i \in Slot, invoices'[x][i].status # "none"
        PROVE  /\ i <= 1 + lapses'[x]
               /\ liveKey'[x] = NoInvoice /\ Unrecorded(x)' => i <= lapses'[x]
    <3>1. i <= 1 + lapses[x] /\ i \in Nat /\ lapses[x] \in Nat
      BY <1>1, <2>1, <2>2, SettlementAssumption DEF InvoicesWithinLapses, Slot
    <3>2. CASE x = s
      BY <1>2, <2>1, <3>1, <3>2
    <3>3. CASE x # s
      BY <1>2, <2>1, <2>2, <3>3 DEF InvoicesWithinLapses
    <3>4. QED
      BY <3>2, <3>3
  <2>3. QED
    BY <2>2 DEF InvoicesWithinLapses
<1>11. ASSUME UNCHANGED <<invoices, liveKey, lapses>>
       PROVE  InvoicesWithinLapses'
  BY <1>3, <1>11
<1>12. ASSUME NEW r \in Run, RunStep(r)
       PROVE  InvoicesWithinLapses'
  BY <1>5, <1>6, <1>7, <1>8, <1>11, <1>12
  DEF RunStep, LoadContext, SkipInactive, ClaimForCharge, LoseClaim,
      RefuseToCharge, ResumeAtPayment, BuildThrows, PayDeclined, DeclinePayment,
      PayThrows, WriteOutcome, Displaces, stripeVars, history
<1>13. ASSUME NEW h \in Hook, HookStep(h)
       PROVE  InvoicesWithinLapses'
  BY <1>11, <1>13
  DEF HookStep, Deliver, SettlementInvoicePaid, SettlementInvoiceFailed,
      Reconcile, WriteAudit, HookStops, Displaces, stripeVars, history
<1>14. QED
  BY <1>9, <1>10, <1>11, <1>12, <1>13
  DEF ChargeNext, chargeVars, SelectCandidate, Crash, Environment,
      ClaimGoesStale, ChangeSubscriber, ToggleCharging, stripeVars, history

(* At the start there are no invoices.                                     *)
LEMMA LapseInit == ChargeInit => InvoicesWithinLapses
BY DEF ChargeInit, ChargeLocalsInit, StripeInit, InvoicesWithinLapses

(* So many invoices at most can have been paid.                            *)
LEMMA LapsesBoundCharges ==
  ASSUME ChargeTypeOK, InvoicesWithinLapses, NEW s \in Settlement
  PROVE  /\ IsFiniteSet(PaidInvoices(s)) /\ Cardinality(PaidInvoices(s)) \in Nat
         /\ Cardinality(PaidInvoices(s)) <= 1 + lapses[s]
<1>1. lapses[s] \in Nat
  BY DEF ChargeTypeOK, HistoryTypeOK
<1> DEFINE all == 1..(1 + lapses[s])
<1>2. IsFiniteSet(all) /\ Cardinality(all) = 1 + lapses[s]
  BY <1>1, FS_Interval
<1>3. PaidInvoices(s) \subseteq all
  BY <1>1 DEF PaidInvoices, InvoicesWithinLapses, Slot
<1> HIDE DEF all
<1>4. QED
  BY <1>2, <1>3, FS_Subset, FS_CardinalityType

(* Whatever runs overlap, crash, lose answers and are retried, and however *)
(* long they take, the customer is charged once, and once more at most for *)
(* each time Stripe forgot the keys of an invoice not on record.           *)
THEOREM ChargedOnceHolds == ChargeSpec => []ChargedOnce
<1>1. ChargeTypeOK /\ InvoicesWithinLapses => ChargedOnce
  BY LapsesBoundCharges DEF ChargedOnce
<1>2. ChargeTypeOK /\ InvoicesWithinLapses /\ [ChargeNext]_chargeVars
        => InvoicesWithinLapses'
  BY LapseStep
<1>3. QED
  BY <1>1, <1>2, LapseInit, TypeCorrect, PTL DEF ChargeSpec

-----------------------------------------------------------------------------
(***************************************************************************)
(* The claim.  SingleFlight is not inductive alone: that no second run can *)
(* claim a settlement follows from what the claim of the first one leaves  *)
(* in the row, which nobody rewrites without displacing the run.           *)
(***************************************************************************)
HeldRowsAreClaimed ==
  \A r \in Run \ displaced : \A s \in Settlement :
    HoldsClaim(r, s) => row[s].status = "charging" /\ row[s].claim = "fresh"

FlightInv == ChargeTypeOK /\ HeldRowsAreClaimed /\ SingleFlight

(* Short of a claim, a run that holds its claim undisturbed held it        *)
(* before, and its row is as it was.                                       *)
LEMMA HoldsUndisturbed ==
  ASSUME ChargeTypeOK, [ChargeNext]_chargeVars,
         \A r \in Run : ~ClaimForCharge(r),
         NEW q \in Run \ displaced', NEW s \in Settlement, HoldsClaim(q, s)'
  PROVE  /\ q \notin displaced /\ HoldsClaim(q, s)
         /\ row'[s].status = row[s].status /\ row'[s].claim = row[s].claim
<1>1. HoldsClaim(q, s)
  BY HoldsAreOld
<1>2. row \in [Settlement -> Row] /\ run \in [Run -> RunState]
  BY DEF ChargeTypeOK, TablesTypeOK
<1>3. ASSUME NEW r \in Run, WriteOutcome(r)
      PROVE  q \notin displaced /\ row'[s] = row[s]
  <2>1. run'[r] = Idle /\ q # r
    BY <1>2, <1>3 DEF WriteOutcome, HoldsClaim
  <2>2. s # run[r].s /\ q \notin displaced
    BY <1>1, <1>3, <2>1 DEF WriteOutcome, Displaces
  <2>3. QED
    BY <1>2, <1>3, <2>2 DEF WriteOutcome
<1>4. ASSUME NEW h \in Hook, NEW status, Reconcile(h, status)
      PROVE  q \notin displaced /\ row'[s] = row[s]
  <2>1. CASE UNCHANGED <<row, history>>
    BY <2>1 DEF history
  <2>2. CASE /\ row' = [row EXCEPT ![hook[h].event.s].status = status,
                                   ![hook[h].event.s].invoice = hook[h].event.invoice]
             /\ Displaces(hook[h].event.s, Run)
    <3>1. s # hook[h].event.s /\ q \notin displaced
      BY <1>1, <2>2 DEF Displaces
    <3>2. QED
      BY <1>2, <2>2, <3>1
  <2>3. QED
    BY <1>4, <2>1, <2>2 DEF Reconcile
<1>5. ASSUME NEW x \in Settlement, ClaimGoesStale(x)
      PROVE  q \notin displaced /\ row'[s] = row[s]
  <2>1. s # x /\ q \notin displaced
    BY <1>1, <1>5 DEF ClaimGoesStale
  <2>2. QED
    BY <1>2, <1>5, <2>1 DEF ClaimGoesStale
<1>6. ASSUME NEW r \in Run, Crash(r)
      PROVE  q \notin displaced /\ row'[s] = row[s]
  <2>1. q # r
    BY <1>2, <1>6 DEF Crash, HoldsClaim
  <2>2. QED
    BY <1>6, <2>1 DEF Crash, tables
<1>7. ASSUME UNCHANGED <<row, displaced>>
      PROVE  q \notin displaced /\ row'[s] = row[s]
  BY <1>7
<1>8. ASSUME NEW r \in Run, RunStep(r)
      PROVE  q \notin displaced /\ row'[s] = row[s]
  BY <1>3, <1>7, <1>8
  DEF RunStep, LoadContext, SkipInactive, LoseClaim, RefuseToCharge,
      ResumeAtPayment, StartInvoice, AddItem, Finalize, BuildThrows, Pay,
      PayDeclined, PayThrows, tables, history
<1>9. ASSUME NEW h \in Hook, HookStep(h)
      PROVE  q \notin displaced /\ row'[s] = row[s]
  BY <1>4, <1>7, <1>9
  DEF HookStep, Deliver, SettlementInvoicePaid, SettlementInvoiceFailed,
      WriteAudit, HookStops, tables, history
<1>10. q \notin displaced /\ row'[s] = row[s]
  BY <1>5, <1>6, <1>7, <1>8, <1>9
  DEF ChargeNext, chargeVars, SelectCandidate, Environment, PaidOutOfBand,
      KeysForgotten, ChangeSubscriber, ToggleCharging, tables, history
<1>11. QED
  BY <1>1, <1>10

(* The claim takes a settlement that nobody holds undisturbed, and makes   *)
(* it held.                                                                *)
LEMMA FlightClaim ==
  ASSUME FlightInv, NEW r \in Run, ClaimForCharge(r)
  PROVE  HeldRowsAreClaimed' /\ SingleFlight'
<1> DEFINE c == run[r].s
<1>1. run[r] \in Work /\ run[r].pc = "loaded"
  BY BusyRun DEF ClaimForCharge, FlightInv
<1>2. c \in Settlement /\ row \in [Settlement -> Row]
  BY <1>1 DEF Work, FlightInv, ChargeTypeOK, TablesTypeOK
<1>3. /\ row'[c].status = "charging" /\ row'[c].claim = "fresh"
      /\ \A s \in Settlement \ {c} : row'[s] = row[s]
  BY <1>2 DEF ClaimForCharge, Row
<1>4. run'[r].s = c /\ \A q \in Run \ {r} : run'[q] = run[q]
  BY <1>1 DEF ClaimForCharge, FlightInv, ChargeTypeOK, Work
<1>5. displaced' = displaced \ {r} /\ Claimable(row[c])
  BY DEF ClaimForCharge
<1>6. ASSUME NEW q \in Run \ displaced', NEW s \in Settlement, HoldsClaim(q, s)'
      PROVE  \/ q = r /\ s = c
             \/ q # r /\ s # c /\ q \notin displaced /\ HoldsClaim(q, s)
  <2>1. CASE q = r
    BY <1>4, <1>6, <2>1 DEF HoldsClaim
  <2>2. CASE q # r
    <3>1. HoldsClaim(q, s)
      BY <1>4, <1>6, <2>2 DEF HoldsClaim
    <3>2. q \notin displaced
      BY <1>5, <1>6, <2>2
    <3>3. s # c
      BY <1>5, <3>1, <3>2 DEF FlightInv, HeldRowsAreClaimed, Claimable
    <3>4. QED
      BY <2>2, <3>1, <3>2, <3>3
  <2>3. QED
    BY <2>1, <2>2
<1>7. HeldRowsAreClaimed'
  BY <1>3, <1>6 DEF FlightInv, HeldRowsAreClaimed
<1>8. SingleFlight'
  <2>1. SUFFICES ASSUME NEW s \in Settlement, NEW p \in Run \ displaced',
                        NEW q \in Run \ displaced',
                        HoldsClaim(p, s)', HoldsClaim(q, s)'
                 PROVE  p = q
    BY DEF SingleFlight
  <2>2. QED
    BY <2>1, <1>6 DEF FlightInv, SingleFlight
<1>9. QED
  BY <1>7, <1>8

(* Every step keeps one undisturbed run at most on a settlement.           *)
LEMMA FlightStep ==
  ASSUME FlightInv, [ChargeNext]_chargeVars
  PROVE  FlightInv'
<1>1. ChargeTypeOK'
  BY TypeStep DEF FlightInv
<1>2. CASE \E r \in Run : ClaimForCharge(r)
  BY <1>1, <1>2, FlightClaim DEF FlightInv
<1>3. CASE \A r \in Run : ~ClaimForCharge(r)
  <2>1. ASSUME NEW q \in Run \ displaced', NEW s \in Settlement, HoldsClaim(q, s)'
        PROVE  /\ q \notin displaced /\ HoldsClaim(q, s)
               /\ row'[s].status = row[s].status /\ row'[s].claim = row[s].claim
    BY <1>3, <2>1, HoldsUndisturbed DEF FlightInv
  <2>2. SingleFlight'
    <3>1. SUFFICES ASSUME NEW s \in Settlement, NEW p \in Run \ displaced',
                          NEW q \in Run \ displaced',
                          HoldsClaim(p, s)', HoldsClaim(q, s)'
                   PROVE  p = q
      BY DEF SingleFlight
    <3>2. QED
      BY <2>1, <3>1 DEF FlightInv, SingleFlight
  <2>3. HeldRowsAreClaimed'
    BY <2>1 DEF FlightInv, HeldRowsAreClaimed
  <2>4. QED
    BY <1>1, <2>2, <2>3 DEF FlightInv
<1>4. QED
  BY <1>2, <1>3

(* At the start no run holds anything.                                     *)
LEMMA FlightInit == ChargeInit => FlightInv
<1>1. ChargeInit => HeldRowsAreClaimed /\ SingleFlight
  BY DEF ChargeInit, ChargeLocalsInit, HeldRowsAreClaimed, SingleFlight, HoldsClaim
<1>2. QED
  BY <1>1, TypeInit DEF FlightInv

(* The compare-and-set on the status is a lock: however many drains        *)
(* overlap and crash and webhooks speak, of the runs past their claim of a *)
(* settlement at most one was not displaced by the clock or by an update   *)
(* that is not the claim's.                                                *)
THEOREM SingleFlightHolds == ChargeSpec => []SingleFlight
<1>1. FlightInv /\ [ChargeNext]_chargeVars => FlightInv'
  BY FlightStep
<1>2. FlightInv => SingleFlight
  BY DEF FlightInv
<1>3. QED
  BY <1>1, <1>2, FlightInit, PTL DEF ChargeSpec

(* A paid row is not claimable, webhooks leave it alone, and a run that    *)
(* holds its claim undisturbed finds it 'charging'.                        *)
LEMMA PaidStep ==
  ASSUME FlightInv, [ChargeNext]_chargeVars,
         NEW s \in Settlement, row[s].status = "paid", row'[s].status # "paid"
  PROVE  \E r \in displaced : HoldsClaim(r, s) /\ run'[r] = Idle
<1>1. row \in [Settlement -> Row] /\ run \in [Run -> RunState] /\ ChargeTypeOK
      /\ displaced \subseteq Run
  BY DEF FlightInv, ChargeTypeOK, TablesTypeOK, HistoryTypeOK
<1>2. ASSUME NEW r \in Run, ClaimForCharge(r)
      PROVE  FALSE
  <2>1. run[r].s # s
    BY <1>2 DEF ClaimForCharge, Claimable
  <2>2. QED
    BY <1>1, <1>2, <2>1 DEF ClaimForCharge
<1>3. ASSUME NEW r \in Run, WriteOutcome(r)
      PROVE  \E q \in displaced : HoldsClaim(q, s) /\ run'[q] = Idle
  <2>1. run[r].s = s /\ run'[r] = Idle
    BY <1>1, <1>3 DEF WriteOutcome
  <2>2. HoldsClaim(r, s)
    BY <1>3, <2>1 DEF WriteOutcome, HoldsClaim, Idle
  <2>3. r \in displaced
    BY <2>2 DEF FlightInv, HeldRowsAreClaimed
  <2>4. QED
    BY <2>1, <2>2, <2>3
<1>4. ASSUME NEW h \in Hook, NEW status, Reconcile(h, status)
      PROVE  FALSE
  BY <1>1, <1>4 DEF Reconcile
<1>5. ASSUME NEW x \in Settlement, ClaimGoesStale(x)
      PROVE  FALSE
  BY <1>1, <1>5 DEF ClaimGoesStale
<1>6. ASSUME UNCHANGED row
      PROVE  FALSE
  BY <1>6
<1>7. ASSUME NEW r \in Run, RunStep(r)
      PROVE  WriteOutcome(r)
  BY <1>2, <1>6, <1>7
  DEF RunStep, LoadContext, SkipInactive, LoseClaim, RefuseToCharge,
      ResumeAtPayment, StartInvoice, AddItem, Finalize, BuildThrows, Pay,
      PayDeclined, PayThrows, tables
<1>8. ASSUME NEW h \in Hook, HookStep(h)
      PROVE  FALSE
  BY <1>4, <1>6, <1>8
  DEF HookStep, Deliver, SettlementInvoicePaid, SettlementInvoiceFailed,
      WriteAudit, HookStops, tables
<1>9. QED
  BY <1>3, <1>5, <1>6, <1>7, <1>8
  DEF ChargeNext, chargeVars, SelectCandidate, Crash, Environment,
      PaidOutOfBand, KeysForgotten, ChangeSubscriber, ToggleCharging, tables

(* No claim, webhook or run that still holds its claim takes a settlement  *)
(* back from 'paid': only the last update of a displaced run can.          *)
THEOREM PaidIsFinalHolds == ChargeSpec => PaidIsFinal
<1>1. FlightInv /\ [ChargeNext]_chargeVars => FlightInv'
  BY FlightStep
<1>2. FlightInv /\ [ChargeNext]_chargeVars
        => [\A s \in Settlement :
              row[s].status = "paid" /\ row'[s].status # "paid" =>
                \E r \in displaced : HoldsClaim(r, s) /\ run'[r] = Idle]_<<row, run, displaced>>
  BY PaidStep
<1>3. QED
  BY <1>1, <1>2, FlightInit, PTL DEF ChargeSpec, PaidIsFinal

-----------------------------------------------------------------------------
(***************************************************************************)
(* The bill.  What a run has read of a settlement's lines bounds what it   *)
(* may invoice, and what Stripe remembers under the keys bounds what it    *)
(* still adds.                                                             *)
(***************************************************************************)
BooksAsPersisted == \A s \in Settlement : books[s] \in InitialBooks

HasRead(r) ==
  run[r] # Idle =>
    /\ run[r].pc \in {"loaded", "claimed"} => run[r].todo \in LoadedLines(run[r].s)
    /\ run[r].pc = "claimed" => run[r].sub # "inactive"

ReadInv == ChargeTypeOK /\ BooksAsPersisted /\ \A r \in Run : HasRead(r)

(* Nothing that runs beside a settlement rewrites its books.               *)
LEMMA BooksStay ==
  ASSUME [ChargeNext]_chargeVars
  PROVE  books' = books
BY DEF ChargeNext, chargeVars, SelectCandidate, RunStep, LoadContext,
       SkipInactive, ClaimForCharge, LoseClaim, RefuseToCharge, ResumeAtPayment,
       StartInvoice, AddItem, Finalize, BuildThrows, Pay, PayDeclined, PayThrows,
       WriteOutcome, Crash, HookStep, Deliver, SettlementInvoicePaid,
       SettlementInvoiceFailed, Reconcile, WriteAudit, HookStops, Environment,
       ClaimGoesStale, PaidOutOfBand, KeysForgotten, ChangeSubscriber,
       ToggleCharging, tables

(* The run's own steps, seen from the lines it carries.                    *)
LEMMA OwnRead ==
  ASSUME ReadInv, NEW r \in Run,
         (\E s \in Settlement : SelectCandidate(r, s)) \/ RunStep(r) \/ Crash(r)
  PROVE  HasRead(r)'
<1>1. run \in [Run -> RunState] /\ HasRead(r) /\ ChargeTypeOK
  BY DEF ReadInv, ChargeTypeOK
<1>2. CASE \E s \in Settlement : SelectCandidate(r, s)
  <2>1. run'[r].pc = "selected"
    BY <1>1, <1>2 DEF SelectCandidate
  <2>2. QED
    BY <2>1 DEF HasRead
<1>3. CASE Crash(r)
  BY <1>1, <1>3 DEF Crash, HasRead
<1>4. CASE RunStep(r)
  <2>1. run[r].pc # "idle"
    BY <1>4 DEF RunStep, LoadContext, SkipInactive, ClaimForCharge, LoseClaim,
           RefuseToCharge, ResumeAtPayment, StartInvoice, AddItem, Finalize,
           BuildThrows, Pay, PayDeclined, PayThrows, WriteOutcome
  <2>2. run[r] \in Work /\ run[r] # Idle
    BY <1>1, <2>1, BusyRun DEF Idle
  <2>3. CASE LoadContext(r)
    <3>1. PICK ls \in LoadedLines(run[r].s) :
            run' = [run EXCEPT ![r].pc = "loaded", ![r].todo = ls,
                               ![r].sub = sub[SubscriberOf[run[r].s]]]
      BY <2>3 DEF LoadContext
    <3>2. /\ run'[r].pc = "loaded" /\ run'[r].todo = ls
          /\ run'[r].s = run[r].s
      BY <1>1, <2>2, <3>1 DEF Work
    <3>3. LoadedLines(run[r].s)' = LoadedLines(run[r].s)
      BY <2>2, <2>3, <3>2 DEF LoadContext, tables, LoadedLines
    <3>4. books' = books
      BY <2>3 DEF LoadContext, tables
    <3>5. QED
      BY <3>1, <3>2, <3>4 DEF HasRead, LoadedLines
  <2>4. CASE SkipInactive(r) \/ LoseClaim(r) \/ WriteOutcome(r)
    BY <1>1, <2>4 DEF SkipInactive, LoseClaim, WriteOutcome, HasRead
  <2>5. CASE ClaimForCharge(r)
    <3>1. /\ run'[r].pc = "claimed" /\ run'[r].todo = run[r].todo
          /\ run'[r].s = run[r].s /\ run'[r].sub = run[r].sub
      BY <1>1, <2>2, <2>5 DEF ClaimForCharge, Work
    <3>2. books' = books /\ run[r].pc = "loaded" /\ run[r].sub # "inactive"
      BY <2>5 DEF ClaimForCharge
    <3>3. QED
      BY <1>1, <2>2, <3>1, <3>2 DEF HasRead, LoadedLines
  <2>6. ASSUME NEW why, NEW inv, GiveUp(r, why, inv)
        PROVE  HasRead(r)'
    <3>1. run'[r].pc = "write"
      BY <1>1, <2>2, <2>6 DEF GiveUp, Work
    <3>2. QED
      BY <3>1 DEF HasRead
  <2>7. CASE RefuseToCharge(r) \/ BuildThrows(r) \/ PayDeclined(r) \/ PayThrows(r)
    BY <2>6, <2>7 DEF RefuseToCharge, BuildThrows, PayDeclined, PayThrows
  <2>8. ASSUME run'[r].pc \in {"items", "pay", "write"}
        PROVE  HasRead(r)'
    BY <2>8 DEF HasRead
  <2>9. CASE ResumeAtPayment(r)
    BY <1>1, <2>2, <2>8, <2>9 DEF ResumeAtPayment, Work
  <2>10. CASE StartInvoice(r) \/ AddItem(r)
    BY <1>1, <2>2, <2>8, <2>10 DEF StartInvoice, AddItem, Work
  <2>11. CASE Finalize(r)
    BY <1>1, <2>2, <2>6, <2>8, <2>11 DEF Finalize, Work
  <2>12. CASE Pay(r)
    BY <1>1, <2>2, <2>6, <2>8, <2>12 DEF Pay, Work
  <2>13. QED
    BY <1>4, <2>3, <2>4, <2>5, <2>7, <2>9, <2>10, <2>11, <2>12 DEF RunStep
<1>5. QED
  BY <1>2, <1>3, <1>4

(* Every step keeps what the runs have read.                               *)
LEMMA ReadStep ==
  ASSUME ReadInv, [ChargeNext]_chargeVars
  PROVE  ReadInv'
<1>1. ChargeTypeOK' /\ books' = books /\ BooksAsPersisted'
  BY TypeStep, BooksStay DEF ReadInv, BooksAsPersisted
<1>2. ASSUME NEW q \in Run
      PROVE  HasRead(q)'
  <2>1. CASE run'[q] = run[q]
    BY <1>1, <2>1 DEF ReadInv, HasRead, LoadedLines
  <2>2. CASE run'[q] # run[q]
    BY <2>2, RunMovers, OwnRead DEF ReadInv
  <2>3. QED
    BY <2>1, <2>2
<1>3. QED
  BY <1>1, <1>2 DEF ReadInv

(* At the start no run has read anything.                                  *)
LEMMA ReadInit == ChargeInit => ReadInv
<1>1. ChargeInit => BooksAsPersisted /\ \A r \in Run : HasRead(r)
  BY DEF ChargeInit, ChargeLocalsInit, BooksAsPersisted, HasRead
<1>2. QED
  BY <1>1, TypeInit DEF ReadInv

(* The lines of a settlement are finitely many, and a read returns some.   *)
LEMMA LoadedAreLines ==
  ASSUME ReadInv, NEW s \in Settlement, NEW ls \in LoadedLines(s)
  PROVE  /\ ls \subseteq books[s].lines /\ books[s].lines \subseteq Line
         /\ IsFiniteSet(books[s].lines) /\ IsFiniteSet(ls)
         /\ Cardinality(books[s].lines) \in Nat /\ Cardinality(ls) \in Nat
         /\ Cardinality(books[s].lines) <= books[s].lineCount
         /\ books[s].lineCount \in Nat
         /\ Cardinality(books[s].lines) <= RowCap => ls = books[s].lines
<1>1. books[s] \in Books /\ books[s] \in InitialBooks
  BY DEF ReadInv, BooksAsPersisted, ChargeTypeOK, TablesTypeOK
<1>2. ls \subseteq books[s].lines /\ books[s].lines \subseteq Line
  BY <1>1 DEF LoadedLines, Books
<1>3. IsFiniteSet(books[s].lines) /\ IsFiniteSet(ls)
  BY <1>2, SettlementAssumption, FS_Subset
<1>4. Cardinality(books[s].lines) \in Nat /\ Cardinality(ls) \in Nat
  BY <1>3, FS_CardinalityType
<1>5. Cardinality(books[s].lines) <= books[s].lineCount /\ books[s].lineCount \in Nat
  BY <1>1, ChargeAssumption DEF Books
<1>6. Cardinality(books[s].lines) <= RowCap => ls = books[s].lines
  BY <1>4, ChargeAssumption DEF LoadedLines
<1>7. QED
  BY <1>2, <1>3, <1>4, <1>5, <1>6

(* A read that adds up has missed no line: persist_fee_settlement stores   *)
(* the count of the lines it meant to insert, at least as many as there    *)
(* are.                                                                    *)
LEMMA PassesHasAll ==
  ASSUME ReadInv, NEW r \in Run, run[r].pc = "claimed", Passes(r)
  PROVE  /\ run[r].s \in Settlement
         /\ run[r].todo = books[run[r].s].lines
         /\ Reconciles(books[run[r].s], books[run[r].s].lines)
<1> DEFINE s == run[r].s
<1>1. s \in Settlement /\ run[r] # Idle
  BY BusyRun DEF ReadInv, Work, Idle
<1>2. run[r].todo \in LoadedLines(s)
  BY <1>1 DEF ReadInv, HasRead
<1>3. Cardinality(run[r].todo) = books[s].lineCount
  BY DEF Passes, Reconciles
<1>4. run[r].todo = books[s].lines
  <2>1. Cardinality(run[r].todo) <= Cardinality(books[s].lines)
    BY <1>1, <1>2, LoadedAreLines, FS_Subset
  <2>2. Cardinality(run[r].todo) = Cardinality(books[s].lines)
    BY <1>1, <1>2, <1>3, <2>1, LoadedAreLines
  <2>3. QED
    BY <1>1, <1>2, <2>2, LoadedAreLines, FS_Subset
<1>5. QED
  BY <1>1, <1>4 DEF Passes

(* The items of an invoice that bills each of the lines once.              *)
Billed(lines) == [l \in Line |-> IF l \in lines THEN 1 ELSE 0]

Adds(s) == Reconciles(books[s], books[s].lines)

(* What Stripe has for a settlement whose keys it has not forgotten in the *)
(* middle of a build: the invoice under the live key bills the lines whose *)
(* item keys replay, a finalized one is the whole bill.                    *)
KeyedInvoice(s, i) ==
  /\ invoices[s][i].status = "none" => invoices[s][i].items = NoItems
  /\ liveKey[s] = i => invoices[s][i].items = Billed(itemKeys[s])
  /\ Finalized(s, i) => Adds(s) /\ invoices[s][i].items = Billed(books[s].lines)

Keyed(s) ==
  s \notin torn =>
    /\ itemKeys[s] \subseteq books[s].lines
    /\ liveKey[s] = NoInvoice => itemKeys[s] = {}
    /\ \A i \in Slot : KeyedInvoice(s, i)

(* A run that adds items works on the invoice of the live key, and every   *)
(* line it does not add any more is on it already.                         *)
Builds(r) ==
  run[r].pc = "items" /\ run[r].s \notin torn =>
    /\ liveKey[run[r].s] = run[r].invoice
    /\ run[r].todo \subseteq books[run[r].s].lines
    /\ books[run[r].s].lines \subseteq itemKeys[run[r].s] \cup run[r].todo
    /\ Adds(run[r].s)

BillInv ==
  ReadInv /\ (\A s \in Settlement : Keyed(s)) /\ (\A r \in Run : Builds(r))

(* What a settlement's Stripe side says does not depend on anything else.  *)
LEMMA KeyedFrame ==
  ASSUME NEW s \in Settlement, Keyed(s), invoices'[s] = invoices[s],
         liveKey'[s] = liveKey[s], itemKeys'[s] = itemKeys[s], books' = books,
         torn \subseteq torn'
  PROVE  Keyed(s)'
BY DEF Keyed, KeyedInvoice, Finalized, Adds

(* A run that stays where it is keeps building the same invoice, as long   *)
(* as the key stays and Stripe forgets no item.                            *)
LEMMA BuildsFrame ==
  ASSUME NEW r \in Run, Builds(r), run'[r] = run[r], books' = books,
         torn \subseteq torn',
         run[r].pc = "items" =>
           /\ liveKey'[run[r].s] = liveKey[run[r].s]
           /\ itemKeys[run[r].s] \subseteq itemKeys'[run[r].s]
  PROVE  Builds(r)'
BY DEF Builds, Adds

(* An invoice that moves on in its status keeps its items; it must be the  *)
(* whole bill once it is finalized.                                        *)
LEMMA KeyedStatus ==
  ASSUME StripeTypeOK, NEW s \in Settlement, Keyed(s), NEW i \in Slot,
         NEW st \in {"open", "paid"},
         invoices' = [invoices EXCEPT ![s][i].status = st],
         UNCHANGED <<liveKey, itemKeys, torn>>, books' = books,
         s \notin torn => Adds(s) /\ invoices[s][i].items = Billed(books[s].lines)
  PROVE  \A x \in Settlement : Keyed(x) => Keyed(x)'
<1>1. \A x \in Settlement \ {s} : invoices'[x] = invoices[x]
  BY DEF StripeTypeOK
<1>2. \A j \in Slot \ {i} : invoices'[s][j] = invoices[s][j]
  BY DEF StripeTypeOK
<1>3. invoices'[s][i].items = invoices[s][i].items /\ invoices'[s][i].status = st
  BY DEF StripeTypeOK, Invoice
<1>4. ASSUME s \notin torn, NEW j \in Slot
      PROVE  KeyedInvoice(s, j)'
  <2>1. KeyedInvoice(s, j)
    BY <1>4 DEF Keyed
  <2>2. CASE j = i
    BY <1>3, <1>4, <2>1, <2>2 DEF KeyedInvoice, Adds
  <2>3. CASE j # i
    BY <1>2, <2>1, <2>3 DEF KeyedInvoice, Adds, Finalized
  <2>4. QED
    BY <2>2, <2>3
<1>5. Keyed(s)'
  BY <1>4 DEF Keyed
<1>6. QED
  BY <1>1, <1>5, KeyedFrame

(* Creating the invoice: the one of the key, or an empty draft.            *)
LEMMA BillCreate ==
  ASSUME BillInv, NEW s \in Settlement, NEW i \in Slot, CreateInvoice(s, i),
         books' = books, torn' = torn
  PROVE  /\ \A x \in Settlement : Keyed(x)'
         /\ liveKey'[s] = i /\ itemKeys' = itemKeys
         /\ \A x \in Settlement : liveKey[x] # NoInvoice => liveKey'[x] = liveKey[x]
<1>1. StripeTypeOK /\ \A x \in Settlement : Keyed(x)
  BY DEF BillInv, ReadInv, ChargeTypeOK
<1>2. i # NoInvoice /\ itemKeys' = itemKeys
  BY DEF Slot, NoInvoice, CreateInvoice
<1>3. CASE liveKey[s] = i /\ UNCHANGED <<invoices, liveKey>>
  BY <1>1, <1>2, <1>3, KeyedFrame
<1>4. CASE /\ liveKey[s] = NoInvoice
           /\ invoices[s][i].status = "none"
           /\ invoices' = [invoices EXCEPT ![s][i].status = "draft"]
           /\ liveKey' = [liveKey EXCEPT ![s] = i]
  <2>1. /\ \A x \in Settlement \ {s} : invoices'[x] = invoices[x]
                                       /\ liveKey'[x] = liveKey[x]
        /\ \A j \in Slot \ {i} : invoices'[s][j] = invoices[s][j]
        /\ invoices'[s][i].items = invoices[s][i].items
        /\ invoices'[s][i].status = "draft" /\ liveKey'[s] = i
    BY <1>1, <1>4 DEF StripeTypeOK, Invoice
  <2>2. s \notin torn => itemKeys[s] = {} /\ invoices[s][i].items = Billed({})
    <3>1. Billed({}) = NoItems
      BY DEF Billed, NoItems
    <3>2. Keyed(s)
      BY <1>1
    <3>3. QED
      BY <1>4, <3>1, <3>2 DEF Keyed, KeyedInvoice
  <2>3. ASSUME s \notin torn, NEW j \in Slot
        PROVE  KeyedInvoice(s, j)'
    <3>1. KeyedInvoice(s, j)
      BY <1>1, <2>3 DEF Keyed
    <3>2. CASE j = i
      BY <1>2, <2>1, <2>2, <2>3, <3>2 DEF KeyedInvoice, Finalized
    <3>3. CASE j # i
      BY <2>1, <3>1, <3>3 DEF KeyedInvoice, Adds, Finalized
    <3>4. QED
      BY <3>2, <3>3
  <2>4. Keyed(s)'
    BY <1>1, <1>2, <2>1, <2>3 DEF Keyed
  <2>5. QED
    BY <1>1, <1>2, <1>4, <2>1, <2>4, KeyedFrame
<1>5. QED
  BY <1>3, <1>4 DEF CreateInvoice

(* Adding an item under its key: it is on the live invoice exactly once.   *)
LEMMA BillItem ==
  ASSUME BillInv, NEW s \in Settlement, NEW i \in Slot, NEW l \in Line,
         s \notin torn => l \in books[s].lines /\ liveKey[s] = i,
         AddInvoiceItem(s, i, l), books' = books, torn' = torn
  PROVE  /\ \A x \in Settlement : Keyed(x)'
         /\ liveKey' = liveKey /\ l \in itemKeys'[s]
         /\ \A x \in Settlement : itemKeys[x] \subseteq itemKeys'[x]
<1>1. StripeTypeOK /\ \A x \in Settlement : Keyed(x)
  BY DEF BillInv, ReadInv, ChargeTypeOK
<1>2. i # NoInvoice /\ liveKey' = liveKey
  BY DEF Slot, NoInvoice, AddInvoiceItem
<1>3. CASE l \in itemKeys[s] /\ UNCHANGED <<invoices, itemKeys>>
  BY <1>1, <1>2, <1>3, KeyedFrame
<1>4. CASE /\ l \notin itemKeys[s]
           /\ invoices[s][i].status = "draft"
           /\ invoices' = [invoices EXCEPT ![s][i].items[l] = @ + 1]
           /\ itemKeys' = [itemKeys EXCEPT ![s] = @ \cup {l}]
  <2>1. /\ \A x \in Settlement \ {s} : invoices'[x] = invoices[x]
                                       /\ itemKeys'[x] = itemKeys[x]
        /\ \A j \in Slot \ {i} : invoices'[s][j] = invoices[s][j]
        /\ invoices'[s][i].items = [invoices[s][i].items EXCEPT ![l] = @ + 1]
        /\ invoices'[s][i].status = "draft"
        /\ itemKeys'[s] = itemKeys[s] \cup {l}
    BY <1>1, <1>4 DEF StripeTypeOK, Invoice
  <2>2. s \notin torn => invoices[s][i].items = Billed(itemKeys[s])
    BY <1>1 DEF Keyed, KeyedInvoice
  <2>3. s \notin torn => invoices'[s][i].items = Billed(itemKeys'[s])
    BY <1>4, <2>1, <2>2 DEF Billed
  <2>4. ASSUME s \notin torn, NEW j \in Slot
        PROVE  KeyedInvoice(s, j)'
    <3>1. KeyedInvoice(s, j)
      BY <1>1, <2>4 DEF Keyed
    <3>2. CASE j = i
      BY <1>2, <2>1, <2>3, <2>4, <3>2 DEF KeyedInvoice, Finalized
    <3>3. CASE j # i
      BY <1>2, <2>1, <2>4, <3>1, <3>3 DEF KeyedInvoice, Adds, Finalized
    <3>4. QED
      BY <3>2, <3>3
  <2>5. Keyed(s)'
    BY <1>1, <1>2, <2>1, <2>4 DEF Keyed
  <2>6. QED
    BY <1>1, <1>2, <2>1, <2>5, KeyedFrame
<1>5. QED
  BY <1>3, <1>4 DEF AddInvoiceItem

(* A step of a run that touches Stripe.                                    *)
LEMMA BillRunStep ==
  ASSUME BillInv, NEW r \in Run, RunStep(r), books' = books, torn' = torn
  PROVE  /\ \A s \in Settlement : Keyed(s)'
         /\ Builds(r)'
         /\ \A q \in Run \ {r} : Builds(q)'
<1>1. /\ ChargeTypeOK /\ StripeTypeOK /\ run \in [Run -> RunState]
      /\ \A s \in Settlement : Keyed(s)
      /\ \A q \in Run : Builds(q)
  BY DEF BillInv, ReadInv, ChargeTypeOK
<1>2. run[r].pc # "idle"
  BY DEF RunStep, LoadContext, SkipInactive, ClaimForCharge, LoseClaim,
         RefuseToCharge, ResumeAtPayment, StartInvoice, AddItem, Finalize,
         BuildThrows, Pay, PayDeclined, PayThrows, WriteOutcome
<1>3. /\ run[r] \in Work /\ run[r].s \in Settlement
      /\ run[r].pc \in {"items", "pay"} => run[r].invoice \in Slot
  BY <1>1, <1>2, BusyRun DEF Work
<1> DEFINE s == run[r].s
           i == run[r].invoice
<1>4. \A q \in Run \ {r} : run'[q] = run[q]
  <2>1. CASE ClaimForCharge(r)
    BY <1>1, <2>1 DEF ClaimForCharge
  <2>2. QED
    BY <1>1, <2>1, OwnHold
<1>5. ASSUME NEW q \in Run, run[q].pc = "items", run[q].s \notin torn
      PROVE  run[q].s \in Settlement /\ liveKey[run[q].s] # NoInvoice
  BY <1>1, <1>5, BusyRun DEF Builds, Work, Slot, NoInvoice
<1>6. CASE StartInvoice(r)
  <2>1. PICK j \in Slot :
          /\ CreateInvoice(s, j)
          /\ run' = [run EXCEPT ![r].pc = "items", ![r].invoice = j]
    BY <1>6 DEF StartInvoice
  <2>2. /\ \A x \in Settlement : Keyed(x)'
        /\ liveKey'[s] = j /\ itemKeys' = itemKeys
        /\ \A x \in Settlement : liveKey[x] # NoInvoice => liveKey'[x] = liveKey[x]
    BY <1>3, <2>1, BillCreate
  <2>3. run[r].todo = books[s].lines /\ Adds(s)
    BY <1>6, PassesHasAll DEF StartInvoice, BillInv, Adds
  <2>4. /\ run'[r].s = s /\ run'[r].todo = run[r].todo /\ run'[r].invoice = j
    BY <1>1, <1>3, <2>1 DEF Work
  <2>5. Builds(r)'
    BY <2>2, <2>3, <2>4 DEF Builds, Adds
  <2>6. ASSUME NEW q \in Run \ {r}
        PROVE  Builds(q)'
    <3>1. CASE run[q].pc = "items" /\ run[q].s \notin torn
      BY <1>1, <1>4, <1>5, <2>2, <3>1, BuildsFrame
    <3>2. QED
      BY <1>4, <3>1 DEF Builds
  <2>7. QED
    BY <2>2, <2>5, <2>6
<1>7. CASE AddItem(r)
  <2>1. PICK l \in run[r].todo :
          /\ AddInvoiceItem(s, i, l)
          /\ run' = [run EXCEPT ![r].todo = @ \ {l}]
    BY <1>7 DEF AddItem
  <2>2. /\ i \in Slot /\ l \in Line
        /\ s \notin torn =>
             /\ liveKey[s] = i /\ l \in books[s].lines
             /\ run[r].todo \subseteq books[s].lines
             /\ books[s].lines \subseteq itemKeys[s] \cup run[r].todo /\ Adds(s)
    BY <1>1, <1>3, <1>7, <2>1 DEF AddItem, Builds, Work
  <2>3. /\ \A x \in Settlement : Keyed(x)'
        /\ liveKey' = liveKey /\ l \in itemKeys'[s]
        /\ \A x \in Settlement : itemKeys[x] \subseteq itemKeys'[x]
    BY <1>3, <2>1, <2>2, BillItem
  <2>4. /\ run'[r].s = s /\ run'[r].todo = run[r].todo \ {l}
        /\ run'[r].invoice = i
    BY <1>1, <1>3, <2>1 DEF Work
  <2>5. Builds(r)'
    BY <1>3, <2>2, <2>3, <2>4 DEF Builds, Adds
  <2>6. ASSUME NEW q \in Run \ {r}
        PROVE  Builds(q)'
    <3>1. CASE run[q].pc = "items" /\ run[q].s \notin torn
      BY <1>1, <1>4, <1>5, <2>3, <3>1, BuildsFrame
    <3>2. QED
      BY <1>4, <3>1 DEF Builds
  <2>7. QED
    BY <2>3, <2>5, <2>6
<1>8. ASSUME UNCHANGED <<liveKey, itemKeys>>, run'[r].pc # "items"
      PROVE  Builds(r)' /\ \A q \in Run \ {r} : Builds(q)'
  BY <1>1, <1>4, <1>8, BuildsFrame DEF Builds
<1>9. ASSUME NEW why, NEW inv, GiveUp(r, why, inv)
      PROVE  run'[r].pc # "items"
  BY <1>1, <1>3, <1>9 DEF GiveUp, Work
<1>10. CASE Finalize(r)
  <2>1. run'[r].pc # "items"
    BY <1>1, <1>3, <1>9, <1>10 DEF Finalize, Work
  <2>2. /\ i \in Slot
        /\ s \notin torn => /\ liveKey[s] = i /\ itemKeys[s] = books[s].lines
                           /\ Adds(s)
    BY <1>1, <1>3, <1>10 DEF Finalize, Builds, Keyed
  <2>3. s \notin torn => invoices[s][i].items = Billed(books[s].lines)
    BY <1>1, <1>3, <2>2 DEF Keyed, KeyedInvoice
  <2>4. \A x \in Settlement : Keyed(x)'
    BY <1>1, <1>3, <1>10, <2>2, <2>3, KeyedStatus DEF Finalize, FinalizeInvoice
  <2>5. QED
    BY <1>8, <1>10, <2>1, <2>4 DEF Finalize, FinalizeInvoice
<1>11. CASE Pay(r)
  <2>1. run'[r].pc # "items"
    BY <1>1, <1>3, <1>9, <1>11 DEF Pay, Work
  <2>2. i \in Slot /\ Finalized(s, i)
    BY <1>3, <1>11 DEF Pay, CollectPayment, Finalized
  <2>3. s \notin torn => Adds(s) /\ invoices[s][i].items = Billed(books[s].lines)
    BY <1>1, <1>3, <2>2 DEF Keyed, KeyedInvoice
  <2>4. \A x \in Settlement : Keyed(x)'
    BY <1>1, <1>3, <1>11, <2>2, <2>3, KeyedStatus DEF Pay, CollectPayment
  <2>5. QED
    BY <1>8, <1>11, <2>1, <2>4 DEF Pay, CollectPayment
<1>12. ASSUME UNCHANGED <<invoices, liveKey, itemKeys>>, run'[r].pc # "items"
       PROVE  /\ \A x \in Settlement : Keyed(x)'
              /\ Builds(r)' /\ \A q \in Run \ {r} : Builds(q)'
  BY <1>1, <1>8, <1>12, KeyedFrame
<1>13. CASE \/ LoadContext(r) \/ SkipInactive(r) \/ ClaimForCharge(r)
            \/ LoseClaim(r) \/ RefuseToCharge(r) \/ ResumeAtPayment(r)
            \/ BuildThrows(r) \/ PayDeclined(r) \/ PayThrows(r) \/ WriteOutcome(r)
  <2>1. UNCHANGED <<invoices, liveKey, itemKeys>>
    BY <1>13 DEF LoadContext, SkipInactive, ClaimForCharge, LoseClaim,
       RefuseToCharge, ResumeAtPayment, BuildThrows, PayDeclined, DeclinePayment,
       PayThrows, WriteOutcome, stripeVars
  <2>2. CASE \/ RefuseToCharge(r) \/ BuildThrows(r) \/ PayDeclined(r) \/ PayThrows(r)
    BY <1>9, <1>12, <2>1, <2>2 DEF RefuseToCharge, BuildThrows, PayDeclined, PayThrows
  <2>3. CASE SkipInactive(r) \/ LoseClaim(r) \/ WriteOutcome(r)
    BY <1>1, <1>12, <2>1, <2>3 DEF SkipInactive, LoseClaim, WriteOutcome, Idle
  <2>4. CASE LoadContext(r) \/ ClaimForCharge(r) \/ ResumeAtPayment(r)
    <3>1. run'[r].pc # "items"
      BY <1>1, <1>3, <2>4 DEF LoadContext, ClaimForCharge, ResumeAtPayment, Work
    <3>2. QED
      BY <1>12, <2>1, <3>1
  <2>5. QED
    BY <1>13, <2>2, <2>3, <2>4
<1>14. QED
  BY <1>6, <1>7, <1>10, <1>11, <1>13 DEF RunStep

(* Stripe's own steps: a payment of a finalized invoice, and forgetting    *)
(* the keys while nobody builds.                                           *)
LEMMA BillStripeStep ==
  ASSUME BillInv, NEW s \in Settlement, PaidOutOfBand(s) \/ KeysForgotten(s)
  PROVE  (\A x \in Settlement : Keyed(x)') /\ (\A q \in Run : Builds(q)')
<1>1. /\ ChargeTypeOK /\ StripeTypeOK
      /\ \A x \in Settlement : Keyed(x)
      /\ \A q \in Run : Builds(q)
      /\ books' = books /\ run' = run /\ torn \subseteq torn'
  BY DEF BillInv, ReadInv, ChargeTypeOK, PaidOutOfBand, KeysForgotten, tables, history
<1>2. CASE PaidOutOfBand(s)
  <2>1. PICK i \in Slot : CollectPayment(s, i)
    BY <1>2 DEF PaidOutOfBand
  <2>2. s \notin torn => Adds(s) /\ invoices[s][i].items = Billed(books[s].lines)
    BY <1>1, <2>1 DEF CollectPayment, Keyed, KeyedInvoice, Finalized
  <2>3. \A x \in Settlement : Keyed(x)'
    BY <1>1, <1>2, <2>1, <2>2, KeyedStatus DEF CollectPayment, PaidOutOfBand, history
  <2>4. QED
    BY <1>1, <2>1, <2>3, BuildsFrame DEF CollectPayment
<1>3. CASE KeysForgotten(s)
  <2>1. s \notin torn' => \A r \in Run : ~(HoldsClaim(r, s) /\ run[r].pc = "items")
    BY <1>3 DEF KeysForgotten
  <2>2. /\ invoices' = invoices
        /\ liveKey' = [liveKey EXCEPT ![s] = NoInvoice]
        /\ itemKeys' = [itemKeys EXCEPT ![s] = {}]
    BY <1>3 DEF KeysForgotten, ExpireKeys
  <2>3. /\ liveKey'[s] = NoInvoice /\ itemKeys'[s] = {}
        /\ \A x \in Settlement \ {s} : liveKey'[x] = liveKey[x]
                                       /\ itemKeys'[x] = itemKeys[x]
    BY <1>1, <2>2 DEF StripeTypeOK
  <2>4. ASSUME s \notin torn', NEW j \in Slot
        PROVE  KeyedInvoice(s, j)'
    <3>1. KeyedInvoice(s, j) /\ j # NoInvoice
      BY <1>1, <2>4 DEF Keyed, Slot, NoInvoice
    <3>2. QED
      BY <1>1, <2>2, <2>3, <3>1 DEF KeyedInvoice, Finalized, Adds
  <2>5. Keyed(s)'
    BY <2>3, <2>4 DEF Keyed
  <2>6. \A x \in Settlement : Keyed(x)'
    BY <1>1, <2>2, <2>3, <2>5, KeyedFrame
  <2>7. ASSUME NEW q \in Run
        PROVE  Builds(q)'
    <3>1. CASE run[q].pc = "items" /\ run[q].s \notin torn'
      <4>1. run[q].s \in Settlement /\ run[q].s # s
        BY <1>1, <2>1, <3>1, BusyRun DEF HoldsClaim, Idle, Work
      <4>2. QED
        BY <1>1, <2>3, <4>1, BuildsFrame
    <3>2. QED
      BY <1>1, <3>1 DEF Builds
  <2>8. QED
    BY <2>6, <2>7
<1>4. QED
  BY <1>2, <1>3

(* Every step keeps the invoices and the builds in line with the books.    *)
LEMMA BillStep ==
  ASSUME BillInv, [ChargeNext]_chargeVars
  PROVE  BillInv'
<1>1. ReadInv' /\ books' = books
  BY ReadStep, BooksStay DEF BillInv
<1>2. (\A s \in Settlement : Keyed(s)) /\ (\A q \in Run : Builds(q))
  BY DEF BillInv
<1>3. run \in [Run -> RunState]
  BY DEF BillInv, ReadInv, ChargeTypeOK
<1>4. ASSUME NEW r \in Run, RunStep(r)
      PROVE  BillInv'
  <2>1. torn' = torn
    BY <1>4 DEF RunStep, LoadContext, SkipInactive, ClaimForCharge, LoseClaim,
       RefuseToCharge, ResumeAtPayment, StartInvoice, AddItem, Finalize, BuildThrows,
       Pay, PayDeclined, PayThrows, WriteOutcome, Displaces, history
  <2>2. QED
    BY <1>1, <1>4, <2>1, BillRunStep DEF BillInv
<1>5. ASSUME NEW s \in Settlement, PaidOutOfBand(s) \/ KeysForgotten(s)
      PROVE  BillInv'
  BY <1>1, <1>5, BillStripeStep DEF BillInv
<1>6. ASSUME UNCHANGED <<invoices, liveKey, itemKeys, torn>>,
             \A q \in Run : run'[q] = run[q] \/ run'[q].pc # "items"
      PROVE  BillInv'
  <2>1. \A s \in Settlement : Keyed(s)'
    BY <1>1, <1>2, <1>6, KeyedFrame
  <2>2. ASSUME NEW q \in Run
        PROVE  Builds(q)'
    <3>1. CASE run'[q] = run[q]
      BY <1>1, <1>2, <1>6, <3>1, BuildsFrame
    <3>2. QED
      BY <1>6, <3>1 DEF Builds
  <2>3. QED
    BY <1>1, <2>1, <2>2 DEF BillInv
<1>7. ASSUME NEW r \in Run, (\E s \in Settlement : SelectCandidate(r, s)) \/ Crash(r)
      PROVE  BillInv'
  <2>1. UNCHANGED <<invoices, liveKey, itemKeys, torn>>
    BY <1>7 DEF SelectCandidate, Crash, stripeVars, history
  <2>2. \A q \in Run : run'[q] = run[q] \/ run'[q].pc # "items"
    BY <1>3, <1>7 DEF SelectCandidate, Crash, Idle
  <2>3. QED
    BY <1>6, <2>1, <2>2
<1>8. CASE \/ UNCHANGED chargeVars
           \/ \E h \in Hook : HookStep(h)
           \/ \E s \in Settlement : ClaimGoesStale(s)
           \/ \E u \in Subscriber : ChangeSubscriber(u)
           \/ ToggleCharging
  <2>1. UNCHANGED <<invoices, liveKey, itemKeys, torn, run>>
    BY <1>8 DEF chargeVars, HookStep, Deliver, SettlementInvoicePaid,
       SettlementInvoiceFailed, Reconcile, WriteAudit, HookStops,
       ClaimGoesStale, ChangeSubscriber, ToggleCharging, Displaces, stripeVars, history
  <2>2. QED
    BY <1>6, <2>1
<1>9. QED
  BY <1>4, <1>5, <1>7, <1>8 DEF ChargeNext, Environment

(* At the start no invoice has an item and no key is live.                 *)
LEMMA BillInit == ChargeInit => BillInv
<1> SUFFICES ASSUME ChargeInit PROVE BillInv
  OBVIOUS
<1>1. \A s \in Settlement : Keyed(s)
  BY DEF ChargeInit, ChargeLocalsInit, StripeInit, Keyed, KeyedInvoice, Finalized,
         Slot, NoInvoice
<1>2. \A r \in Run : Builds(r)
  BY DEF ChargeInit, ChargeLocalsInit, Builds, Idle
<1>3. QED
  BY <1>1, <1>2, ReadInit DEF BillInv

(* Whoever builds it, an invoice that can be paid is the settlement's bill *)
(* line by line, unless Stripe forgot the keys between two of its items.   *)
THEOREM InvoiceIsTheBillHolds == ChargeSpec => []InvoiceIsTheBill
<1>1. BillInv /\ [ChargeNext]_chargeVars => BillInv'
  BY BillStep
<1>2. BillInv => InvoiceIsTheBill
  BY DEF BillInv, Keyed, KeyedInvoice, InvoiceIsTheBill, Adds, Billed
<1>3. QED
  BY <1>1, <1>2, BillInit, PTL DEF ChargeSpec

-----------------------------------------------------------------------------
(* Parts 3 and 4. The refund, and the two together. *)

(* A webhook invocation works on an event that Stripe has emitted.         *)
RefundHooksCarryEvents ==
  \A h \in RefundHook :
    refundHook[h] # IdleRefundHook => refundHook[h].event \in refundEvents

RefundTypeInv == RefundTypeOK /\ RefundHooksCarryEvents

(* A function stays a function into T when one of its values is replaced by *)
(* a value of T, or when a value outside its domain is.                     *)
LEMMA Replaced ==
  ASSUME NEW S, NEW T, NEW f \in [S -> T], NEW j, NEW y, j \in S => y \in T
  PROVE  [f EXCEPT ![j] = y] \in [S -> T]
OBVIOUS

(* Writing a status and a claim keeps a settlement row well typed.         *)
LEMMA RowWithStatus ==
  ASSUME NEW r \in Row, NEW status \in Status, NEW claim \in Claim
  PROVE  /\ [r EXCEPT !.status = status] \in Row
         /\ [r EXCEPT !.claim = claim] \in Row
         /\ [r EXCEPT !.status = status, !.claim = claim] \in Row
BY DEF Row

(* Only a settlement row changes, to a well-typed one.                     *)
LEMMA TablesUpdate ==
  ASSUME TablesTypeOK, NEW s \in Settlement, NEW y \in Row,
         row' = [row EXCEPT ![s] = y], UNCHANGED <<books, sub>>
  PROVE  TablesTypeOK'
BY DEF TablesTypeOK

(* A call that has started has a full working state.                       *)
LEMMA BusyCall ==
  ASSUME RefundTypeOK, NEW c \in Caller, call[c].pc # "idle"
  PROVE  call[c] \in Calling
BY DEF RefundTypeOK, IdleCall

(* A webhook invocation that has started holds an event and a row.         *)
LEMMA BusyRefundHook ==
  ASSUME RefundTypeInv, NEW h \in RefundHook, refundHook[h].step # "idle"
  PROVE  /\ refundHook[h] \in RefundHandling
         /\ refundHook[h].event \in refundEvents
BY DEF RefundTypeInv, RefundTypeOK, RefundHooksCarryEvents, IdleRefundHook

(* The initial state is well typed.                                        *)
LEMMA RefundTypeInit == RefundInit => RefundTypeInv
<1> SUFFICES ASSUME RefundInit PROVE RefundTypeInv
  OBVIOUS
<1>1. TablesTypeOK
  <2>1. 1 \in Slot
    BY SettlementAssumption DEF Slot
  <2>2. [NewRow EXCEPT !.status = "paid", !.claim = "stale", !.invoice = 1] \in Row
    BY <2>1 DEF NewRow, Row, Status, Claim
  <2>3. NoBooks \in Books
    BY DEF NoBooks, Books
  <2>4. QED
    BY <2>2, <2>3, SettlementAssumption DEF RefundInit, TablesTypeOK
<1>2. /\ refunds \in [Settlement -> [RefundSlot -> RefundStatus \cup {"none"}]]
      /\ refundKey \in [Settlement -> Answer \cup {NoAnswer}]
      /\ refundRows \in [Settlement -> [RefundRowSlot -> RefundRow]]
  BY DEF RefundInit, RefundLocalsInit, RefundRow
<1>3. QED
  BY <1>1, <1>2, RefundAssumption
  DEF RefundInit, RefundLocalsInit, RefundTypeInv, RefundTypeOK,
      RefundHooksCarryEvents

(* Only a call changes, to a well-typed state.                             *)
LEMMA CallUpdate ==
  ASSUME RefundTypeInv, NEW c \in Caller, NEW x \in Calling \cup {IdleCall},
         call' = [call EXCEPT ![c] = x],
         UNCHANGED <<row, books, sub, stripeRefundVars, delivered, refundRows,
                     refundHook, refundAudited, refundsEnabled, refundCrashes>>
  PROVE  RefundTypeInv'
BY DEF RefundTypeInv, RefundTypeOK, RefundHooksCarryEvents, TablesTypeOK,
       stripeRefundVars

(* Stripe's side of a refund stays well typed, and no event is forgotten.  *)
LEMMA TypeCreateRefund ==
  ASSUME RefundTypeOK, NEW s \in Settlement, NEW a \in Answer, CreateRefund(s, a)
  PROVE  /\ refunds' \in [Settlement -> [RefundSlot -> RefundStatus \cup {"none"}]]
         /\ refundKey' \in [Settlement -> Answer \cup {NoAnswer}]
         /\ refundEvents' \subseteq RefundEvent
         /\ refundEvents \subseteq refundEvents'
<1>1. CASE UNCHANGED stripeRefundVars
  BY <1>1 DEF RefundTypeOK, stripeRefundVars
<1>2. CASE NewRefund(s, a)
  <2>1. a.refund \in RefundSlot /\ a.status \in RefundStatus
    BY DEF Answer
  <2>2. refunds' \in [Settlement -> [RefundSlot -> RefundStatus \cup {"none"}]]
    BY <1>2, <2>1 DEF NewRefund, RefundTypeOK
  <2>3. refundKey' \in [Settlement -> Answer \cup {NoAnswer}]
    BY <1>2 DEF NewRefund, RefundTypeOK
  <2>4. a.status # "pending" =>
          [s |-> s, refund |-> a.refund, status |-> a.status] \in RefundEvent
    BY <2>1 DEF RefundEvent, RefundStatus
  <2>5. QED
    BY <1>2, <2>2, <2>3, <2>4 DEF NewRefund, Announce, RefundTypeOK
<1>3. QED
  BY <1>1, <1>2 DEF CreateRefund

(* A call before it changes anything keeps the types.                      *)
LEMMA TypeCallReads ==
  ASSUME RefundTypeInv, NEW c \in Caller,
         \/ \E s \in Settlement : LoadSettlement(c, s)
         \/ CheckGates(c) \/ ResumeInflight(c) \/ NothingInflight(c)
         \/ SumReserved(c) \/ LoseRefundClaim(c)
  PROVE  RefundTypeInv'
<1>1. CASE \E s \in Settlement : LoadSettlement(c, s)
  <2>1. PICK s \in Settlement : LoadSettlement(c, s)
    BY <1>1
  <2> DEFINE x == [pc |-> "loaded", s |-> s, status |-> row[s].status, j |-> 0,
                   result |-> "none", refund |-> NoRefund]
  <2>2. x \in Calling
    BY <2>1 DEF LoadSettlement, Calling
  <2>3. QED
    BY <2>1, <2>2, CallUpdate DEF LoadSettlement
<1>2. ASSUME call[c].pc # "idle", NEW pc \in {"sum", "resume", "claim"}, Proceed(c, pc)
      PROVE  RefundTypeInv'
  <2> DEFINE x == [call[c] EXCEPT !.pc = pc]
  <2>1. x \in Calling
    BY <1>2, BusyCall DEF RefundTypeInv, Calling
  <2>2. call' = [call EXCEPT ![c] = x]
    BY <1>2 DEF Proceed
  <2>3. QED
    BY <1>2, <2>1, <2>2, CallUpdate DEF Proceed
<1>3. ASSUME Return(c)
      PROVE  RefundTypeInv'
  BY <1>3, CallUpdate DEF Return
<1>4. CASE CheckGates(c)
  BY <1>2, <1>3, <1>4 DEF CheckGates
<1>5. CASE ResumeInflight(c)
  <2>1. PICK j \in InflightRows(call[c].s) :
          call' = [call EXCEPT ![c].pc = "stripe", ![c].j = j]
    BY <1>5 DEF ResumeInflight
  <2> DEFINE x == [call[c] EXCEPT !.pc = "stripe", !.j = j]
  <2>2. x \in Calling
    BY <1>5, BusyCall DEF RefundTypeInv, ResumeInflight, Calling, InflightRows
  <2>3. call' = [call EXCEPT ![c] = x]
    BY <2>1
  <2>4. QED
    BY <1>5, <2>2, <2>3, CallUpdate DEF ResumeInflight
<1>6. CASE NothingInflight(c) \/ LoseRefundClaim(c)
  BY <1>3, <1>6 DEF NothingInflight, LoseRefundClaim
<1>7. CASE SumReserved(c)
  BY <1>2, <1>3, <1>7 DEF SumReserved
<1>8. QED
  BY <1>1, <1>4, <1>5, <1>6, <1>7

(* The claim, the inserted row and the settlement's last update.           *)
LEMMA TypeCallWrites ==
  ASSUME RefundTypeInv, NEW c \in Caller,
         \/ ClaimForRefund(c) \/ InsertRefundRow(c) \/ AskStripe(c) \/ StripeThrows(c)
         \/ WriteRefundRow(c) \/ SettleSettlement(c) \/ CallerStops(c)
  PROVE  RefundTypeInv'
<1>1. CASE ClaimForRefund(c)
  <2>1. call[c] \in Calling
    BY <1>1, BusyCall DEF RefundTypeInv, ClaimForRefund
  <2> DEFINE s == call[c].s
             x == [call[c] EXCEPT !.pc = "insert"]
             y == [row[s] EXCEPT !.status = "refund_pending", !.claim = "fresh"]
  <2>2. s \in Settlement /\ x \in Calling
    BY <2>1 DEF Calling
  <2>3. y \in Row
    <3>1. row[s] \in Row
      BY <2>2 DEF RefundTypeInv, RefundTypeOK, TablesTypeOK
    <3>2. "refund_pending" \in Status /\ "fresh" \in Claim
      BY DEF Status, Claim
    <3>3. QED
      BY <3>1, <3>2, RowWithStatus
  <2>4. /\ call' = [call EXCEPT ![c] = x]
        /\ row' = [row EXCEPT ![s] = y]
        /\ UNCHANGED <<books, sub, stripeRefundVars, delivered, refundRows,
                       refundHook, refundAudited, refundsEnabled, refundCrashes>>
    BY <1>1 DEF ClaimForRefund
  <2> HIDE DEF s, x, y
  <2>5. TablesTypeOK'
    BY <2>2, <2>3, <2>4, TablesUpdate DEF RefundTypeInv, RefundTypeOK
  <2>6. QED
    BY <2>2, <2>4, <2>5
    DEF RefundTypeInv, RefundTypeOK, RefundHooksCarryEvents, stripeRefundVars
<1>2. CASE InsertRefundRow(c)
  <2>1. call[c] \in Calling
    BY <1>2, BusyCall DEF RefundTypeInv, InsertRefundRow
  <2>2. PICK j \in RefundRowSlot :
          /\ refundRows' = [refundRows EXCEPT ![call[c].s][j].status = "pending"]
          /\ call' = [call EXCEPT ![c].pc = "stripe", ![c].j = j]
    BY <1>2 DEF InsertRefundRow
  <2> DEFINE s == call[c].s
             x == [call[c] EXCEPT !.pc = "stripe", !.j = j]
             y == [refundRows[s][j] EXCEPT !.status = "pending"]
             z == [refundRows[s] EXCEPT ![j] = y]
  <2>3. s \in Settlement /\ x \in Calling
    BY <2>1 DEF Calling
  <2>4. refundRows[s] \in [RefundRowSlot -> RefundRow]
    BY <2>3 DEF RefundTypeInv, RefundTypeOK
  <2>8. y \in RefundRow
    BY <2>4 DEF RefundRow, RefundStatus
  <2>5. z \in [RefundRowSlot -> RefundRow]
    BY <2>4, <2>8, Replaced
  <2>6. call' = [call EXCEPT ![c] = x] /\ refundRows' = [refundRows EXCEPT ![s] = z]
    BY <2>2
  <2> HIDE DEF s, x, z
  <2>7. QED
    BY <1>2, <2>3, <2>5, <2>6
    DEF InsertRefundRow, RefundTypeInv, RefundTypeOK, TablesTypeOK,
        RefundHooksCarryEvents, stripeRefundVars
<1>3. CASE AskStripe(c) \/ StripeThrows(c)
  <2>1. call[c] \in Calling
    BY <1>3, BusyCall DEF RefundTypeInv, AskStripe, StripeThrows
  <2>2. call[c].s \in Settlement
    BY <2>1 DEF Calling
  <2>3. /\ refunds' \in [Settlement -> [RefundSlot -> RefundStatus \cup {"none"}]]
        /\ refundKey' \in [Settlement -> Answer \cup {NoAnswer}]
        /\ refundEvents' \subseteq RefundEvent
        /\ refundEvents \subseteq refundEvents'
    BY <1>3, <2>2, TypeCreateRefund
    DEF AskStripe, StripeThrows, RefundTypeInv, RefundTypeOK, stripeRefundVars
  <2>4. call' \in [Caller -> Calling \cup {IdleCall}]
    <3>1. CASE AskStripe(c)
      <4>1. PICK a \in Answer :
              call' = [call EXCEPT ![c].pc = "row", ![c].result = a.status,
                                   ![c].refund = a.refund]
        BY <3>1 DEF AskStripe
      <4> DEFINE x == [call[c] EXCEPT !.pc = "row", !.result = a.status,
                                      !.refund = a.refund]
      <4>2. x \in Calling
        BY <2>1 DEF Calling, Answer
      <4>3. call' = [call EXCEPT ![c] = x]
        BY <4>1
      <4> HIDE DEF x
      <4>4. QED
        BY <4>2, <4>3 DEF RefundTypeInv, RefundTypeOK
    <3>2. CASE StripeThrows(c)
      <4> DEFINE x == [call[c] EXCEPT !.pc = "row", !.result = "failed"]
      <4>1. x \in Calling
        BY <2>1 DEF Calling, RefundStatus
      <4>2. call' = [call EXCEPT ![c] = x]
        BY <3>2 DEF StripeThrows
      <4> HIDE DEF x
      <4>3. QED
        BY <4>1, <4>2 DEF RefundTypeInv, RefundTypeOK
    <3>3. QED
      BY <1>3, <3>1, <3>2
  <2>5. UNCHANGED <<row, books, sub, delivered, refundRows, refundHook,
                    refundAudited, refundsEnabled, refundCrashes>>
    BY <1>3 DEF AskStripe, StripeThrows
  <2>6. QED
    BY <2>3, <2>4, <2>5
    DEF RefundTypeInv, RefundTypeOK, TablesTypeOK, RefundHooksCarryEvents
<1>4. CASE WriteRefundRow(c)
  <2>1. call[c] \in Calling
    BY <1>4, BusyCall DEF RefundTypeInv, WriteRefundRow
  <2> DEFINE s == call[c].s
             j == call[c].j
             y == [status |-> call[c].result,
                   refund |-> IF call[c].refund = NoRefund
                              THEN refundRows[s][j].refund ELSE call[c].refund]
             x == IF InProgress(call[c].result) THEN IdleCall
                  ELSE [call[c] EXCEPT !.pc = "settle"]
  <2>2. x \in Calling \cup {IdleCall} /\ s \in Settlement
    BY <2>1 DEF Calling
  <2>3. call' = [call EXCEPT ![c] = x]
    BY <1>4 DEF WriteRefundRow
  <2>4. call' \in [Caller -> Calling \cup {IdleCall}]
    BY <2>2, <2>3 DEF RefundTypeInv, RefundTypeOK
  <2>5. /\ refundRows' \in [Settlement -> [RefundRowSlot -> RefundRow]]
        /\ refundCrashes' \in 0..MaxRefundCrashes
    <3>1. CASE /\ refundRows' = [refundRows EXCEPT ![s][j] = y]
               /\ UNCHANGED refundCrashes
      <4>1. [refundRows[s] EXCEPT ![j] = y] \in [RefundRowSlot -> RefundRow]
        <5>1. refundRows[s] \in [RefundRowSlot -> RefundRow]
          BY <2>2 DEF RefundTypeInv, RefundTypeOK
        <5>2. ASSUME j \in RefundRowSlot PROVE y \in RefundRow
          <6>1. refundRows[s][j] \in RefundRow
            BY <5>1, <5>2
          <6>2. QED
            BY <2>1, <6>1 DEF Calling, RefundRow
        <5>3. QED
          BY <5>1, <5>2, Replaced
      <4>2. QED
        BY <2>2, <3>1, <4>1 DEF RefundTypeInv, RefundTypeOK
    <3>2. CASE /\ refundCrashes < MaxRefundCrashes
               /\ refundCrashes' = refundCrashes + 1
               /\ UNCHANGED refundRows
      BY <3>2, RefundAssumption DEF RefundTypeInv, RefundTypeOK
    <3>3. QED
      BY <1>4, <3>1, <3>2 DEF WriteRefundRow
  <2>6. UNCHANGED <<row, books, sub, stripeRefundVars, delivered, refundHook,
                    refundAudited, refundsEnabled>>
    BY <1>4 DEF WriteRefundRow
  <2>7. QED
    BY <2>4, <2>5, <2>6
    DEF RefundTypeInv, RefundTypeOK, TablesTypeOK, RefundHooksCarryEvents,
        stripeRefundVars
<1>5. CASE SettleSettlement(c)
  <2>1. call[c] \in Calling
    BY <1>5, BusyCall DEF RefundTypeInv, SettleSettlement
  <2> DEFINE s == call[c].s
             y == [row[s] EXCEPT !.status = SettledStatus(call[c].result)]
  <2>2. s \in Settlement
    BY <2>1 DEF Calling
  <2>3. y \in Row
    <3>1. row[s] \in Row
      BY <2>2 DEF RefundTypeInv, RefundTypeOK, TablesTypeOK
    <3>2. SettledStatus(call[c].result) \in Status
      BY DEF SettledStatus, Status
    <3>3. QED
      BY <3>1, <3>2, RowWithStatus DEF Row
  <2>4. /\ row' = [row EXCEPT ![s] = y]
        /\ call' = [call EXCEPT ![c] = IdleCall]
        /\ UNCHANGED <<books, sub, stripeRefundVars, delivered, refundRows,
                       refundHook, refundAudited, refundsEnabled, refundCrashes>>
    BY <1>5 DEF SettleSettlement
  <2> HIDE DEF s, y
  <2>5. TablesTypeOK'
    BY <2>2, <2>3, <2>4, TablesUpdate DEF RefundTypeInv, RefundTypeOK
  <2>6. QED
    BY <2>4, <2>5
    DEF RefundTypeInv, RefundTypeOK, RefundHooksCarryEvents, stripeRefundVars
<1>6. CASE CallerStops(c)
  <2>1. refundCrashes' \in 0..MaxRefundCrashes
    BY <1>6, RefundAssumption DEF CallerStops, RefundTypeInv, RefundTypeOK
  <2>2. QED
    BY <1>6, <2>1
    DEF CallerStops, RefundTypeInv, RefundTypeOK, TablesTypeOK,
        RefundHooksCarryEvents, stripeRefundVars
<1>7. QED
  BY <1>1, <1>2, <1>3, <1>4, <1>5, <1>6

(* The webhook keeps the types.                                            *)
LEMMA TypeRefundHook ==
  ASSUME RefundTypeInv, NEW h \in RefundHook,
         \/ \E e \in refundEvents : DeliverRefundEvent(h, e)
         \/ RefundHookStep(h) \/ RefundHookStops(h)
  PROVE  RefundTypeInv'
<1>1. CASE \E e \in refundEvents : DeliverRefundEvent(h, e)
  <2>1. PICK e \in refundEvents : DeliverRefundEvent(h, e)
    BY <1>1
  <2>2. /\ delivered' \subseteq refundEvents
        /\ UNCHANGED <<row, books, sub, stripeRefundVars, refundRows, call,
                       refundAudited, refundsEnabled, refundCrashes>>
    BY <2>1 DEF DeliverRefundEvent, RefundTypeInv, RefundTypeOK
  <2>3. e \in RefundEvent
    BY DEF RefundTypeInv, RefundTypeOK
  <2>4. CASE UNCHANGED refundHook
    BY <2>2, <2>4
    DEF RefundTypeInv, RefundTypeOK, TablesTypeOK, RefundHooksCarryEvents,
        stripeRefundVars
  <2>5. ASSUME NEW j \in RowsOf(e),
               refundHook' = [refundHook EXCEPT ![h] =
                               [step |-> "update", event |-> e, j |-> j]]
        PROVE  RefundTypeInv'
    <3> DEFINE x == [step |-> "update", event |-> e, j |-> j]
    <3>1. x \in RefundHandling /\ x.event \in refundEvents
      BY <2>3 DEF RefundHandling, RowsOf
    <3> HIDE DEF x
    <3>2. QED
      BY <2>2, <2>5, <3>1
      DEF x, RefundTypeInv, RefundTypeOK, TablesTypeOK, RefundHooksCarryEvents,
          stripeRefundVars
  <2>6. QED
    BY <2>1, <2>4, <2>5 DEF DeliverRefundEvent
<1>2. CASE SettleFromWebhook(h)
  <2>1. refundHook[h] \in RefundHandling /\ refundHook[h].event \in refundEvents
    BY <1>2, BusyRefundHook DEF SettleFromWebhook
  <2> DEFINE e == refundHook[h].event
             x == [refundHook[h] EXCEPT !.step =
                     IF AwaitsRefund(row[e.s]) THEN "row" ELSE "audit"]
             y == [row[e.s] EXCEPT !.status = SettledStatus(e.status)]
  <2>2. /\ x \in RefundHandling
        /\ x.event \in refundEvents
    BY <2>1 DEF RefundHandling
  <2>3. e.s \in Settlement
    BY <2>1 DEF RefundHandling, RefundEvent
  <2>4. TablesTypeOK'
    <3>1. CASE AwaitsRefund(row[e.s])
      <4>1. row' = [row EXCEPT ![e.s] = y]
        BY <1>2, <3>1 DEF SettleFromWebhook
      <4>2. y \in Row
        <5>1. row[e.s] \in Row
          BY <2>3 DEF RefundTypeInv, RefundTypeOK, TablesTypeOK
        <5>2. SettledStatus(e.status) \in Status
          BY DEF SettledStatus, Status
        <5>3. QED
          BY <5>1, <5>2, RowWithStatus DEF Row
      <4>3. QED
        BY <1>2, <2>3, <4>1, <4>2, TablesUpdate
        DEF SettleFromWebhook, RefundTypeInv, RefundTypeOK
    <3>2. CASE ~AwaitsRefund(row[e.s])
      BY <1>2, <3>2
      DEF SettleFromWebhook, RefundTypeInv, RefundTypeOK, TablesTypeOK
    <3>3. QED
      BY <3>1, <3>2
  <2>5. /\ refundHook' = [refundHook EXCEPT ![h] = x]
        /\ UNCHANGED <<stripeRefundVars, delivered, refundRows, call,
                       refundAudited, refundsEnabled, refundCrashes>>
    BY <1>2 DEF SettleFromWebhook
  <2> HIDE DEF e, x, y
  <2>6. QED
    BY <2>2, <2>4, <2>5
    DEF RefundTypeInv, RefundTypeOK, RefundHooksCarryEvents, stripeRefundVars
<1>3. CASE MoveRefundRow(h)
  <2>1. refundHook[h] \in RefundHandling /\ refundHook[h].event \in refundEvents
    BY <1>3, BusyRefundHook DEF MoveRefundRow
  <2> DEFINE s == refundHook[h].event.s
             j == refundHook[h].j
             x == [refundHook[h] EXCEPT !.step = "audit"]
             y == [refundRows[s][j] EXCEPT !.status = refundHook[h].event.status]
             z == [refundRows[s] EXCEPT ![j] = y]
  <2>2. /\ x \in RefundHandling
        /\ x.event \in refundEvents
        /\ s \in Settlement /\ j \in RefundRowSlot
        /\ refundHook[h].event.status \in RefundStatus
    BY <2>1 DEF RefundHandling, RefundEvent, RefundStatus
  <2>3. refundRows[s] \in [RefundRowSlot -> RefundRow]
    BY <2>2 DEF RefundTypeInv, RefundTypeOK
  <2>4. y \in RefundRow
    BY <2>2, <2>3 DEF RefundRow
  <2>5. z \in [RefundRowSlot -> RefundRow]
    BY <2>3, <2>4, Replaced
  <2>6. /\ refundRows' = [refundRows EXCEPT ![s] = z]
        /\ refundHook' = [refundHook EXCEPT ![h] = x]
        /\ UNCHANGED <<row, books, sub, stripeRefundVars, delivered, call,
                       refundAudited, refundsEnabled, refundCrashes>>
    BY <1>3 DEF MoveRefundRow
  <2> HIDE DEF s, j, x, z
  <2>7. QED
    BY <2>2, <2>5, <2>6
    DEF RefundTypeInv, RefundTypeOK, TablesTypeOK, RefundHooksCarryEvents,
        stripeRefundVars
<1>4. CASE AuditRefund(h)
  <2>1. refundHook[h].event \in refundEvents
    BY <1>4, BusyRefundHook DEF AuditRefund
  <2>2. QED
    BY <1>4, <2>1
    DEF AuditRefund, RefundTypeInv, RefundTypeOK, TablesTypeOK,
        RefundHooksCarryEvents, stripeRefundVars
<1>5. CASE RefundHookStops(h)
  <2>1. refundCrashes' \in 0..MaxRefundCrashes
    BY <1>5, RefundAssumption DEF RefundHookStops, RefundTypeInv, RefundTypeOK
  <2>2. QED
    BY <1>5, <2>1
    DEF RefundHookStops, RefundTypeInv, RefundTypeOK, TablesTypeOK,
        RefundHooksCarryEvents, stripeRefundVars
<1>6. QED
  BY <1>1, <1>2, <1>3, <1>4, <1>5 DEF RefundHookStep

(* Stripe and the environment keep the types.                              *)
LEMMA TypeRefundWorld ==
  ASSUME RefundTypeInv,
         \/ \E s \in Settlement :
              \/ StripeSettlesRefund(s) \/ RefundKeyForgotten(s)
              \/ RefundClaimGoesStale(s)
         \/ ToggleRefunds
         \/ \E u \in Subscriber : RefundSubscriberMoves(u)
         \/ UNCHANGED refundVars
  PROVE  RefundTypeInv'
<1>1. ASSUME NEW s \in Settlement, StripeSettlesRefund(s)
      PROVE  RefundTypeInv'
  <2>1. PICK k \in RefundSlot, status \in {"succeeded", "failed"} :
          /\ refunds' = [refunds EXCEPT ![s][k] = status]
          /\ refundEvents' = Announce(s, [refund |-> k, status |-> status])
    BY <1>1 DEF StripeSettlesRefund
  <2>2. [s |-> s, refund |-> k, status |-> status] \in RefundEvent
    BY DEF RefundEvent
  <2>3. /\ refundEvents' \subseteq RefundEvent
        /\ refundEvents \subseteq refundEvents'
    BY <2>1, <2>2 DEF Announce, RefundTypeInv, RefundTypeOK
  <2>4. refunds' \in [Settlement -> [RefundSlot -> RefundStatus \cup {"none"}]]
    BY <2>1 DEF RefundTypeInv, RefundTypeOK, RefundStatus
  <2>5. QED
    BY <1>1, <2>3, <2>4
    DEF StripeSettlesRefund, RefundTypeInv, RefundTypeOK, TablesTypeOK,
        RefundHooksCarryEvents
<1>2. ASSUME NEW s \in Settlement, RefundKeyForgotten(s)
      PROVE  RefundTypeInv'
  BY <1>2
  DEF RefundKeyForgotten, RefundTypeInv, RefundTypeOK, TablesTypeOK,
      RefundHooksCarryEvents
<1>3. ASSUME NEW s \in Settlement, RefundClaimGoesStale(s)
      PROVE  RefundTypeInv'
  <2> DEFINE y == [row[s] EXCEPT !.claim = "stale"]
  <2>1. y \in Row
    <3>1. row[s] \in Row
      BY DEF RefundTypeInv, RefundTypeOK, TablesTypeOK
    <3>2. row[s].status \in Status /\ "stale" \in Claim
      BY <3>1 DEF Row, Claim
    <3>3. QED
      BY <3>1, <3>2, RowWithStatus
  <2>2. row' = [row EXCEPT ![s] = y] /\ UNCHANGED <<books, sub, refundLocals>>
    BY <1>3 DEF RefundClaimGoesStale
  <2> HIDE DEF y
  <2>3. TablesTypeOK'
    BY <2>1, <2>2, TablesUpdate DEF RefundTypeInv, RefundTypeOK
  <2>4. QED
    BY <2>2, <2>3
    DEF RefundTypeInv, RefundTypeOK, RefundHooksCarryEvents, refundLocals,
        stripeRefundVars
<1>4. CASE ToggleRefunds
  BY <1>4, RefundAssumption
  DEF ToggleRefunds, RefundTypeInv, RefundTypeOK, TablesTypeOK,
      RefundHooksCarryEvents, stripeRefundVars
<1>5. ASSUME NEW u \in Subscriber, RefundSubscriberMoves(u)
      PROVE  RefundTypeInv'
  BY <1>5, SettlementAssumption
  DEF RefundSubscriberMoves, SubscriberMoves, RefundTypeInv, RefundTypeOK,
      TablesTypeOK, RefundHooksCarryEvents, refundLocals, stripeRefundVars
<1>6. CASE UNCHANGED refundVars
  BY <1>6
  DEF refundVars, RefundTypeInv, RefundTypeOK, TablesTypeOK,
      RefundHooksCarryEvents, refundLocals, stripeRefundVars
<1>7. QED
  BY <1>1, <1>2, <1>3, <1>4, <1>5, <1>6

(* Every step keeps the types.                                             *)
LEMMA RefundTypeStep ==
  ASSUME RefundTypeInv, [RefundNext]_refundVars
  PROVE  RefundTypeInv'
<1>1. CASE \E c \in Caller : \/ \E s \in Settlement : LoadSettlement(c, s)
                             \/ CallStep(c)
                             \/ CallerStops(c)
  BY <1>1, TypeCallReads, TypeCallWrites DEF CallStep
<1>2. CASE \E h \in RefundHook :
             \/ \E e \in refundEvents : DeliverRefundEvent(h, e)
             \/ RefundHookStep(h) \/ RefundHookStops(h)
  BY <1>2, TypeRefundHook
<1>3. CASE \/ \E s \in Settlement :
                \/ StripeSettlesRefund(s) \/ RefundKeyForgotten(s)
                \/ RefundClaimGoesStale(s)
           \/ ToggleRefunds
           \/ \E u \in Subscriber : RefundSubscriberMoves(u)
           \/ UNCHANGED refundVars
  BY <1>3, TypeRefundWorld
<1>4. QED
  BY <1>1, <1>2, <1>3 DEF RefundNext, RefundStep

(* Every value that a refund call, a webhook or Stripe writes has the type *)
(* its column or field promises, in every reachable state.                 *)
THEOREM RefundTypeCorrect == RefundSpec => [](RefundTypeOK /\ RefundHooksCarryEvents)
<1>1. RefundTypeInv => RefundTypeOK /\ RefundHooksCarryEvents
  BY DEF RefundTypeInv
<1>2. QED
  BY RefundTypeInit, RefundTypeStep, <1>1, PTL DEF RefundSpec

-----------------------------------------------------------------------------
(* Where a 'refunded' comes from: an answer, a replayed answer or an event *)
(* that says "succeeded", none of which Stripe gives before it is so.      *)

Returned(s) == \E k \in RefundSlot : refunds[s][k] = "succeeded"

AnswersAreTrue ==
  /\ \A s \in Settlement : refundKey[s].status = "succeeded" => Returned(s)
  /\ \A e \in refundEvents : e.status = "succeeded" => Returned(e.s)

CallsKnowTheTruth ==
  \A c \in Caller :
    call[c] # IdleCall /\ call[c].result = "succeeded" => Returned(call[c].s)

TruthInv == AnswersAreTrue /\ CallsKnowTheTruth /\ RefundedIsReturned

(* What was never asked of Stripe has not been answered.                   *)
LEMMA TruthInit == RefundInit => TruthInv
<1> SUFFICES ASSUME RefundInit PROVE TruthInv
  OBVIOUS
<1>1. ASSUME NEW s \in Settlement PROVE row[s].status = "paid"
  BY <1>1 DEF RefundInit, NewRow
<1>2. QED
  BY <1>1
  DEF RefundInit, RefundLocalsInit, NoAnswer, TruthInv, AnswersAreTrue,
      CallsKnowTheTruth, RefundedIsReturned

(* A succeeded refund stays one, and all that Stripe says stays true.      *)
LEMMA StripeTellsTheTruth ==
  ASSUME RefundTypeOK, AnswersAreTrue,
         \/ \E s \in Settlement : \/ \E a \in Answer : CreateRefund(s, a)
                                  \/ StripeSettlesRefund(s) \/ RefundKeyForgotten(s)
         \/ UNCHANGED stripeRefundVars
  PROVE  /\ AnswersAreTrue'
         /\ \A s \in Settlement : Returned(s) => Returned(s)'
<1>1. ASSUME NEW s \in Settlement, NEW k \in RefundSlot, NEW status \in RefundStatus,
             refunds[s][k] # "succeeded",
             refunds' = [refunds EXCEPT ![s][k] = status],
             refundEvents' = Announce(s, [refund |-> k, status |-> status]),
             \/ refundKey' = refundKey
             \/ refundKey' = [refundKey EXCEPT ![s] = [refund |-> k, status |-> status]]
      PROVE  /\ AnswersAreTrue'
             /\ \A r \in Settlement : Returned(r) => Returned(r)'
  <2>1. \A r \in Settlement : Returned(r) => Returned(r)'
    BY <1>1 DEF Returned, RefundTypeOK
  <2>2. status = "succeeded" => Returned(s)'
    BY <1>1 DEF Returned, RefundTypeOK
  <2>3. \A r \in Settlement : refundKey'[r].status = "succeeded" => Returned(r)'
    BY <1>1, <2>1, <2>2 DEF AnswersAreTrue, RefundTypeOK
  <2>4. \A e \in refundEvents' : e.status = "succeeded" => Returned(e.s)'
    <3>1. TAKE e \in refundEvents'
    <3>2. CASE e \in refundEvents
      BY <3>2, <2>1 DEF AnswersAreTrue, RefundTypeOK, RefundEvent
    <3>3. CASE e \notin refundEvents
      BY <3>3, <1>1, <2>2 DEF Announce
    <3>4. QED
      BY <3>2, <3>3
  <2>5. QED
    BY <2>1, <2>3, <2>4 DEF AnswersAreTrue
<1>2. ASSUME NEW s \in Settlement, NEW a \in Answer, NewRefund(s, a)
      PROVE  /\ AnswersAreTrue'
             /\ \A r \in Settlement : Returned(r) => Returned(r)'
  <2>1. /\ a.refund \in RefundSlot /\ a.status \in RefundStatus
        /\ a = [refund |-> a.refund, status |-> a.status]
    BY DEF Answer
  <2>2. /\ refunds[s][a.refund] # "succeeded"
        /\ refunds' = [refunds EXCEPT ![s][a.refund] = a.status]
        /\ refundKey' = [refundKey EXCEPT ![s] = a]
        /\ refundEvents' = Announce(s, a)
    BY <1>2 DEF NewRefund
  <2>3. QED
    BY <1>1, <2>1, <2>2
<1>3. ASSUME NEW s \in Settlement, StripeSettlesRefund(s)
      PROVE  /\ AnswersAreTrue'
             /\ \A r \in Settlement : Returned(r) => Returned(r)'
  <2>1. PICK k \in RefundSlot, status \in {"succeeded", "failed"} :
          /\ refunds[s][k] = "pending"
          /\ refunds' = [refunds EXCEPT ![s][k] = status]
          /\ refundEvents' = Announce(s, [refund |-> k, status |-> status])
    BY <1>3 DEF StripeSettlesRefund
  <2>2. status \in RefundStatus /\ refundKey' = refundKey
    BY <1>3 DEF StripeSettlesRefund, RefundStatus
  <2>3. QED
    BY <1>1, <2>1, <2>2
<1>4. ASSUME NEW s \in Settlement, RefundKeyForgotten(s)
      PROVE  /\ AnswersAreTrue'
             /\ \A r \in Settlement : Returned(r) => Returned(r)'
  <2>1. /\ refundKey' = [refundKey EXCEPT ![s] = NoAnswer]
        /\ refunds' = refunds /\ refundEvents' = refundEvents
    BY <1>4 DEF RefundKeyForgotten
  <2>2. \A r \in Settlement : Returned(r)' <=> Returned(r)
    BY <2>1 DEF Returned
  <2>3. \A r \in Settlement : refundKey'[r].status = "succeeded" =>
                              refundKey[r].status = "succeeded"
    BY <2>1 DEF RefundTypeOK, NoAnswer
  <2>4. \A e \in refundEvents : e.s \in Settlement
    BY DEF RefundTypeOK, RefundEvent
  <2>5. QED
    BY <2>1, <2>2, <2>3, <2>4 DEF AnswersAreTrue
<1>5. ASSUME UNCHANGED stripeRefundVars
      PROVE  /\ AnswersAreTrue'
             /\ \A r \in Settlement : Returned(r) => Returned(r)'
  <2>1. refunds' = refunds /\ refundKey' = refundKey /\ refundEvents' = refundEvents
    BY <1>5 DEF stripeRefundVars
  <2>2. QED
    BY <2>1 DEF AnswersAreTrue, Returned
<1>6. QED
  BY <1>2, <1>3, <1>4, <1>5 DEF CreateRefund

(* What is true of every call stays so when Stripe moves and calls that    *)
(* change their state take over a true result or none.                     *)
LEMMA CallsStayTrue ==
  ASSUME RefundTypeOK, CallsKnowTheTruth,
         \A s \in Settlement : Returned(s) => Returned(s)',
         NEW c \in Caller, NEW x, call' = [call EXCEPT ![c] = x],
         x = IdleCall \/ (x.result = "succeeded" => Returned(x.s)')
  PROVE  CallsKnowTheTruth'
<1> SUFFICES ASSUME NEW d \in Caller,
                    (call[d] # IdleCall /\ call[d].result = "succeeded")'
             PROVE  Returned(call[d].s)'
  BY DEF CallsKnowTheTruth
<1>1. CASE d = c
  <2>1. call'[d] = x
    BY <1>1 DEF RefundTypeOK
  <2>2. Returned(x.s)'
    BY <2>1
  <2>3. QED
    BY <2>1, <2>2 DEF Returned
<1>2. CASE d # c
  <2>1. call'[d] = call[d]
    BY <1>2 DEF RefundTypeOK
  <2>2. call[d].s \in Settlement /\ Returned(call[d].s)
    BY <2>1 DEF CallsKnowTheTruth, RefundTypeOK, Calling, IdleCall
  <2>3. refunds'[call[d].s] = refunds'[call'[d].s]
    BY <2>1
  <2>4. QED
    BY <2>1, <2>2, <2>3 DEF Returned
<1>3. QED
  BY <1>1, <1>2

(* A call learns a result only from an answer of Stripe.                   *)
LEMMA TruthCall ==
  ASSUME RefundTypeInv, TruthInv, NEW c \in Caller,
         \/ \E s \in Settlement : LoadSettlement(c, s)
         \/ CallStep(c) \/ CallerStops(c)
  PROVE  TruthInv'
<1> USE DEF RefundTypeInv
<1>1. ASSUME NEW s \in Settlement, LoadSettlement(c, s)
      PROVE  TruthInv'
  <2>1. AnswersAreTrue' /\ \A r \in Settlement : Returned(r) => Returned(r)'
    BY <1>1, StripeTellsTheTruth DEF TruthInv, LoadSettlement
  <2>2. CallsKnowTheTruth'
    BY <1>1, <2>1, CallsStayTrue DEF TruthInv, LoadSettlement
  <2>3. QED
    BY <1>1, <2>1, <2>2 DEF TruthInv, RefundedIsReturned, Returned, LoadSettlement
<1>2. ASSUME NEW x, call' = [call EXCEPT ![c] = x],
             x = IdleCall \/ (/\ call[c] # IdleCall
                              /\ x.result = call[c].result /\ x.s = call[c].s),
             UNCHANGED <<row, stripeRefundVars>>
      PROVE  TruthInv'
  <2>1. AnswersAreTrue' /\ \A r \in Settlement : Returned(r) => Returned(r)'
    BY <1>2, StripeTellsTheTruth DEF TruthInv
  <2>2. x = IdleCall \/ (x.result = "succeeded" => Returned(x.s)')
    BY <1>2, <2>1 DEF TruthInv, CallsKnowTheTruth, RefundTypeOK, Calling, IdleCall
  <2>3. CallsKnowTheTruth'
    BY <1>2, <2>1, <2>2, CallsStayTrue DEF TruthInv
  <2>4. row' = row /\ refunds' = refunds
    BY <1>2 DEF stripeRefundVars
  <2>5. QED
    BY <2>1, <2>3, <2>4 DEF TruthInv, RefundedIsReturned
<1>3. ASSUME NEW pc, Proceed(c, pc), call[c] # IdleCall PROVE TruthInv'
  <2> DEFINE x == [call[c] EXCEPT !.pc = pc]
  <2>1. call[c] \in Calling
    BY <1>3 DEF RefundTypeOK
  <2>2. call' = [call EXCEPT ![c] = x] /\ x.result = call[c].result /\ x.s = call[c].s
    BY <1>3, <2>1 DEF Proceed, Calling
  <2> HIDE DEF x
  <2>3. QED
    BY <1>2, <1>3, <2>2 DEF Proceed
<1>4. ASSUME Return(c) PROVE TruthInv'
  BY <1>2, <1>4 DEF Return
<1>5. CASE CheckGates(c) \/ NothingInflight(c) \/ SumReserved(c) \/ LoseRefundClaim(c)
  BY <1>3, <1>4, <1>5
  DEF CheckGates, NothingInflight, SumReserved, LoseRefundClaim, IdleCall
<1>6. CASE ResumeInflight(c) \/ InsertRefundRow(c)
  <2>1. call[c] \in Calling
    BY <1>6, BusyCall DEF ResumeInflight, InsertRefundRow
  <2>2. PICK j \in RefundRowSlot :
          call' = [call EXCEPT ![c].pc = "stripe", ![c].j = j]
    BY <1>6 DEF ResumeInflight, InsertRefundRow, InflightRows
  <2> DEFINE x == [call[c] EXCEPT !.pc = "stripe", !.j = j]
  <2>3. /\ call' = [call EXCEPT ![c] = x]
        /\ x.result = call[c].result /\ x.s = call[c].s
    BY <2>1, <2>2 DEF Calling
  <2>4. call[c] # IdleCall /\ UNCHANGED <<row, stripeRefundVars>>
    BY <1>6 DEF ResumeInflight, InsertRefundRow, IdleCall
  <2> HIDE DEF x
  <2>5. QED
    BY <1>2, <2>3, <2>4
<1>7. CASE ClaimForRefund(c)
  <2>1. call[c] \in Calling /\ call[c] # IdleCall
    BY <1>7, BusyCall DEF ClaimForRefund, IdleCall
  <2>2. PICK s \in Settlement : s = call[c].s
    BY <2>1 DEF Calling
  <2>3. PICK x : x = [call[c] EXCEPT !.pc = "insert"]
    OBVIOUS
  <2>4. x.result = call[c].result /\ x.s = s
    BY <2>1, <2>2, <2>3 DEF Calling
  <2>5. call' = [call EXCEPT ![c] = x] /\ UNCHANGED stripeRefundVars
    BY <1>7, <2>3 DEF ClaimForRefund
  <2>6. AnswersAreTrue' /\ \A r \in Settlement : Returned(r) => Returned(r)'
    BY <2>5, StripeTellsTheTruth DEF TruthInv
  <2>7. x.result = "succeeded" => Returned(x.s)'
    <3>1. x.result = "succeeded" => Returned(s)
      BY <2>1, <2>2, <2>4 DEF TruthInv, CallsKnowTheTruth
    <3>2. x.result = "succeeded" => Returned(s)'
      BY <3>1, <2>6
    <3>3. QED
      BY <3>2, <2>4
  <2>8. CallsKnowTheTruth'
    BY <2>5, <2>6, <2>7, CallsStayTrue DEF TruthInv
  <2>9. \A r \in Settlement : row'[r].status = "refunded" => row[r].status = "refunded"
    <3>1. TAKE r \in Settlement
    <3>2. CASE r = s
      BY <1>7, <2>2, <3>2 DEF ClaimForRefund, RefundTypeOK, TablesTypeOK, Row
    <3>3. CASE r # s
      BY <1>7, <2>2, <3>3 DEF ClaimForRefund, RefundTypeOK, TablesTypeOK
    <3>4. QED
      BY <3>2, <3>3
  <2>10. QED
    BY <2>6, <2>8, <2>9 DEF TruthInv, RefundedIsReturned, Returned
<1>8. CASE AskStripe(c)
  <2>1. call[c] \in Calling
    BY <1>8, BusyCall DEF AskStripe
  <2>2. PICK s \in Settlement : s = call[c].s
    BY <2>1 DEF Calling
  <2>3. PICK a \in Answer :
          /\ CreateRefund(s, a)
          /\ call' = [call EXCEPT ![c].pc = "row", ![c].result = a.status,
                                  ![c].refund = a.refund]
    BY <1>8, <2>2 DEF AskStripe
  <2>4. PICK x : x = [call[c] EXCEPT !.pc = "row", !.result = a.status,
                                     !.refund = a.refund]
    OBVIOUS
  <2>5. /\ x.result = a.status /\ x.s = s
        /\ call' = [call EXCEPT ![c] = x] /\ row' = row
    BY <1>8, <2>1, <2>2, <2>3, <2>4 DEF AskStripe, Calling
  <2>6. AnswersAreTrue' /\ \A r \in Settlement : Returned(r) => Returned(r)'
    BY <2>3, StripeTellsTheTruth DEF TruthInv
  <2>7. refundKey'[s] = a
    BY <2>3 DEF CreateRefund, NewRefund, stripeRefundVars, RefundTypeOK
  <2>8. x.result = "succeeded" => Returned(x.s)'
    <3>1. a.status = "succeeded" => Returned(s)'
      BY <2>6, <2>7 DEF AnswersAreTrue
    <3>2. QED
      BY <2>5, <3>1
  <2>9. CallsKnowTheTruth'
    BY <2>5, <2>6, <2>8, CallsStayTrue DEF TruthInv
  <2>10. QED
    BY <2>5, <2>6, <2>9 DEF TruthInv, RefundedIsReturned, Returned
<1>9. CASE StripeThrows(c)
  <2>1. call[c] \in Calling
    BY <1>9, BusyCall DEF StripeThrows
  <2> DEFINE x == [call[c] EXCEPT !.pc = "row", !.result = "failed"]
  <2>2. call[c].s \in Settlement /\ x.result = "failed"
    BY <2>1 DEF Calling
  <2>3. AnswersAreTrue' /\ \A r \in Settlement : Returned(r) => Returned(r)'
    BY <1>9, <2>2, StripeTellsTheTruth DEF TruthInv, StripeThrows
  <2>4. call' = [call EXCEPT ![c] = x] /\ row' = row
    BY <1>9 DEF StripeThrows
  <2>5. CallsKnowTheTruth'
    BY <2>2, <2>3, <2>4, CallsStayTrue DEF TruthInv
  <2>6. QED
    BY <2>3, <2>4, <2>5 DEF TruthInv, RefundedIsReturned, Returned
<1>10. CASE WriteRefundRow(c)
  <2>1. call[c] \in Calling /\ call[c] # IdleCall
    BY <1>10, BusyCall DEF WriteRefundRow, IdleCall
  <2> DEFINE x == IF InProgress(call[c].result) THEN IdleCall
                  ELSE [call[c] EXCEPT !.pc = "settle"]
  <2>2. x = IdleCall \/ (x.result = call[c].result /\ x.s = call[c].s)
    BY <2>1 DEF Calling
  <2>3. call' = [call EXCEPT ![c] = x] /\ UNCHANGED <<row, stripeRefundVars>>
    BY <1>10 DEF WriteRefundRow
  <2> HIDE DEF x
  <2>4. QED
    BY <1>2, <2>1, <2>2, <2>3
<1>11. CASE SettleSettlement(c)
  <2>1. call[c] \in Calling /\ call[c] # IdleCall
    BY <1>11, BusyCall DEF SettleSettlement, IdleCall
  <2> DEFINE s == call[c].s
             result == call[c].result
  <2>2. s \in Settlement /\ (result = "succeeded" => Returned(s))
    BY <2>1 DEF Calling, TruthInv, CallsKnowTheTruth
  <2>3. UNCHANGED stripeRefundVars /\ call' = [call EXCEPT ![c] = IdleCall]
    BY <1>11 DEF SettleSettlement
  <2>4. AnswersAreTrue' /\ \A r \in Settlement : Returned(r) => Returned(r)'
    BY <2>3, StripeTellsTheTruth DEF TruthInv
  <2>5. CallsKnowTheTruth'
    BY <2>3, <2>4, CallsStayTrue DEF TruthInv
  <2>6. \A r \in Settlement : row'[r].status = "refunded" => Returned(r)
    <3>1. TAKE r \in Settlement
    <3>2. CASE r = s
      <4>1. row'[r].status = SettledStatus(result)
        BY <1>11, <2>2, <3>2 DEF SettleSettlement, RefundTypeOK, TablesTypeOK, Row
      <4>2. QED
        BY <2>2, <3>2, <4>1 DEF SettledStatus
    <3>3. CASE r # s
      BY <1>11, <3>3
      DEF SettleSettlement, RefundTypeOK, TablesTypeOK, TruthInv,
          RefundedIsReturned, Returned
    <3>4. QED
      BY <3>2, <3>3
  <2>7. QED
    BY <2>4, <2>5, <2>6 DEF TruthInv, RefundedIsReturned, Returned
<1>12. CASE CallerStops(c)
  BY <1>2, <1>12 DEF CallerStops
<1>13. QED
  BY <1>1, <1>5, <1>6, <1>7, <1>8, <1>9, <1>10, <1>11, <1>12 DEF CallStep

(* A webhook writes 'refunded' only for an event that says so.             *)
LEMMA TruthRefundHook ==
  ASSUME RefundTypeInv, TruthInv, NEW h \in RefundHook,
         \/ \E e \in refundEvents : DeliverRefundEvent(h, e)
         \/ RefundHookStep(h) \/ RefundHookStops(h)
  PROVE  TruthInv'
<1>1. UNCHANGED <<call, stripeRefundVars>>
  BY DEF DeliverRefundEvent, RefundHookStep, SettleFromWebhook, MoveRefundRow,
         AuditRefund, RefundHookStops
<1>2. AnswersAreTrue' /\ CallsKnowTheTruth'
  BY <1>1 DEF TruthInv, AnswersAreTrue, CallsKnowTheTruth, Returned, stripeRefundVars
<1>3. RefundedIsReturned'
  <2>1. CASE row' = row
    BY <1>1, <2>1 DEF TruthInv, RefundedIsReturned, stripeRefundVars
  <2>2. CASE SettleFromWebhook(h)
    <3>1. PICK e \in refundEvents : e = refundHook[h].event
      BY <2>2, BusyRefundHook DEF SettleFromWebhook
    <3>2. e.s \in Settlement /\ (e.status = "succeeded" => Returned(e.s))
      BY <3>1 DEF TruthInv, AnswersAreTrue, RefundTypeInv, RefundTypeOK, RefundEvent
    <3>3. \/ row' = row
          \/ row' = [row EXCEPT ![e.s].status = SettledStatus(e.status)]
      BY <2>2, <3>1 DEF SettleFromWebhook
    <3>4. \A r \in Settlement : row'[r].status = "refunded" => Returned(r)
      <4>1. TAKE r \in Settlement
      <4>2. CASE row' = row \/ r # e.s
        BY <3>2, <3>3, <4>2
        DEF TruthInv, RefundedIsReturned, Returned, RefundTypeInv, RefundTypeOK,
            TablesTypeOK
      <4>3. CASE row' # row /\ r = e.s
        <5>1. row'[r].status = SettledStatus(e.status)
          BY <3>2, <3>3, <4>3 DEF RefundTypeInv, RefundTypeOK, TablesTypeOK, Row
        <5>2. QED
          BY <3>2, <4>3, <5>1 DEF SettledStatus
      <4>4. QED
        BY <4>2, <4>3
    <3>5. QED
      BY <1>1, <3>4 DEF RefundedIsReturned, Returned, stripeRefundVars
  <2>3. QED
    BY <2>1, <2>2
    DEF DeliverRefundEvent, RefundHookStep, MoveRefundRow, AuditRefund,
        RefundHookStops
<1>4. QED
  BY <1>2, <1>3 DEF TruthInv

(* Neither Stripe nor the environment takes a returned fee back.           *)
LEMMA TruthRefundWorld ==
  ASSUME RefundTypeInv, TruthInv,
         \/ \E s \in Settlement :
              \/ StripeSettlesRefund(s) \/ RefundKeyForgotten(s)
              \/ RefundClaimGoesStale(s)
         \/ ToggleRefunds
         \/ \E u \in Subscriber : RefundSubscriberMoves(u)
         \/ UNCHANGED refundVars
  PROVE  TruthInv'
<1>1. call' = call
  BY DEF StripeSettlesRefund, RefundKeyForgotten, RefundClaimGoesStale, ToggleRefunds,
         RefundSubscriberMoves, refundVars, refundLocals
<1>2. AnswersAreTrue' /\ \A r \in Settlement : Returned(r) => Returned(r)'
  BY StripeTellsTheTruth
  DEF RefundTypeInv, TruthInv, RefundClaimGoesStale, ToggleRefunds,
      RefundSubscriberMoves, refundVars, refundLocals
<1>3. CallsKnowTheTruth'
  <2>1. \A c \in Caller : call[c] # IdleCall => call[c].s \in Settlement
    BY DEF RefundTypeInv, RefundTypeOK, Calling
  <2>2. QED
    BY <1>1, <1>2, <2>1 DEF TruthInv, CallsKnowTheTruth, Returned
<1>4. \A r \in Settlement : row'[r].status = row[r].status
  <2>1. CASE row' = row
    BY <2>1
  <2>2. ASSUME NEW s \in Settlement, RefundClaimGoesStale(s)
        PROVE  \A r \in Settlement : row'[r].status = row[r].status
    BY <2>2 DEF RefundClaimGoesStale, RefundTypeInv, RefundTypeOK, TablesTypeOK, Row
  <2>3. QED
    BY <2>1, <2>2
    DEF StripeSettlesRefund, RefundKeyForgotten, ToggleRefunds,
        RefundSubscriberMoves, refundVars
<1>5. QED
  BY <1>2, <1>3, <1>4 DEF TruthInv, RefundedIsReturned, Returned

(* Every step keeps the truth.                                             *)
LEMMA TruthStep ==
  ASSUME RefundTypeInv, TruthInv, [RefundNext]_refundVars
  PROVE  TruthInv'
<1>1. CASE \E c \in Caller : \/ \E s \in Settlement : LoadSettlement(c, s)
                             \/ CallStep(c)
                             \/ CallerStops(c)
  BY <1>1, TruthCall
<1>2. CASE \E h \in RefundHook :
             \/ \E e \in refundEvents : DeliverRefundEvent(h, e)
             \/ RefundHookStep(h) \/ RefundHookStops(h)
  BY <1>2, TruthRefundHook
<1>3. CASE \/ \E s \in Settlement :
                \/ StripeSettlesRefund(s) \/ RefundKeyForgotten(s)
                \/ RefundClaimGoesStale(s)
           \/ ToggleRefunds
           \/ \E u \in Subscriber : RefundSubscriberMoves(u)
           \/ UNCHANGED refundVars
  BY <1>3, TruthRefundWorld
<1>4. QED
  BY <1>1, <1>2, <1>3 DEF RefundNext, RefundStep

(* Whoever writes it, 'refunded' stands for money that Stripe has given    *)
(* back: whatever is lost, repeated, overtaken or forgotten in between.    *)
THEOREM RefundedIsReturnedHolds == RefundSpec => []RefundedIsReturned
<1>1. RefundSpec => []RefundTypeInv
  BY RefundTypeCorrect, PTL DEF RefundTypeInv
<1>2. TruthInv => RefundedIsReturned
  BY DEF TruthInv
<1>3. QED
  BY TruthInit, TruthStep, <1>1, <1>2, PTL DEF RefundSpec

-----------------------------------------------------------------------------
(***************************************************************************)
(* What the refund rows say.  The webhook writes its event's status into a *)
(* row it matched some steps before, and a call its answer into a row that *)
(* may name another refund by then: that the row still names the refund    *)
(* the answer is about follows from the key, which gives every call under  *)
(* way the latest refund, after which, once it succeeds, there is no other.*)
(***************************************************************************)

(* A refund is made only after all earlier ones have failed.               *)
RefundsInOrder ==
  \A s \in Settlement : \A k \in RefundSlot :
    refunds[s][k] # "none" => \A i \in 1..(k - 1) : refunds[s][i] = "failed"

(* The key replays the latest refund.                                      *)
KeyIsLatest(s) ==
  refundKey[s] # NoAnswer =>
    /\ refundKey[s].refund \in RefundSlot
    /\ refunds[s][refundKey[s].refund] # "none"
    /\ \A k \in RefundSlot : k > refundKey[s].refund => refunds[s][k] = "none"
    /\ refundKey[s].status = "succeeded"
         => refunds[s][refundKey[s].refund] = "succeeded"

StripeIsOrderly ==
  /\ RefundsInOrder
  /\ \A s \in Settlement : KeyIsLatest(s)
  /\ \A e \in refundEvents :
       e.status = "succeeded" => refunds[e.s][e.refund] = "succeeded"

(* A call that has its answer has the one the key still replays.           *)
CallIsCurrent(c) ==
  call[c] # IdleCall =>
    /\ call[c].refund # NoRefund => refundKey[call[c].s].refund = call[c].refund
    /\ call[c].result = "succeeded" =>
         /\ call[c].refund # NoRefund
         /\ refunds[call[c].s][call[c].refund] = "succeeded"

(* The row a webhook has matched to a succeeded refund names that refund.  *)
HookIsMatched(h) ==
  refundHook[h].step \in {"update", "row"}
      /\ refundHook[h].event.status = "succeeded"
    => refundRows[refundHook[h].event.s][refundHook[h].j].refund
         = refundHook[h].event.refund

RowSays(s, j) ==
  refundRows[s][j].status = "succeeded" =>
    /\ refundRows[s][j].refund # NoRefund
    /\ refunds[s][refundRows[s][j].refund] = "succeeded"

RowsInv ==
  /\ RefundTypeInv
  /\ StripeIsOrderly
  /\ \A c \in Caller : CallIsCurrent(c)
  /\ \A h \in RefundHook : HookIsMatched(h)
  /\ \A s \in Settlement : \A j \in RefundRowSlot : RowSays(s, j)

(* Before the first refund there is nothing to be untrue.                  *)
LEMMA RowsInit == RefundInit => RowsInv
<1> SUFFICES ASSUME RefundInit PROVE RowsInv
  OBVIOUS
<1>1. StripeIsOrderly
  BY DEF RefundInit, RefundLocalsInit, StripeIsOrderly, RefundsInOrder, KeyIsLatest
<1>2. /\ \A c \in Caller : CallIsCurrent(c)
      /\ \A h \in RefundHook : HookIsMatched(h)
      /\ \A s \in Settlement : \A j \in RefundRowSlot : RowSays(s, j)
  BY DEF RefundInit, RefundLocalsInit, CallIsCurrent, HookIsMatched, RowSays,
         IdleRefundHook
<1>3. QED
  BY <1>1, <1>2, RefundTypeInit DEF RowsInv

(* Once a refund has succeeded it is the latest, and the key's.            *)
LEMMA SucceededIsLatest ==
  ASSUME StripeIsOrderly, NEW s \in Settlement, NEW k \in RefundSlot,
         refunds[s][k] = "succeeded", refundKey[s] # NoAnswer
  PROVE  refundKey[s].refund = k
<1> DEFINE m == refundKey[s].refund
<1>1. /\ m \in RefundSlot /\ refunds[s][m] # "none"
      /\ ~(k > m)
  BY DEF StripeIsOrderly, KeyIsLatest
<1>2. ~(k < m)
  <2>1. k < m => k \in 1..(m - 1)
    BY <1>1, RefundAssumption DEF RefundSlot
  <2>2. QED
    BY <1>1, <2>1 DEF StripeIsOrderly, RefundsInOrder
<1>3. QED
  BY <1>1, <1>2, RefundAssumption DEF RefundSlot

(* A new refund is the latest: a later one would have made it fail.        *)
LEMMA OrderlyNew ==
  ASSUME RefundTypeOK, StripeIsOrderly, NEW s \in Settlement, NEW a \in Answer,
         NewRefund(s, a)
  PROVE  StripeIsOrderly'
<1> DEFINE n == a.refund
<1>1. /\ n \in RefundSlot /\ a.status \in RefundStatus
      /\ refunds[s][n] = "none"
      /\ \A i \in 1..(n - 1) : refunds[s][i] = "failed"
      /\ refunds' = [refunds EXCEPT ![s][n] = a.status]
      /\ refundKey' = [refundKey EXCEPT ![s] = a]
      /\ refundEvents' = Announce(s, a)
  BY DEF NewRefund
<1>2. /\ refunds'[s][n] = a.status /\ refundKey'[s] = a
      /\ \A k \in RefundSlot \ {n} : refunds'[s][k] = refunds[s][k]
      /\ \A q \in Settlement \ {s} : refunds'[q] = refunds[q]
                                     /\ refundKey'[q] = refundKey[q]
  BY <1>1 DEF RefundTypeOK
<1>3. \A k \in RefundSlot : k > n => refunds[s][k] = "none"
  <2>1. ASSUME NEW k \in RefundSlot, k > n PROVE n \in 1..(k - 1)
    BY <1>1, <2>1, RefundAssumption DEF RefundSlot
  <2>2. QED
    BY <1>1, <2>1 DEF StripeIsOrderly, RefundsInOrder
<1>4. KeyIsLatest(s)'
  <2>1. a.status # "none"
    BY <1>1 DEF RefundStatus
  <2>2. \A k \in RefundSlot : k > n => k # n
    BY <1>1, RefundAssumption DEF RefundSlot
  <2>3. QED
    BY <1>1, <1>2, <1>3, <2>1, <2>2 DEF KeyIsLatest
<1>5. ASSUME NEW q \in Settlement PROVE KeyIsLatest(q)'
  <2>1. CASE q = s
    BY <1>4, <2>1
  <2>2. CASE q # s
    BY <1>2, <2>2 DEF StripeIsOrderly, KeyIsLatest
  <2>3. QED
    BY <2>1, <2>2
<1>6. RefundsInOrder'
  <2> SUFFICES ASSUME NEW q \in Settlement, NEW k \in RefundSlot,
                      refunds'[q][k] # "none", NEW i \in 1..(k - 1)
               PROVE  refunds'[q][i] = "failed"
    BY DEF RefundsInOrder
  <2>1. i \in RefundSlot /\ i < k
    BY RefundAssumption DEF RefundSlot
  <2>2. CASE q # s
    BY <1>2, <2>2 DEF StripeIsOrderly, RefundsInOrder
  <2>3. CASE q = s /\ k = n
    BY <1>1, <1>2, <2>1, <2>3
  <2>4. CASE q = s /\ k # n
    <3>1. refunds[s][k] # "none" /\ refunds[s][i] = "failed"
      BY <1>2, <2>4 DEF StripeIsOrderly, RefundsInOrder
    <3>2. QED
      BY <1>1, <1>2, <2>1, <2>4, <3>1
  <2>5. QED
    BY <2>2, <2>3, <2>4
<1>7. ASSUME NEW e \in refundEvents', e.status = "succeeded"
      PROVE  refunds'[e.s][e.refund] = "succeeded"
  <2>1. CASE e \in refundEvents
    <3>1. /\ refunds[e.s][e.refund] = "succeeded"
          /\ e.s \in Settlement /\ e.refund \in RefundSlot
      BY <1>7, <2>1 DEF StripeIsOrderly, RefundTypeOK, RefundEvent
    <3>2. QED
      BY <1>1, <1>2, <3>1
  <2>2. CASE e \notin refundEvents
    BY <1>1, <1>2, <1>7, <2>2 DEF Announce
  <2>3. QED
    BY <2>1, <2>2
<1>8. QED
  BY <1>5, <1>6, <1>7 DEF StripeIsOrderly

(* A pending refund ends where it stands in the order.                     *)
LEMMA OrderlySettle ==
  ASSUME RefundTypeOK, StripeIsOrderly, NEW s \in Settlement, StripeSettlesRefund(s)
  PROVE  StripeIsOrderly'
<1>1. PICK n \in RefundSlot, status \in {"succeeded", "failed"} :
        /\ refunds[s][n] = "pending"
        /\ refunds' = [refunds EXCEPT ![s][n] = status]
        /\ refundEvents' = Announce(s, [refund |-> n, status |-> status])
  BY DEF StripeSettlesRefund
<1>2. /\ refunds'[s][n] = status /\ refundKey' = refundKey
      /\ \A k \in RefundSlot \ {n} : refunds'[s][k] = refunds[s][k]
      /\ \A q \in Settlement \ {s} : refunds'[q] = refunds[q]
  BY <1>1 DEF RefundTypeOK, StripeSettlesRefund
<1>3. ASSUME NEW q \in Settlement PROVE KeyIsLatest(q)'
  <2>1. KeyIsLatest(q)
    BY DEF StripeIsOrderly
  <2>2. CASE q # s
    BY <1>2, <2>1, <2>2 DEF KeyIsLatest
  <2>3. CASE q = s
    BY <1>1, <1>2, <2>1, <2>3 DEF KeyIsLatest
  <2>4. QED
    BY <2>2, <2>3
<1>4. RefundsInOrder'
  <2> SUFFICES ASSUME NEW q \in Settlement, NEW k \in RefundSlot,
                      refunds'[q][k] # "none", NEW i \in 1..(k - 1)
               PROVE  refunds'[q][i] = "failed"
    BY DEF RefundsInOrder
  <2>1. i \in RefundSlot
    BY RefundAssumption DEF RefundSlot
  <2>2. refunds[q][k] # "none"
    BY <1>1, <1>2
  <2>3. refunds[q][i] = "failed"
    BY <2>2 DEF StripeIsOrderly, RefundsInOrder
  <2>4. QED
    BY <1>1, <1>2, <2>1, <2>3
<1>5. ASSUME NEW e \in refundEvents', e.status = "succeeded"
      PROVE  refunds'[e.s][e.refund] = "succeeded"
  <2>1. CASE e \in refundEvents
    <3>1. /\ refunds[e.s][e.refund] = "succeeded"
          /\ e.s \in Settlement /\ e.refund \in RefundSlot
      BY <1>5, <2>1 DEF StripeIsOrderly, RefundTypeOK, RefundEvent
    <3>2. QED
      BY <1>1, <1>2, <3>1
  <2>2. CASE e \notin refundEvents
    BY <1>1, <1>2, <1>5, <2>2 DEF Announce
  <2>3. QED
    BY <2>1, <2>2
<1>6. QED
  BY <1>3, <1>4, <1>5 DEF StripeIsOrderly

(* Stripe stays orderly, a succeeded refund stays one, and a key in use    *)
(* changes only when it is forgotten.                                      *)
LEMMA StripeStaysOrderly ==
  ASSUME RefundTypeOK, StripeIsOrderly,
         \/ \E s \in Settlement : \/ \E a \in Answer : CreateRefund(s, a)
                                  \/ StripeSettlesRefund(s) \/ RefundKeyForgotten(s)
         \/ UNCHANGED stripeRefundVars
  PROVE  /\ StripeIsOrderly'
         /\ \A s \in Settlement : \A k \in RefundSlot :
              refunds[s][k] = "succeeded" => refunds'[s][k] = "succeeded"
         /\ \A s \in Settlement :
              \/ refundKey'[s] = refundKey[s] \/ refundKey[s] = NoAnswer
              \/ RefundKeyForgotten(s)
<1>1. CASE UNCHANGED stripeRefundVars
  BY <1>1 DEF stripeRefundVars, StripeIsOrderly, RefundsInOrder, KeyIsLatest
<1>2. ASSUME NEW s \in Settlement, NEW a \in Answer, CreateRefund(s, a),
             ~UNCHANGED stripeRefundVars
      PROVE  /\ StripeIsOrderly'
             /\ \A q \in Settlement : \A k \in RefundSlot :
                  refunds[q][k] = "succeeded" => refunds'[q][k] = "succeeded"
             /\ \A q \in Settlement :
                  refundKey'[q] = refundKey[q] \/ refundKey[q] = NoAnswer
  <2>1. NewRefund(s, a) /\ refundKey[s] = NoAnswer
    BY <1>2 DEF CreateRefund
  <2>2. StripeIsOrderly'
    BY <2>1, OrderlyNew
  <2>3. QED
    BY <2>1, <2>2 DEF NewRefund, RefundTypeOK
<1>3. ASSUME NEW s \in Settlement, StripeSettlesRefund(s)
      PROVE  /\ StripeIsOrderly'
             /\ \A q \in Settlement : \A k \in RefundSlot :
                  refunds[q][k] = "succeeded" => refunds'[q][k] = "succeeded"
             /\ refundKey' = refundKey
  <2>1. StripeIsOrderly'
    BY <1>3, OrderlySettle
  <2>2. QED
    BY <1>3, <2>1 DEF StripeSettlesRefund, RefundTypeOK
<1>4. ASSUME NEW s \in Settlement, RefundKeyForgotten(s)
      PROVE  /\ StripeIsOrderly' /\ refunds' = refunds
             /\ \A q \in Settlement \ {s} : refundKey'[q] = refundKey[q]
  <2>1. /\ refundKey' = [refundKey EXCEPT ![s] = NoAnswer]
        /\ refunds' = refunds /\ refundEvents' = refundEvents
    BY <1>4 DEF RefundKeyForgotten
  <2>2. ASSUME NEW q \in Settlement PROVE KeyIsLatest(q)'
    BY <2>1 DEF StripeIsOrderly, KeyIsLatest, RefundTypeOK
  <2>3. QED
    BY <2>1, <2>2 DEF StripeIsOrderly, RefundsInOrder, RefundTypeOK
<1>5. QED
  BY <1>1, <1>2, <1>3, <1>4

(* A call that does not move stays current.                                *)
LEMMA CallStaysCurrent ==
  ASSUME ~RefundKeysExpire \/ SlowCallers = FALSE,
         RefundTypeOK, StripeIsOrderly, NEW c \in Caller, CallIsCurrent(c),
         NEW x \in Calling, call[c] \in Calling, call[c] # IdleCall,
         x.s = call[c].s, x.refund = call[c].refund,
         x.result = "succeeded" => call[c].result = "succeeded",
         call'[c] = x,
         \A s \in Settlement : \A k \in RefundSlot :
           refunds[s][k] = "succeeded" => refunds'[s][k] = "succeeded",
         \A s \in Settlement :
              \/ refundKey'[s] = refundKey[s] \/ refundKey[s] = NoAnswer
              \/ RefundKeyForgotten(s)
  PROVE  CallIsCurrent(c)'
<1> DEFINE s == call[c].s
<1>1. /\ s \in Settlement /\ call[c].refund \in RefundSlot \cup {NoRefund}
      /\ x.s = s
  BY DEF Calling
<1>2. ~RefundKeyForgotten(s)
  BY <1>1 DEF RefundKeyForgotten
<1>3. x.refund # NoRefund => refundKey'[s].refund = x.refund
  BY <1>1, <1>2 DEF CallIsCurrent, NoAnswer
<1>4. x.result = "succeeded" =>
        x.refund # NoRefund /\ refunds'[s][x.refund] = "succeeded"
  BY <1>1 DEF CallIsCurrent
<1> HIDE DEF s
<1>5. QED
  BY <1>1, <1>3, <1>4 DEF CallIsCurrent

(* A call's own step: it keeps its settlement, its refund and its result,  *)
(* until it learns them from Stripe.                                       *)
LEMMA CallAnswers ==
  ASSUME RefundTypeOK, NEW c \in Caller, CallStep(c) \/ CallerStops(c)
  PROVE  /\ call[c] \in Calling /\ call[c] # IdleCall
         /\ \A d \in Caller \ {c} : call'[d] = call[d]
         /\ \/ call'[c] = IdleCall
            \/ /\ call'[c] \in Calling /\ call'[c].s = call[c].s
               /\ \/ /\ UNCHANGED stripeRefundVars
                     /\ call'[c].refund = call[c].refund
                     /\ call'[c].result = call[c].result
                  \/ AskStripe(c) \/ StripeThrows(c)
<1>1. call \in [Caller -> Calling \cup {IdleCall}]
  BY DEF RefundTypeOK
<1>2. CASE CallerStops(c)
  BY <1>1, <1>2 DEF CallerStops
<1>3. CASE CallStep(c)
  <2>1. call[c] \in Calling /\ call[c] # IdleCall
    <3>1. call[c].pc # "idle"
      BY <1>3
      DEF CallStep, CheckGates, ResumeInflight, NothingInflight, SumReserved,
          ClaimForRefund, LoseRefundClaim, InsertRefundRow, AskStripe, StripeThrows,
          WriteRefundRow, SettleSettlement
    <3>2. QED
      BY <3>1, BusyCall DEF IdleCall
  <2>2. \A d \in Caller \ {c} : call'[d] = call[d]
    BY <1>1, <1>3
    DEF CallStep, CheckGates, ResumeInflight, NothingInflight, SumReserved,
        ClaimForRefund, LoseRefundClaim, InsertRefundRow, AskStripe, StripeThrows,
        WriteRefundRow, SettleSettlement, Proceed, Return
  <2>3. CASE CheckGates(c) \/ NothingInflight(c) \/ SumReserved(c) \/ LoseRefundClaim(c)
    BY <1>1, <2>1, <2>2, <2>3
    DEF CheckGates, NothingInflight, SumReserved, LoseRefundClaim, Proceed, Return,
        Calling
  <2>4. CASE ClaimForRefund(c) \/ SettleSettlement(c)
    BY <1>1, <2>1, <2>2, <2>4 DEF ClaimForRefund, SettleSettlement, Calling
  <2>5. CASE ResumeInflight(c) \/ InsertRefundRow(c)
    <3>1. PICK j \in RefundRowSlot :
            call' = [call EXCEPT ![c].pc = "stripe", ![c].j = j]
      BY <2>5 DEF ResumeInflight, InsertRefundRow, InflightRows
    <3>2. UNCHANGED stripeRefundVars
      BY <2>5 DEF ResumeInflight, InsertRefundRow
    <3>3. QED
      BY <1>1, <2>1, <2>2, <3>1, <3>2 DEF Calling
  <2>6. CASE AskStripe(c)
    <3>1. PICK a \in Answer :
            call' = [call EXCEPT ![c].pc = "row", ![c].result = a.status,
                                 ![c].refund = a.refund]
      BY <2>6 DEF AskStripe
    <3>2. QED
      BY <1>1, <2>1, <2>2, <2>6, <3>1 DEF Calling, Answer
  <2>7. CASE StripeThrows(c)
    BY <1>1, <2>1, <2>2, <2>7 DEF StripeThrows, Calling, RefundStatus
  <2>8. CASE WriteRefundRow(c)
    BY <1>1, <2>1, <2>2, <2>8 DEF WriteRefundRow, Calling
  <2>9. QED
    BY <1>3, <2>1, <2>3, <2>4, <2>5, <2>6, <2>7, <2>8 DEF CallStep
<1>4. QED
  BY <1>2, <1>3

(* What Stripe can do in any step is one of its own moves.                 *)
LEMMA StripeMoves ==
  ASSUME RefundTypeInv, [RefundNext]_refundVars
  PROVE  \/ \E s \in Settlement : \/ \E a \in Answer : CreateRefund(s, a)
                                  \/ StripeSettlesRefund(s) \/ RefundKeyForgotten(s)
         \/ UNCHANGED stripeRefundVars
<1>1. ASSUME NEW c \in Caller, AskStripe(c) \/ StripeThrows(c),
             ~UNCHANGED stripeRefundVars
      PROVE  \E s \in Settlement : \E a \in Answer : CreateRefund(s, a)
  <2>1. call[c].s \in Settlement
    BY <1>1, BusyCall DEF AskStripe, StripeThrows, RefundTypeInv, Calling
  <2>2. QED
    BY <1>1, <2>1 DEF AskStripe, StripeThrows
<1>2. QED
  BY <1>1
  DEF RefundNext, RefundStep, LoadSettlement, CallStep, CallerStops, CheckGates,
      ResumeInflight, NothingInflight, SumReserved, ClaimForRefund, LoseRefundClaim,
      InsertRefundRow, WriteRefundRow, SettleSettlement, Proceed, Return,
      DeliverRefundEvent, RefundHookStep, SettleFromWebhook, MoveRefundRow,
      AuditRefund, RefundHookStops, RefundClaimGoesStale, ToggleRefunds,
      RefundSubscriberMoves, refundVars, refundLocals

(* Calls stay current: through their own steps, and while others move.     *)
LEMMA CallsStayCurrent ==
  ASSUME ~RefundKeysExpire \/ SlowCallers = FALSE,
         RowsInv, [RefundNext]_refundVars, NEW c \in Caller
  PROVE  CallIsCurrent(c)'
<1> DEFINE Kept == \A s \in Settlement : \A k \in RefundSlot :
                     refunds[s][k] = "succeeded" => refunds'[s][k] = "succeeded"
           Keyed2 == \A s \in Settlement :
                      \/ refundKey'[s] = refundKey[s] \/ refundKey[s] = NoAnswer
                      \/ RefundKeyForgotten(s)
<1>1. Kept /\ Keyed2 /\ StripeIsOrderly'
  BY StripeMoves, StripeStaysOrderly DEF RowsInv, RefundTypeInv
<1>2. RefundTypeOK /\ CallIsCurrent(c) /\ StripeIsOrderly
  BY DEF RowsInv, RefundTypeInv
<1>3. CASE call'[c] = call[c]
  <2>1. CASE call[c] = IdleCall
    BY <1>3, <2>1 DEF CallIsCurrent
  <2>2. CASE call[c] # IdleCall
    <3>1. call[c] \in Calling
      BY <1>2, <2>2 DEF RefundTypeOK
    <3>2. QED
      BY <1>1, <1>2, <1>3, <2>2, <3>1, CallStaysCurrent
  <2>3. QED
    BY <2>1, <2>2
<1>4. CASE \E s \in Settlement : LoadSettlement(c, s)
  <2>1. call'[c].refund = NoRefund /\ call'[c].result = "none"
    BY <1>2, <1>4 DEF LoadSettlement, RefundTypeOK
  <2>2. QED
    BY <2>1 DEF CallIsCurrent
<1>5. CASE CallStep(c) \/ CallerStops(c)
  <2>1. /\ call[c] \in Calling /\ call[c] # IdleCall
        /\ \/ call'[c] = IdleCall
           \/ /\ call'[c] \in Calling /\ call'[c].s = call[c].s
              /\ \/ /\ UNCHANGED stripeRefundVars
                    /\ call'[c].refund = call[c].refund
                    /\ call'[c].result = call[c].result
                 \/ AskStripe(c) \/ StripeThrows(c)
    BY <1>2, <1>5, CallAnswers
  <2>2. CASE call'[c] = IdleCall
    BY <2>2 DEF CallIsCurrent
  <2>3. CASE /\ call'[c] \in Calling /\ call'[c].s = call[c].s
             /\ call'[c].refund = call[c].refund
             /\ call'[c].result = call[c].result
    BY <1>1, <1>2, <2>1, <2>3, CallStaysCurrent
  <2>4. CASE StripeThrows(c) /\ call'[c] # IdleCall
    <3>1. call'[c] \in Calling /\ call'[c].s = call[c].s
      BY <2>1, <2>4 DEF StripeThrows, AskStripe
    <3>2. call'[c].refund = call[c].refund /\ call'[c].result = "failed"
      BY <1>2, <2>1, <2>4 DEF StripeThrows, RefundTypeOK, Calling
    <3>3. QED
      BY <1>1, <1>2, <2>1, <3>1, <3>2, CallStaysCurrent
  <2>5. CASE AskStripe(c)
    <3>1. PICK s \in Settlement : s = call[c].s
      BY <2>1 DEF Calling
    <3>2. PICK a \in Answer :
            /\ CreateRefund(s, a)
            /\ call' = [call EXCEPT ![c].pc = "row", ![c].result = a.status,
                                    ![c].refund = a.refund]
      BY <2>5, <3>1 DEF AskStripe
    <3>3. /\ call'[c].s = s /\ call'[c].refund = a.refund
          /\ call'[c].result = a.status
      BY <1>2, <2>1, <3>1, <3>2 DEF RefundTypeOK, Calling
    <3>4. refundKey'[s] = a
      BY <1>2, <3>2 DEF CreateRefund, NewRefund, stripeRefundVars, RefundTypeOK
    <3>5. a # NoAnswer /\ a.refund # NoRefund
      BY RefundAssumption DEF Answer, NoAnswer, RefundSlot, NoRefund
    <3>6. KeyIsLatest(s)'
      BY <1>1 DEF StripeIsOrderly
    <3>7. a.status = "succeeded" => refunds'[s][a.refund] = "succeeded"
      BY <3>4, <3>5, <3>6 DEF KeyIsLatest
    <3>8. QED
      BY <3>3, <3>4, <3>5, <3>7 DEF CallIsCurrent
  <2>6. QED
    BY <2>1, <2>2, <2>3, <2>4, <2>5
<1>6. ASSUME NEW d \in Caller, d # c,
             \/ \E s \in Settlement : LoadSettlement(d, s)
             \/ CallStep(d) \/ CallerStops(d)
      PROVE  call'[c] = call[c]
  BY <1>2, <1>6, CallAnswers DEF LoadSettlement, RefundTypeOK
<1>7. QED
  BY <1>3, <1>4, <1>5, <1>6
  DEF RefundNext, RefundStep, DeliverRefundEvent, RefundHookStep, SettleFromWebhook,
      MoveRefundRow, AuditRefund, RefundHookStops, StripeSettlesRefund,
      RefundKeyForgotten, RefundClaimGoesStale, ToggleRefunds, RefundSubscriberMoves,
      refundVars, refundLocals

(* What a step may do to a refund row: its status alone changes, or a call *)
(* writes its answer into it.                                              *)
StatusMoves(s, j) ==
  /\ refundRows'[s][j].refund = refundRows[s][j].refund
  /\ \/ refundRows'[s][j].status = refundRows[s][j].status
     \/ refundRows'[s][j].status = "pending"
     \/ \E h \in RefundHook :
          /\ refundHook[h].step = "row" /\ refundHook[h].event.s = s
          /\ refundHook[h].j = j
          /\ refundRows'[s][j].status = refundHook[h].event.status

AnswerMoves(s, j, c) ==
  /\ call[c] # IdleCall /\ call[c].s = s
  /\ refundRows'[s][j].status = call[c].result
  /\ refundRows'[s][j].refund =
       IF call[c].refund = NoRefund THEN refundRows[s][j].refund ELSE call[c].refund

(* Writing one refund row leaves the others alone.                         *)
RowIsSet(q, i, y) == refundRows' = [refundRows EXCEPT ![q][i] = y]

LEMMA OtherRow ==
  ASSUME RefundTypeOK, NEW q, NEW i, NEW y, RowIsSet(q, i, y),
         NEW s \in Settlement, NEW j \in RefundRowSlot, q # s \/ i # j
  PROVE  refundRows'[s][j] = refundRows[s][j]
<1>1. refundRows \in [Settlement -> [RefundRowSlot -> RefundRow]]
  BY DEF RefundTypeOK
<1>2. CASE q # s
  BY <1>1, <1>2 DEF RowIsSet
<1>3. CASE q = s /\ i # j
  <2>1. refundRows'[s] = [refundRows[s] EXCEPT ![i] = y]
    BY <1>1, <1>3 DEF RowIsSet
  <2>2. QED
    BY <1>1, <1>3, <2>1
<1>4. QED
  BY <1>2, <1>3

(* Nothing else is done to a refund row.                                   *)
LEMMA RowsMove ==
  ASSUME RowsInv, [RefundNext]_refundVars, NEW s \in Settlement,
         NEW j \in RefundRowSlot
  PROVE  StatusMoves(s, j) \/ \E c \in Caller : AnswerMoves(s, j, c)
<1>1. /\ refundRows \in [Settlement -> [RefundRowSlot -> RefundRow]]
      /\ RefundTypeOK
  BY DEF RowsInv, RefundTypeInv, RefundTypeOK
<1>2. ASSUME refundRows'[s][j] = refundRows[s][j]
      PROVE  StatusMoves(s, j)
  BY <1>2 DEF StatusMoves
<1>3. ASSUME NEW c \in Caller, InsertRefundRow(c)
      PROVE  StatusMoves(s, j)
  <2>1. PICK i \in RefundRowSlot :
          refundRows' = [refundRows EXCEPT ![call[c].s][i].status = "pending"]
    BY <1>3 DEF InsertRefundRow
  <2>2. CASE call[c].s = s /\ i = j
    BY <1>1, <2>1, <2>2 DEF StatusMoves, RefundRow
  <2>3. CASE call[c].s # s \/ i # j
    <3>1. PICK y : y = [refundRows[call[c].s][i] EXCEPT !.status = "pending"]
      OBVIOUS
    <3>2. RowIsSet(call[c].s, i, y)
      BY <2>1, <3>1 DEF RowIsSet
    <3>3. refundRows'[s][j] = refundRows[s][j]
      BY <1>1, <2>3, <3>2, OtherRow
    <3>4. QED
      BY <1>2, <3>3
  <2>4. QED
    BY <2>2, <2>3
<1>4. ASSUME NEW c \in Caller, WriteRefundRow(c)
      PROVE  StatusMoves(s, j) \/ AnswerMoves(s, j, c)
  <2>1. call[c] # IdleCall
    BY <1>4 DEF WriteRefundRow, IdleCall
  <2> DEFINE y == [status |-> call[c].result,
                   refund |-> IF call[c].refund = NoRefund
                              THEN refundRows[call[c].s][call[c].j].refund
                              ELSE call[c].refund]
  <2>2. \/ refundRows' = refundRows
        \/ refundRows' = [refundRows EXCEPT ![call[c].s][call[c].j] = y]
    BY <1>4 DEF WriteRefundRow
  <2> HIDE DEF y
  <2>3. CASE refundRows' = refundRows \/ call[c].s # s \/ call[c].j # j
    <3>1. CASE refundRows' = refundRows
      BY <1>2, <3>1
    <3>2. CASE refundRows' # refundRows
      <4>1. RowIsSet(call[c].s, call[c].j, y)
        BY <2>2, <3>2 DEF RowIsSet
      <4>2. refundRows'[s][j] = refundRows[s][j]
        BY <1>1, <2>3, <3>2, <4>1, OtherRow
      <4>3. QED
        BY <1>2, <4>2
    <3>3. QED
      BY <3>1, <3>2
  <2>4. CASE /\ call[c].s = s /\ call[c].j = j
             /\ refundRows' = [refundRows EXCEPT ![call[c].s][call[c].j] = y]
    <3>1. refundRows'[s][j] = y
      BY <1>1, <2>4
    <3>2. QED
      BY <2>1, <2>4, <3>1 DEF AnswerMoves, y
  <2>5. QED
    BY <2>2, <2>3, <2>4
<1>5. ASSUME NEW h \in RefundHook, MoveRefundRow(h)
      PROVE  StatusMoves(s, j)
  <2>1. /\ refundHook[h].step = "row"
        /\ refundRows' = [refundRows EXCEPT
             ![refundHook[h].event.s][refundHook[h].j].status = refundHook[h].event.status]
    BY <1>5 DEF MoveRefundRow
  <2>2. CASE refundHook[h].event.s = s /\ refundHook[h].j = j
    BY <1>1, <2>1, <2>2 DEF StatusMoves, RefundRow
  <2>3. CASE refundHook[h].event.s # s \/ refundHook[h].j # j
    <3>1. PICK y : y = [refundRows[refundHook[h].event.s][refundHook[h].j]
                          EXCEPT !.status = refundHook[h].event.status]
      OBVIOUS
    <3>2. RowIsSet(refundHook[h].event.s, refundHook[h].j, y)
      BY <2>1, <3>1 DEF RowIsSet
    <3>3. refundRows'[s][j] = refundRows[s][j]
      BY <1>1, <2>3, <3>2, OtherRow
    <3>4. QED
      BY <1>2, <3>3
  <2>4. QED
    BY <2>2, <2>3
<1>6. QED
  BY <1>2, <1>3, <1>4, <1>5
  DEF RefundNext, RefundStep, LoadSettlement, CallStep, CallerStops, CheckGates,
      ResumeInflight, NothingInflight, SumReserved, ClaimForRefund, LoseRefundClaim,
      AskStripe, StripeThrows, SettleSettlement, Proceed, Return,
      DeliverRefundEvent, RefundHookStep, SettleFromWebhook,
      AuditRefund, RefundHookStops, StripeSettlesRefund, RefundKeyForgotten,
      RefundClaimGoesStale, ToggleRefunds, RefundSubscriberMoves, refundVars,
      refundLocals

(* A row that names a succeeded refund goes on naming it.                  *)
LEMMA SucceededIsKept ==
  ASSUME RowsInv, [RefundNext]_refundVars, NEW s \in Settlement,
         NEW j \in RefundRowSlot, NEW k \in RefundSlot,
         refundRows[s][j].refund = k, refunds[s][k] = "succeeded"
  PROVE  refundRows'[s][j].refund = k
<1>1. CASE StatusMoves(s, j)
  BY <1>1 DEF StatusMoves
<1>2. ASSUME NEW c \in Caller, AnswerMoves(s, j, c)
      PROVE  refundRows'[s][j].refund = k
  <2>1. CASE call[c].refund = NoRefund
    BY <1>2, <2>1 DEF AnswerMoves
  <2>2. CASE call[c].refund # NoRefund
    <3>1. refundKey[s].refund = call[c].refund
      BY <1>2, <2>2 DEF AnswerMoves, RowsInv, CallIsCurrent
    <3>2. refundKey[s] # NoAnswer
      BY <2>2, <3>1 DEF NoAnswer
    <3>3. refundKey[s].refund = k
      BY <3>2, SucceededIsLatest DEF RowsInv
    <3>4. QED
      BY <1>2, <2>2, <3>1, <3>3 DEF AnswerMoves
  <2>3. QED
    BY <2>1, <2>2
<1>3. QED
  BY <1>1, <1>2, RowsMove

(* A webhook is matched when its event is delivered, and stays matched.    *)
LEMMA HooksStayMatched ==
  ASSUME RowsInv, [RefundNext]_refundVars, NEW h \in RefundHook
  PROVE  HookIsMatched(h)'
<1>1. /\ refundHook \in [RefundHook -> RefundHandling \cup {IdleRefundHook}]
      /\ RefundTypeInv /\ HookIsMatched(h)
      /\ \A e \in refundEvents :
           e.status = "succeeded" => refunds[e.s][e.refund] = "succeeded"
      /\ refundEvents \subseteq RefundEvent
  BY DEF RowsInv, RefundTypeInv, RefundTypeOK, StripeIsOrderly
<1>2. ASSUME refundHook[h].step \in {"update", "row"},
             refundHook[h].event.status = "succeeded"
      PROVE  refundRows'[refundHook[h].event.s][refundHook[h].j].refund
               = refundHook[h].event.refund
  <2>1. PICK e \in RefundEvent, j \in RefundRowSlot :
          e = refundHook[h].event /\ j = refundHook[h].j /\ e \in refundEvents
    BY <1>1, <1>2, BusyRefundHook DEF RefundHandling
  <2>2. e.s \in Settlement /\ e.refund \in RefundSlot
    BY DEF RefundEvent
  <2>3. refunds[e.s][e.refund] = "succeeded" /\ refundRows[e.s][j].refund = e.refund
    BY <1>1, <1>2, <2>1 DEF HookIsMatched
  <2>4. refundRows'[e.s][j].refund = e.refund
    BY <2>2, <2>3, SucceededIsKept
  <2>5. QED
    BY <2>1, <2>4
<1>3. ASSUME refundHook'[h].step \in {"update", "row"},
             refundHook[h].step \in {"update", "row"},
             refundHook'[h].event = refundHook[h].event,
             refundHook'[h].j = refundHook[h].j
      PROVE  HookIsMatched(h)'
  BY <1>2, <1>3 DEF HookIsMatched
<1>4. CASE refundHook'[h] = refundHook[h]
  <2>1. CASE refundHook'[h].step \in {"update", "row"}
    BY <1>3, <1>4, <2>1
  <2>2. QED
    BY <2>1 DEF HookIsMatched
<1>5. ASSUME NEW e \in refundEvents, DeliverRefundEvent(h, e),
             refundHook'[h] # refundHook[h]
      PROVE  HookIsMatched(h)'
  <2>1. PICK j \in RowsOf(e) :
          refundHook' = [refundHook EXCEPT ![h] =
                          [step |-> "update", event |-> e, j |-> j]]
    BY <1>1, <1>5 DEF DeliverRefundEvent
  <2>2. /\ refundHook'[h].event = e /\ refundHook'[h].j = j
        /\ refundRows' = refundRows
    BY <1>1, <1>5, <2>1 DEF DeliverRefundEvent
  <2>3. refundRows[e.s][j].refund = e.refund
    BY DEF RowsOf
  <2>4. QED
    BY <2>2, <2>3 DEF HookIsMatched
<1>6. CASE SettleFromWebhook(h)
  <2>1. refundHook[h] \in RefundHandling /\ refundHook[h].step = "update"
    BY <1>1, <1>6, BusyRefundHook DEF SettleFromWebhook
  <2>2. \/ refundHook' = [refundHook EXCEPT ![h].step = "row"]
        \/ refundHook' = [refundHook EXCEPT ![h].step = "audit"]
    BY <1>6 DEF SettleFromWebhook
  <2>3. CASE refundHook' = [refundHook EXCEPT ![h].step = "row"]
    <3>1. /\ refundHook'[h].step = "row"
          /\ refundHook'[h].event = refundHook[h].event
          /\ refundHook'[h].j = refundHook[h].j
      BY <1>1, <2>1, <2>3 DEF RefundHandling
    <3>2. QED
      BY <1>3, <2>1, <3>1
  <2>4. CASE refundHook' = [refundHook EXCEPT ![h].step = "audit"]
    <3>1. refundHook'[h].step = "audit"
      BY <1>1, <2>1, <2>4 DEF RefundHandling
    <3>2. QED
      BY <3>1 DEF HookIsMatched
  <2>5. QED
    BY <2>2, <2>3, <2>4
<1>7. CASE MoveRefundRow(h)
  <2>1. refundHook[h] \in RefundHandling
    BY <1>1, <1>7, BusyRefundHook DEF MoveRefundRow
  <2>2. refundHook'[h].step = "audit"
    BY <1>1, <1>7, <2>1 DEF MoveRefundRow, RefundHandling
  <2>3. QED
    BY <2>2 DEF HookIsMatched
<1>8. CASE AuditRefund(h) \/ RefundHookStops(h)
  <2>1. refundHook'[h].step = "idle"
    BY <1>1, <1>8 DEF AuditRefund, RefundHookStops, IdleRefundHook
  <2>2. QED
    BY <2>1 DEF HookIsMatched
<1>9. ASSUME NEW g \in RefundHook, g # h,
             \/ \E e \in refundEvents : DeliverRefundEvent(g, e)
             \/ RefundHookStep(g) \/ RefundHookStops(g)
      PROVE  refundHook'[h] = refundHook[h]
  BY <1>1, <1>9 DEF DeliverRefundEvent, RefundHookStep, SettleFromWebhook,
     MoveRefundRow, AuditRefund, RefundHookStops
<1>10. ASSUME NEW c \in Caller,
              \/ \E s \in Settlement : LoadSettlement(c, s)
              \/ CallStep(c) \/ CallerStops(c)
       PROVE  refundHook' = refundHook
  BY <1>10
  DEF LoadSettlement, CallStep, CallerStops, CheckGates, ResumeInflight,
      NothingInflight, SumReserved, ClaimForRefund, LoseRefundClaim, InsertRefundRow,
      AskStripe, StripeThrows, WriteRefundRow, SettleSettlement, Proceed, Return
<1>11. QED
  BY <1>4, <1>5, <1>6, <1>7, <1>8, <1>9, <1>10
  DEF RefundNext, RefundStep, RefundHookStep, StripeSettlesRefund, RefundKeyForgotten,
      RefundClaimGoesStale, ToggleRefunds, RefundSubscriberMoves, refundVars,
      refundLocals

(* A row becomes 'succeeded' only by an answer or a matched event, and it  *)
(* keeps its refund, which stays succeeded.                                *)
LEMMA RowsStayTrue ==
  ASSUME RowsInv, [RefundNext]_refundVars, NEW s \in Settlement,
         NEW j \in RefundRowSlot
  PROVE  RowSays(s, j)'
<1>1. \A k \in RefundSlot : refunds[s][k] = "succeeded" => refunds'[s][k] = "succeeded"
  BY StripeMoves, StripeStaysOrderly DEF RowsInv, RefundTypeInv
<1>2. /\ refundRows[s][j].refund \in RefundSlot \cup {NoRefund}
      /\ RowSays(s, j)
  BY DEF RowsInv, RefundTypeInv, RefundTypeOK, RefundRow
<1>3. ASSUME NEW k \in RefundSlot, refundRows'[s][j].refund = k,
             refunds[s][k] = "succeeded"
      PROVE  RowSays(s, j)'
  <2>1. k # NoRefund
    BY RefundAssumption DEF RefundSlot, NoRefund
  <2>2. QED
    BY <1>1, <1>3, <2>1 DEF RowSays
<1>4. CASE refundRows'[s][j].status # "succeeded"
  BY <1>4 DEF RowSays
<1>5. CASE refundRows'[s][j].status = "succeeded"
  <2>1. CASE StatusMoves(s, j)
    <3>1. CASE refundRows'[s][j].status = refundRows[s][j].status
      <4>1. /\ refundRows[s][j].refund \in RefundSlot
            /\ refunds[s][refundRows[s][j].refund] = "succeeded"
        BY <1>2, <1>5, <3>1 DEF RowSays
      <4>2. QED
        BY <1>3, <2>1, <4>1 DEF StatusMoves
    <3>2. ASSUME NEW h \in RefundHook,
                 refundHook[h].step = "row", refundHook[h].event.s = s,
                 refundHook[h].j = j, refundHook[h].event.status = "succeeded"
          PROVE  RowSays(s, j)'
      <4>1. PICK e \in RefundEvent : e = refundHook[h].event /\ e \in refundEvents
        BY <3>2, BusyRefundHook DEF RowsInv, RefundHandling
      <4>2. e.refund \in RefundSlot /\ refunds[s][e.refund] = "succeeded"
        BY <3>2, <4>1 DEF RowsInv, StripeIsOrderly, RefundEvent
      <4>3. refundRows[s][j].refund = e.refund
        BY <3>2, <4>1 DEF RowsInv, HookIsMatched
      <4>4. QED
        BY <1>3, <2>1, <4>2, <4>3 DEF StatusMoves
    <3>3. QED
      BY <1>5, <2>1, <3>1, <3>2 DEF StatusMoves
  <2>2. ASSUME NEW c \in Caller, AnswerMoves(s, j, c)
        PROVE  RowSays(s, j)'
    <3>1. /\ call[c] \in Calling /\ call[c].s = s
          /\ call[c].refund # NoRefund /\ refunds[s][call[c].refund] = "succeeded"
      BY <1>5, <2>2 DEF AnswerMoves, RowsInv, CallIsCurrent, RefundTypeInv, RefundTypeOK
    <3>2. call[c].refund \in RefundSlot
      BY <3>1 DEF Calling
    <3>3. refundRows'[s][j].refund = call[c].refund
      BY <2>2, <3>1 DEF AnswerMoves
    <3>4. QED
      BY <1>3, <3>1, <3>2, <3>3
  <2>3. QED
    BY <2>1, <2>2, RowsMove
<1>6. QED
  BY <1>4, <1>5

(* Every step keeps what the refund rows say true.                         *)
LEMMA RowsInvStep ==
  ASSUME ~RefundKeysExpire \/ SlowCallers = FALSE, RowsInv, [RefundNext]_refundVars
  PROVE  RowsInv'
<1>1. RefundTypeInv'
  BY RefundTypeStep DEF RowsInv
<1>2. StripeIsOrderly'
  BY StripeMoves, StripeStaysOrderly DEF RowsInv, RefundTypeInv
<1>3. QED
  BY <1>1, <1>2, CallsStayCurrent, HooksStayMatched, RowsStayTrue DEF RowsInv

(* A refund row that says 'succeeded' names a refund that has succeeded at *)
(* Stripe, whoever wrote it, unless the key is forgotten under a call that *)
(* still works: it is kept, or no call outlives it.                        *)
THEOREM SucceededRowHolds ==
  ASSUME ~RefundKeysExpire \/ SlowCallers = FALSE
  PROVE  RefundSpec => []SucceededRowIsReturned
<1>1. RowsInv /\ [RefundNext]_refundVars => RowsInv'
  BY RowsInvStep
<1>2. RowsInv => SucceededRowIsReturned
  BY DEF RowsInv, RowSays, SucceededRowIsReturned
<1>3. QED
  BY <1>1, <1>2, RowsInit, PTL DEF RefundSpec

-----------------------------------------------------------------------------
(***************************************************************************)
(* The lifecycle: the charge and the refund of one settlement.             *)
(***************************************************************************)

(* Some invoice of the settlement is paid, the one its row names or not.   *)
HasMoney(s) == PaidInvoices(s) # {}

(* A settlement paid, in flight or refunded, one with a refund row and one *)
(* that a call works on have their money.                                  *)
RefundsHaveMoney ==
  /\ \A s \in Settlement :
       \/ row[s].status \in {"paid", "refund_pending", "refunded"}
       \/ RefundsOnFile(s) # {}
       => HasMoney(s)
  /\ \A c \in Caller : call[c] # IdleCall => HasMoney(call[c].s)

(* Stripe is asked for a refund only when a row is on file, and a row's    *)
(* update writes a result.                                                 *)
RefundsAreOnFile ==
  /\ \A s \in Settlement : \A k \in RefundSlot :
       refunds[s][k] # "none" => RefundsOnFile(s) # {}
  /\ \A e \in refundEvents : RefundsOnFile(e.s) # {}
  /\ \A c \in Caller :
       /\ call[c].pc = "stripe" => RefundsOnFile(call[c].s) # {}
       /\ call[c].pc = "row" => call[c].result # "none"

LifeInv ==
  /\ KnowledgeInv
  /\ InvoicesWithinLapses
  /\ RefundTypeInv
  /\ TruthInv
  /\ RefundsHaveMoney
  /\ RefundsAreOnFile
  /\ RefundsInOrder

(* Nothing is charged and nothing refunded yet.                            *)
LEMMA LifeInit == LifecycleInit => LifeInv
<1> SUFFICES ASSUME LifecycleInit PROVE LifeInv
  OBVIOUS
<1> USE DEF LifecycleInit
<1>1. KnowledgeInv /\ InvoicesWithinLapses
  BY MoneyInit, LapseInit DEF MoneyInv
<1>2. RefundTypeInv
  <2>1. TablesTypeOK
    BY <1>1 DEF KnowledgeInv, ChargeTypeOK
  <2>2. /\ refunds \in [Settlement -> [RefundSlot -> RefundStatus \cup {"none"}]]
        /\ refundKey \in [Settlement -> Answer \cup {NoAnswer}]
        /\ refundRows \in [Settlement -> [RefundRowSlot -> RefundRow]]
    BY DEF RefundLocalsInit, RefundRow
  <2>3. QED
    BY <2>1, <2>2, RefundAssumption
    DEF RefundLocalsInit, RefundTypeInv, RefundTypeOK, RefundHooksCarryEvents
<1>3. \A s \in Settlement : row[s].status = "pending"
  BY DEF ChargeInit, NewRow
<1>4. TruthInv
  BY <1>3
  DEF RefundLocalsInit, NoAnswer, TruthInv, AnswersAreTrue, CallsKnowTheTruth,
      RefundedIsReturned
<1>5. RefundsHaveMoney /\ RefundsAreOnFile /\ RefundsInOrder
  BY <1>3
  DEF RefundLocalsInit, RefundsHaveMoney, RefundsAreOnFile, RefundsInOrder,
      RefundsOnFile, IdleCall
<1>6. QED
  BY <1>1, <1>2, <1>4, <1>5 DEF LifeInv

-----------------------------------------------------------------------------
(* What a step of the charge does: it moves one settlement's row, or its   *)
(* invoices.                                                               *)

ChargeMovesRow(s) ==
  /\ \A q \in Settlement \ {s} : row'[q] = row[q]
  /\ row'[s].status \in {row[s].status, "charging", "paid", "failed"}
  /\ UNCHANGED <<invoices, lapses>>

ChargeMovesInvoices(s) ==
  /\ \A q \in Settlement \ {s} : invoices'[q] = invoices[q]
  /\ \/ PaidInvoices(s)' = PaidInvoices(s)
     \/ \E i \in Slot \ PaidInvoices(s) : PaidInvoices(s)' = PaidInvoices(s) \cup {i}
  /\ UNCHANGED <<row, lapses>>

ChargeLapses(s) ==
  /\ lapses' = [lapses EXCEPT ![s] = @ + 1]
  /\ UNCHANGED <<row, invoices>>

ChargeMovesOne ==
  \/ UNCHANGED <<row, invoices, lapses>>
  \/ \E s \in Settlement :
       ChargeMovesRow(s) \/ ChargeMovesInvoices(s) \/ ChargeLapses(s)

(* A call about one invoice pays that invoice at most.                     *)
LEMMA OnePayment ==
  ASSUME StripeTypeOK, NEW s \in Settlement, NEW i \in Slot,
         \/ CreateInvoice(s, i) \/ (\E l \in Line : AddInvoiceItem(s, i, l))
         \/ FinalizeInvoice(s, i) \/ CollectPayment(s, i),
         UNCHANGED <<row, lapses>>
  PROVE  ChargeMovesInvoices(s)
<1>1. invoices \in [Settlement -> [Slot -> Invoice]]
  BY DEF StripeTypeOK
<1>2. ASSUME NEW st, invoices' = [invoices EXCEPT ![s][i].status = st],
             invoices[s][i].status # "paid"
      PROVE  ChargeMovesInvoices(s)
  <2>1. /\ \A q \in Settlement \ {s} : invoices'[q] = invoices[q]
        /\ \A j \in Slot \ {i} : invoices'[s][j] = invoices[s][j]
        /\ invoices'[s][i].status = st
    BY <1>1, <1>2 DEF Invoice
  <2>2. CASE st = "paid"
    <3>1. i \in Slot \ PaidInvoices(s)
      BY <1>2 DEF PaidInvoices
    <3>2. PaidInvoices(s)' = PaidInvoices(s) \cup {i}
      BY <2>1, <2>2 DEF PaidInvoices
    <3>3. QED
      BY <2>1, <3>1, <3>2 DEF ChargeMovesInvoices
  <2>3. CASE st # "paid"
    <3>1. PaidInvoices(s)' = PaidInvoices(s)
      BY <1>2, <2>1, <2>3 DEF PaidInvoices
    <3>2. QED
      BY <2>1, <3>1 DEF ChargeMovesInvoices
  <2>4. QED
    BY <2>2, <2>3
<1>3. ASSUME NEW l \in Line, invoices' = [invoices EXCEPT ![s][i].items[l] = @ + 1]
      PROVE  ChargeMovesInvoices(s)
  <2>1. /\ \A q \in Settlement \ {s} : invoices'[q] = invoices[q]
        /\ \A j \in Slot : invoices'[s][j].status = invoices[s][j].status
    BY <1>1, <1>3 DEF Invoice
  <2>2. PaidInvoices(s)' = PaidInvoices(s)
    BY <2>1 DEF PaidInvoices
  <2>3. QED
    BY <2>1, <2>2 DEF ChargeMovesInvoices
<1>4. CASE UNCHANGED invoices
  BY <1>4 DEF ChargeMovesInvoices, PaidInvoices
<1>5. QED
  BY <1>2, <1>3, <1>4
  DEF CreateInvoice, AddInvoiceItem, FinalizeInvoice, CollectPayment

(* A drain writes 'charging', 'paid' or 'failed' into its settlement's     *)
(* row, or touches its settlement's invoices.                              *)
LEMMA RunMovesOne ==
  ASSUME ChargeTypeOK, NEW r \in Run, RunStep(r)
  PROVE  ChargeMovesOne
<1> USE DEF ChargeMovesOne
<1>1. CASE ClaimForCharge(r)
  <2>1. run[r].s \in Settlement
    BY <1>1, BusyRun DEF ClaimForCharge, Work
  <2>2. ChargeMovesRow(run[r].s)
    BY <1>1, <2>1 DEF ClaimForCharge, ChargeMovesRow, stripeVars,
                      ChargeTypeOK, TablesTypeOK, Row
  <2>3. QED
    BY <2>1, <2>2
<1>2. CASE WriteOutcome(r)
  <2>1. run[r] \in Work /\ run[r].result \in {"paid", "failed"}
    BY <1>2, BusyRun DEF WriteOutcome
  <2>2. run[r].s \in Settlement /\ row[run[r].s] \in Row
    BY <2>1 DEF Work, ChargeTypeOK, TablesTypeOK
  <2>3. row' = [row EXCEPT ![run[r].s] = Outcome(row[run[r].s], run[r])]
    BY <1>2, <2>2 DEF WriteOutcome, ChargeTypeOK, TablesTypeOK
  <2>4. row'[run[r].s] = Outcome(row[run[r].s], run[r])
        /\ \A q \in Settlement \ {run[r].s} : row'[q] = row[q]
    BY <2>2, <2>3 DEF ChargeTypeOK, TablesTypeOK
  <2>5. Outcome(row[run[r].s], run[r]).status = run[r].result
    BY <2>2 DEF Outcome, Row
  <2>6. ChargeMovesRow(run[r].s)
    BY <1>2, <2>1, <2>4, <2>5 DEF WriteOutcome, Displaces, ChargeMovesRow, stripeVars
  <2>7. QED
    BY <2>2, <2>6
<1>3. CASE StartInvoice(r)
  <2>1. run[r].s \in Settlement /\ StripeTypeOK
    BY <1>3, BusyRun DEF StartInvoice, Work, ChargeTypeOK
  <2>2. UNCHANGED <<row, lapses>>
    BY <1>3 DEF StartInvoice, tables, history
  <2>3. QED
    BY <1>3, <2>1, <2>2, OnePayment DEF StartInvoice
<1>4. CASE AddItem(r) \/ Finalize(r) \/ Pay(r)
  <2>1. run[r].s \in Settlement /\ run[r].invoice \in Slot
    BY <1>4, BusyRun DEF AddItem, Finalize, Pay, Work
  <2>2. StripeTypeOK /\ run[r].todo \subseteq Line
    BY <1>4, BusyRun DEF AddItem, Finalize, Pay, Work, ChargeTypeOK
  <2>3. UNCHANGED <<row, lapses>>
    BY <1>4 DEF AddItem, Finalize, Pay, tables, history
  <2>4. \/ \E l \in Line : AddInvoiceItem(run[r].s, run[r].invoice, l)
        \/ FinalizeInvoice(run[r].s, run[r].invoice)
        \/ CollectPayment(run[r].s, run[r].invoice)
    BY <1>4, <2>2 DEF AddItem, Finalize, Pay
  <2>5. ChargeMovesInvoices(run[r].s)
    BY <2>1, <2>2, <2>3, <2>4, OnePayment
  <2>6. QED
    BY <2>1, <2>5
<1>5. QED
  BY <1>1, <1>2, <1>3, <1>4
  DEF RunStep, LoadContext, SkipInactive, LoseClaim, RefuseToCharge, ResumeAtPayment,
      BuildThrows, PayDeclined, DeclinePayment, PayThrows, tables, stripeVars, history

(* So does every other step of the charge; a webhook stores the invoice of *)
(* its event, and only Stripe's forgetting is a lapse.                     *)
LEMMA ChargeMoves ==
  ASSUME ChargeTypeOK, [ChargeNext]_chargeVars
  PROVE  ChargeMovesOne
<1>1. ASSUME NEW h \in Hook, NEW status \in {"paid", "failed"},
             hook[h].step # "idle", Reconcile(h, status)
      PROVE  ChargeMovesOne
  <2> DEFINE e == hook[h].event
  <2>1. e.s \in Settlement /\ row[e.s] \in Row
    BY <1>1, BusyHook DEF Handling, Event, ChargeTypeOK, TablesTypeOK
  <2>2. \/ row' = row
        \/ row' = [row EXCEPT ![e.s].status = status, ![e.s].invoice = e.invoice]
    BY <1>1 DEF Reconcile
  <2>3. \/ row' = row
        \/ /\ row'[e.s].status = status
           /\ \A q \in Settlement \ {e.s} : row'[q] = row[q]
    BY <2>1, <2>2 DEF ChargeTypeOK, TablesTypeOK, Row
  <2>4. UNCHANGED <<invoices, lapses>>
    BY <1>1 DEF Reconcile, Displaces, stripeVars, history
  <2>5. UNCHANGED row \/ ChargeMovesRow(e.s)
    BY <1>1, <2>3, <2>4 DEF ChargeMovesRow
  <2>6. QED
    BY <2>1, <2>4, <2>5 DEF ChargeMovesOne
<1>2. ASSUME NEW h \in Hook, HookStep(h)
      PROVE  ChargeMovesOne
  BY <1>1, <1>2
  DEF HookStep, SettlementInvoicePaid, SettlementInvoiceFailed, Deliver, WriteAudit,
      HookStops, tables, stripeVars, history, ChargeMovesOne
<1>3. ASSUME NEW s \in Settlement, ClaimGoesStale(s)
      PROVE  ChargeMovesRow(s)
  BY <1>3
  DEF ClaimGoesStale, ChargeMovesRow, ChargeTypeOK, TablesTypeOK, Row, stripeVars
<1>4. ASSUME NEW s \in Settlement, PaidOutOfBand(s)
      PROVE  ChargeMovesInvoices(s)
  BY <1>4, OnePayment DEF PaidOutOfBand, ChargeTypeOK, tables, history
<1>5. ASSUME NEW s \in Settlement, KeysForgotten(s)
      PROVE  ChargeLapses(s) \/ UNCHANGED <<row, invoices, lapses>>
  BY <1>5 DEF KeysForgotten, ExpireKeys, ChargeLapses, tables
<1>6. QED
  BY <1>2, <1>3, <1>4, <1>5, RunMovesOne
  DEF ChargeNext, chargeVars, Environment, SelectCandidate, Crash,
      ChangeSubscriber, ToggleCharging, tables, stripeVars, history, ChargeMovesOne

-----------------------------------------------------------------------------
(* The charge keeps the invariant.                                         *)

(* A paid invoice stays paid, so money that is there stays there.          *)
LEMMA ChargeKeepsMoney ==
  ASSUME ChargeTypeOK, [ChargeNext]_chargeVars, NEW s \in Settlement, HasMoney(s)
  PROVE  HasMoney(s)'
BY InvoicesProgress DEF HasMoney, PaidInvoices, Collected

(* And a row that comes to say 'paid' has it.                              *)
LEMMA PaidBringsMoney ==
  ASSUME LifeInv, [ChargeNext]_chargeVars, NEW s \in Settlement,
         row'[s].status = "paid"
  PROVE  HasMoney(s)'
<1>1. RowStaysTrue(s) /\ ChargeTypeOK /\ ChargeTypeOK'
  BY RowsStep, KnowledgeStep DEF LifeInv, KnowledgeInv
<1>2. CASE row[s].status = "paid"
  BY <1>1, <1>2, ChargeKeepsMoney DEF LifeInv, RefundsHaveMoney
<1>3. CASE row'[s].invoice # NoInvoice /\ Collected(s, row[s].invoice)'
  <2>1. row'[s].invoice \in Slot
    BY <1>1, <1>3 DEF ChargeTypeOK, TablesTypeOK, Row
  <2>2. QED
    BY <1>3, <2>1 DEF Collected, HasMoney, PaidInvoices
<1>4. QED
  BY <1>1, <1>2, <1>3 DEF RowStaysTrue

(* A step of the charge keeps the whole invariant.                         *)
LEMMA ChargeKeepsLifeInv ==
  ASSUME LifeInv, [ChargeNext]_chargeVars, UNCHANGED refundLocals
  PROVE  LifeInv'
<1> USE DEF LifeInv
<1>1. KnowledgeInv' /\ InvoicesWithinLapses'
  BY KnowledgeStep, LapseStep DEF KnowledgeInv
<1>2. RefundTypeInv'
  BY <1>1
  DEF KnowledgeInv, ChargeTypeOK, RefundTypeInv, RefundTypeOK,
      RefundHooksCarryEvents, refundLocals, stripeRefundVars
<1>3. ASSUME NEW s \in Settlement, row'[s].status \in {"refund_pending", "refunded"}
      PROVE  row[s].status = row'[s].status
  BY <1>3, ChargeMoves
  DEF KnowledgeInv, ChargeMovesOne, ChargeMovesRow, ChargeMovesInvoices, ChargeLapses
<1>4. TruthInv'
  BY <1>3
  DEF TruthInv, AnswersAreTrue, CallsKnowTheTruth, RefundedIsReturned, Returned,
      refundLocals, stripeRefundVars
<1>5. RefundsHaveMoney'
  <2>1. \A s \in Settlement : RefundsOnFile(s)' = RefundsOnFile(s)
    BY DEF RefundsOnFile, refundLocals
  <2>2. \A c \in Caller : call[c] # IdleCall => call[c].s \in Settlement
    BY DEF RefundTypeInv, RefundTypeOK, Calling
  <2>3. \A s \in Settlement : HasMoney(s) => HasMoney(s)'
    BY ChargeKeepsMoney DEF KnowledgeInv
  <2>4. \A s \in Settlement : row'[s].status = "paid" => HasMoney(s)'
    BY PaidBringsMoney
  <2>5. call' = call
    BY DEF refundLocals
  <2>6. QED
    BY <1>3, <2>1, <2>2, <2>3, <2>4, <2>5 DEF RefundsHaveMoney
<1>6. RefundsAreOnFile' /\ RefundsInOrder'
  BY DEF RefundsAreOnFile, RefundsInOrder, RefundsOnFile, refundLocals,
         stripeRefundVars
<1>7. QED
  BY <1>1, <1>2, <1>4, <1>5, <1>6

-----------------------------------------------------------------------------
(* What a step of a refund does: it moves the row, the refund rows or the  *)
(* refunds of one settlement, whose money is there.                        *)

RefundMovesRow(s) ==
  /\ HasMoney(s)
  /\ \A q \in Settlement \ {s} : row'[q] = row[q]
  /\ row'[s].invoice = row[s].invoice
  /\ \/ row'[s].status = row[s].status
     \/ row'[s].status = "refund_pending" /\ row[s].status = "paid"
     \/ row'[s].status \in {"paid", "refunded"}
  /\ UNCHANGED <<refunds, refundEvents, refundRows>>

RefundMovesRows(s) ==
  /\ HasMoney(s)
  /\ \A q \in Settlement \ {s} : refundRows'[q] = refundRows[q]
  /\ RefundsOnFile(s) \subseteq RefundsOnFile(s)'
  /\ UNCHANGED <<row, refunds, refundEvents>>

(* One refund that has not succeeded changes, a new one only when all      *)
(* earlier ones have failed.                                               *)
RefundMovesRefund(s) ==
  /\ RefundsOnFile(s) # {}
  /\ UNCHANGED <<row, refundRows>>
  /\ \E k \in RefundSlot, status \in RefundStatus :
       /\ refunds' = [refunds EXCEPT ![s][k] = status]
       /\ \/ refunds[s][k] = "pending"
          \/ /\ refunds[s][k] = "none"
             /\ \A i \in 1..(k - 1) : refunds[s][i] = "failed"
  /\ \A e \in refundEvents' \ refundEvents : e.s = s

RefundMovesOne ==
  \/ UNCHANGED <<row, refunds, refundEvents, refundRows>>
  \/ \E s \in Settlement :
       RefundMovesRow(s) \/ RefundMovesRows(s) \/ RefundMovesRefund(s)

(* Writing a status into a refund row keeps every row on file.             *)
LEMMA RowsStayOnFile ==
  ASSUME refundRows \in [Settlement -> [RefundRowSlot -> RefundRow]],
         NEW s \in Settlement, NEW j, NEW y, y.status # "none",
         refundRows' = [refundRows EXCEPT ![s][j] = y]
  PROVE  RefundsOnFile(s) \subseteq RefundsOnFile(s)'
<1>1. refundRows'[s] = [refundRows[s] EXCEPT ![j] = y]
  OBVIOUS
<1>2. ASSUME NEW i \in RefundRowSlot, refundRows[s][i].status # "none"
      PROVE  refundRows'[s][i].status # "none"
  BY <1>1, <1>2
<1>3. QED
  BY <1>2 DEF RefundsOnFile

(* What a call does.                                                       *)
LEMMA CallMovesOne ==
  ASSUME LifeInv, NEW c \in Caller, CallStep(c)
  PROVE  RefundMovesOne
<1>1. call[c] \in Calling /\ call[c] # IdleCall
  <2>1. call[c].pc # "idle"
    BY DEF CallStep, CheckGates, ResumeInflight, NothingInflight, SumReserved,
           ClaimForRefund, LoseRefundClaim, InsertRefundRow, AskStripe, StripeThrows,
           WriteRefundRow, SettleSettlement
  <2>2. QED
    BY <2>1, BusyCall DEF LifeInv, RefundTypeInv, IdleCall
<1>2. PICK s \in Settlement : s = call[c].s /\ HasMoney(s)
  BY <1>1 DEF Calling, LifeInv, RefundsHaveMoney
<1>3. /\ row \in [Settlement -> Row]
      /\ refunds \in [Settlement -> [RefundSlot -> RefundStatus \cup {"none"}]]
      /\ refundRows \in [Settlement -> [RefundRowSlot -> RefundRow]]
  BY DEF LifeInv, RefundTypeInv, RefundTypeOK, TablesTypeOK
<1>4. CASE ClaimForRefund(c)
  <2>1. /\ row' = [row EXCEPT ![s].status = "refund_pending", ![s].claim = "fresh"]
        /\ row[s].status \in {"paid", "refund_pending"}
        /\ UNCHANGED <<refunds, refundEvents, refundRows>>
    BY <1>2, <1>4 DEF ClaimForRefund, RefundClaimable, stripeRefundVars
  <2>2. RefundMovesRow(s)
    BY <1>2, <1>3, <2>1 DEF RefundMovesRow, Row
  <2>3. QED
    BY <1>2, <2>2 DEF RefundMovesOne
<1>5. CASE SettleSettlement(c)
  <2>1. /\ row' = [row EXCEPT ![s].status = SettledStatus(call[c].result)]
        /\ UNCHANGED <<refunds, refundEvents, refundRows>>
    BY <1>2, <1>5 DEF SettleSettlement, stripeRefundVars
  <2>2. RefundMovesRow(s)
    BY <1>2, <1>3, <2>1 DEF RefundMovesRow, Row, SettledStatus
  <2>3. QED
    BY <1>2, <2>2 DEF RefundMovesOne
<1>6. CASE InsertRefundRow(c)
  <2>1. PICK j \in RefundRowSlot :
          refundRows' = [refundRows EXCEPT ![s][j].status = "pending"]
    BY <1>2, <1>6 DEF InsertRefundRow
  <2> DEFINE y == [refundRows[s][j] EXCEPT !.status = "pending"]
  <2>2. RefundsOnFile(s) \subseteq RefundsOnFile(s)'
    <3>1. refundRows' = [refundRows EXCEPT ![s][j] = y]
      BY <2>1
    <3>2. y.status # "none"
      BY <1>2, <1>3 DEF RefundRow
    <3> HIDE DEF y
    <3>3. QED
      BY <1>2, <1>3, <3>1, <3>2, RowsStayOnFile
  <2>3. RefundMovesRows(s)
    BY <1>2, <1>3, <1>6, <2>1, <2>2
    DEF RefundMovesRows, InsertRefundRow, stripeRefundVars
  <2>4. QED
    BY <1>2, <2>3 DEF RefundMovesOne
<1>7. CASE WriteRefundRow(c)
  <2>1. PICK j : j = call[c].j /\ call[c].result # "none"
    BY <1>7 DEF WriteRefundRow, LifeInv, RefundsAreOnFile
  <2> DEFINE y == [status |-> call[c].result,
                   refund |-> IF call[c].refund = NoRefund
                              THEN refundRows[s][j].refund ELSE call[c].refund]
  <2>2. UNCHANGED refundRows \/ refundRows' = [refundRows EXCEPT ![s][j] = y]
    BY <1>2, <1>7, <2>1 DEF WriteRefundRow
  <2>3. RefundsOnFile(s) \subseteq RefundsOnFile(s)'
    <3>1. CASE UNCHANGED refundRows
      BY <3>1 DEF RefundsOnFile
    <3>2. CASE refundRows' = [refundRows EXCEPT ![s][j] = y]
      <4>1. y.status # "none"
        BY <2>1
      <4> HIDE DEF y
      <4>2. QED
        BY <1>2, <1>3, <3>2, <4>1, RowsStayOnFile
    <3>3. QED
      BY <2>2, <3>1, <3>2
  <2>4. RefundMovesRows(s)
    BY <1>2, <1>3, <1>7, <2>2, <2>3
    DEF RefundMovesRows, WriteRefundRow, stripeRefundVars
  <2>5. QED
    BY <1>2, <2>4 DEF RefundMovesOne
<1>8. CASE AskStripe(c) \/ StripeThrows(c)
  <2>1. RefundsOnFile(s) # {}
    BY <1>2, <1>8 DEF AskStripe, StripeThrows, LifeInv, RefundsAreOnFile
  <2>2. UNCHANGED <<row, refundRows>>
    BY <1>8 DEF AskStripe, StripeThrows
  <2>3. \/ UNCHANGED <<refunds, refundEvents>>
        \/ \E a \in Answer : NewRefund(s, a)
    BY <1>2, <1>8 DEF AskStripe, StripeThrows, CreateRefund, stripeRefundVars
  <2>4. CASE \E a \in Answer : NewRefund(s, a)
    <3>1. PICK a \in Answer : NewRefund(s, a)
      BY <2>4
    <3>2. \A e \in refundEvents' \ refundEvents : e.s = s
      BY <3>1 DEF NewRefund, Announce
    <3>3. RefundMovesRefund(s)
      BY <2>1, <2>2, <3>1, <3>2 DEF NewRefund, RefundMovesRefund
    <3>4. QED
      BY <1>2, <3>3 DEF RefundMovesOne
  <2>5. QED
    BY <2>2, <2>3, <2>4 DEF RefundMovesOne
<1>9. QED
  BY <1>4, <1>5, <1>6, <1>7, <1>8
  DEF CallStep, CheckGates, ResumeInflight, NothingInflight, SumReserved,
      LoseRefundClaim, Proceed, Return, stripeRefundVars, RefundMovesOne

(* What a webhook does: its event is that of a refund, which was asked for *)
(* when a row was on file.                                                 *)
LEMMA RefundHookMovesOne ==
  ASSUME LifeInv, NEW h \in RefundHook, RefundHookStep(h)
  PROVE  RefundMovesOne
<1>1. PICK e \in refundEvents :
        e = refundHook[h].event /\ refundHook[h] \in RefundHandling
  BY BusyRefundHook
  DEF LifeInv, RefundHookStep, SettleFromWebhook, MoveRefundRow, AuditRefund
<1>2. e.s \in Settlement /\ e.status \in {"succeeded", "failed"}
  BY <1>1 DEF RefundHandling, RefundEvent
<1>3. HasMoney(e.s)
  BY <1>1, <1>2 DEF LifeInv, RefundsAreOnFile, RefundsHaveMoney
<1>4. /\ row \in [Settlement -> Row]
      /\ refundRows \in [Settlement -> [RefundRowSlot -> RefundRow]]
  BY DEF LifeInv, RefundTypeInv, RefundTypeOK, TablesTypeOK
<1>5. CASE SettleFromWebhook(h)
  <2>1. /\ \/ row' = row
           \/ row' = [row EXCEPT ![e.s].status = SettledStatus(e.status)]
        /\ UNCHANGED <<refunds, refundEvents, refundRows>>
    BY <1>1, <1>5 DEF SettleFromWebhook, stripeRefundVars
  <2>2. RefundMovesRow(e.s)
    BY <1>2, <1>3, <1>4, <2>1 DEF RefundMovesRow, Row, SettledStatus
  <2>3. QED
    BY <1>2, <2>2 DEF RefundMovesOne
<1>6. CASE MoveRefundRow(h)
  <2>1. PICK j \in RefundRowSlot :
          refundRows' = [refundRows EXCEPT ![e.s][j].status = e.status]
    BY <1>1, <1>6 DEF MoveRefundRow, RefundHandling
  <2> DEFINE y == [refundRows[e.s][j] EXCEPT !.status = e.status]
  <2>2. RefundsOnFile(e.s) \subseteq RefundsOnFile(e.s)'
    <3>1. refundRows' = [refundRows EXCEPT ![e.s][j] = y]
      BY <2>1
    <3>2. y.status # "none"
      BY <1>1, <1>2, <1>4 DEF RefundHandling, RefundRow
    <3> HIDE DEF y
    <3>3. QED
      BY <1>2, <1>4, <3>1, <3>2, RowsStayOnFile
  <2>3. RefundMovesRows(e.s)
    BY <1>2, <1>3, <1>4, <1>6, <2>1, <2>2
    DEF RefundMovesRows, MoveRefundRow, stripeRefundVars
  <2>4. QED
    BY <1>2, <2>3 DEF RefundMovesOne
<1>7. QED
  BY <1>5, <1>6 DEF RefundHookStep, AuditRefund, stripeRefundVars, RefundMovesOne

(* Every step of a refund moves one settlement, or none.                   *)
LEMMA RefundMoves ==
  ASSUME LifeInv, RefundStep
  PROVE  RefundMovesOne
<1>1. ASSUME NEW s \in Settlement, StripeSettlesRefund(s)
      PROVE  RefundMovesRefund(s)
  <2>1. PICK k \in RefundSlot, status \in {"succeeded", "failed"} :
          /\ refunds[s][k] = "pending"
          /\ refunds' = [refunds EXCEPT ![s][k] = status]
          /\ refundEvents' = Announce(s, [refund |-> k, status |-> status])
    BY <1>1 DEF StripeSettlesRefund
  <2>2. \A e \in refundEvents' \ refundEvents : e.s = s
    BY <2>1 DEF Announce
  <2>3. RefundsOnFile(s) # {}
    BY <2>1 DEF LifeInv, RefundsAreOnFile
  <2>4. QED
    BY <1>1, <2>1, <2>2, <2>3 DEF StripeSettlesRefund, RefundMovesRefund, RefundStatus
<1>2. ASSUME NEW s \in Settlement, RefundClaimGoesStale(s)
      PROVE  RefundMovesRow(s)
  BY <1>2
  DEF RefundClaimGoesStale, RefundMovesRow, LifeInv, RefundsHaveMoney, RefundTypeInv,
      RefundTypeOK, TablesTypeOK, Row, refundLocals, stripeRefundVars
<1>3. QED
  BY <1>1, <1>2, CallMovesOne, RefundHookMovesOne
  DEF RefundStep, LoadSettlement, CallerStops, DeliverRefundEvent, RefundHookStops,
      RefundKeyForgotten, ToggleRefunds, stripeRefundVars, RefundMovesOne

-----------------------------------------------------------------------------
(* A refund keeps the invariant.                                           *)

(* A call begins on a paid settlement or one in flight; it asks Stripe     *)
(* with a row on file, and comes back with a result.                       *)
LEMMA CallsKeep ==
  ASSUME LifeInv, RefundStep, NEW c \in Caller, call'[c] # IdleCall,
         NEW s \in Settlement, s = call'[c].s
  PROVE  /\ \/ call[c] # IdleCall /\ call[c].s = s
            \/ row[s].status \in {"paid", "refund_pending"}
         /\ call'[c].pc = "stripe" => RefundsOnFile(s)' # {}
         /\ call'[c].pc = "row" => call'[c].result # "none"
<1>1. CASE call'[c] = call[c]
  <2>1. RefundsOnFile(s) # {} => RefundsOnFile(s)' # {}
    BY RefundMoves
    DEF RefundMovesOne, RefundMovesRow, RefundMovesRows, RefundMovesRefund,
        RefundsOnFile
  <2>2. QED
    BY <1>1, <2>1 DEF LifeInv, RefundsAreOnFile
<1>2. call \in [Caller -> Calling \cup {IdleCall}]
  BY DEF LifeInv, RefundTypeInv, RefundTypeOK
<1>3. CASE \E q \in Settlement : LoadSettlement(c, q)
  BY <1>2, <1>3 DEF LoadSettlement
<1>4. CASE CallStep(c)
  <2>1. call[c] \in Calling /\ call[c] # IdleCall
    <3>1. call[c].pc # "idle"
      BY <1>4
      DEF CallStep, CheckGates, ResumeInflight, NothingInflight, SumReserved,
          ClaimForRefund, LoseRefundClaim, InsertRefundRow, AskStripe, StripeThrows,
          WriteRefundRow, SettleSettlement
    <3>2. QED
      BY <3>1, BusyCall DEF LifeInv, RefundTypeInv, IdleCall
  <2>2. CASE CheckGates(c) \/ NothingInflight(c) \/ SumReserved(c) \/ LoseRefundClaim(c)
    BY <1>2, <2>1, <2>2
    DEF CheckGates, NothingInflight, SumReserved, LoseRefundClaim, Proceed, Return,
        Calling
  <2>3. CASE ClaimForRefund(c) \/ SettleSettlement(c)
    BY <1>2, <2>1, <2>3 DEF ClaimForRefund, SettleSettlement, Calling
  <2>4. CASE ResumeInflight(c)
    <3>1. PICK j \in InflightRows(call[c].s) :
            call' = [call EXCEPT ![c].pc = "stripe", ![c].j = j]
      BY <2>4 DEF ResumeInflight
    <3>2. call'[c].pc = "stripe" /\ call[c].s = s
      BY <1>2, <2>1, <3>1 DEF Calling
    <3>3. RefundsOnFile(s)' # {}
      BY <2>4, <3>1, <3>2 DEF ResumeInflight, InflightRows, RefundsOnFile
    <3>4. QED
      BY <2>1, <3>2, <3>3
  <2>5. CASE InsertRefundRow(c)
    <3>1. PICK j \in RefundRowSlot :
            /\ refundRows' = [refundRows EXCEPT ![call[c].s][j].status = "pending"]
            /\ call' = [call EXCEPT ![c].pc = "stripe", ![c].j = j]
      BY <2>5 DEF InsertRefundRow
    <3>2. call'[c].pc = "stripe" /\ call[c].s = s
      BY <1>2, <2>1, <3>1 DEF Calling
    <3>3. refundRows'[s][j].status = "pending"
      <4>1. refundRows[s] \in [RefundRowSlot -> RefundRow]
        BY DEF LifeInv, RefundTypeInv, RefundTypeOK
      <4>2. refundRows'[s] =
              [refundRows[s] EXCEPT
                 ![j] = [refundRows[s][j] EXCEPT !.status = "pending"]]
        BY <3>1, <3>2 DEF LifeInv, RefundTypeInv, RefundTypeOK
      <4>3. QED
        BY <4>1, <4>2 DEF RefundRow
    <3>4. QED
      BY <2>1, <3>2, <3>3 DEF RefundsOnFile
  <2>6. CASE AskStripe(c)
    BY <1>2, <2>1, <2>6 DEF AskStripe, Answer, RefundStatus, Calling
  <2>7. CASE StripeThrows(c)
    BY <1>2, <2>1, <2>7 DEF StripeThrows, Calling
  <2>8. CASE WriteRefundRow(c)
    BY <1>2, <2>1, <2>8 DEF WriteRefundRow, Calling
  <2>9. QED
    BY <1>4, <2>2, <2>3, <2>4, <2>5, <2>6, <2>7, <2>8 DEF CallStep
<1>5. ASSUME NEW d \in Caller \ {c},
             \/ \E q \in Settlement : LoadSettlement(d, q)
             \/ CallStep(d) \/ CallerStops(d)
      PROVE  call'[c] = call[c]
  BY <1>2, <1>5
  DEF CallStep, LoadSettlement, CallerStops, CheckGates, ResumeInflight,
      NothingInflight, SumReserved, ClaimForRefund, LoseRefundClaim, InsertRefundRow,
      AskStripe, StripeThrows, WriteRefundRow, SettleSettlement, Proceed, Return
<1>6. CASE CallerStops(c)
  BY <1>2, <1>6 DEF CallerStops
<1>7. QED
  BY <1>1, <1>3, <1>4, <1>5, <1>6
  DEF RefundStep, DeliverRefundEvent, RefundHookStep, SettleFromWebhook,
      MoveRefundRow, AuditRefund, RefundHookStops, StripeSettlesRefund,
      RefundKeyForgotten, RefundClaimGoesStale, ToggleRefunds, refundLocals

(* New refunds come in order.                                              *)
LEMMA RefundsStayInOrder ==
  ASSUME RefundTypeOK, RefundsInOrder, NEW s \in Settlement, RefundMovesRefund(s)
  PROVE  RefundsInOrder' /\ DoneRefunds(s) \subseteq DoneRefunds(s)'
<1>1. PICK k \in RefundSlot, status \in RefundStatus :
        /\ refunds' = [refunds EXCEPT ![s][k] = status]
        /\ \/ refunds[s][k] = "pending"
           \/ /\ refunds[s][k] = "none"
              /\ \A i \in 1..(k - 1) : refunds[s][i] = "failed"
  BY DEF RefundMovesRefund
<1>2. /\ refunds'[s] = [refunds[s] EXCEPT ![k] = status]
      /\ \A q \in Settlement \ {s} : refunds'[q] = refunds[q]
      /\ refunds[s] \in [RefundSlot -> RefundStatus \cup {"none"}]
  BY <1>1 DEF RefundTypeOK
<1>3. \A i \in RefundSlot : i # k => refunds'[s][i] = refunds[s][i]
  BY <1>2
<1>4. refunds[s][k] # "succeeded" /\ refunds[s][k] # "failed"
  BY <1>1
<1>5. DoneRefunds(s) \subseteq DoneRefunds(s)'
  BY <1>3, <1>4 DEF DoneRefunds
<1>6. ASSUME NEW q \in Settlement, NEW m \in RefundSlot, refunds'[q][m] # "none",
             NEW i \in 1..(m - 1)
      PROVE  refunds'[q][i] = "failed"
  <2>1. i \in RefundSlot /\ i # m
    BY RefundAssumption DEF RefundSlot
  <2>2. CASE q # s
    BY <1>2, <1>6, <2>2 DEF RefundsInOrder
  <2>3. CASE q = s /\ m = k
    <3>1. refunds[s][i] = "failed"
      BY <1>1, <1>6, <2>3 DEF RefundsInOrder
    <3>2. QED
      BY <1>3, <2>1, <2>3, <3>1
  <2>4. CASE q = s /\ m # k
    <3>1. refunds[s][m] # "none"
      BY <1>3, <1>6, <2>4
    <3>2. refunds[s][i] = "failed"
      BY <3>1 DEF RefundsInOrder
    <3>3. QED
      BY <1>3, <1>4, <2>1, <2>4, <3>2
  <2>5. QED
    BY <2>2, <2>3, <2>4
<1>7. QED
  BY <1>5, <1>6 DEF RefundsInOrder

(* A step of a refund keeps the whole invariant.                           *)
LEMMA RefundKeepsLifeInv ==
  ASSUME LifeInv, RefundStep, UNCHANGED chargeLocals
  PROVE  LifeInv'
<1>1. RefundTypeInv' /\ TruthInv'
  BY RefundTypeStep, TruthStep DEF LifeInv, RefundNext
<1>2. UNCHANGED <<invoices, liveKey, run, hook, events, lapses>>
  BY DEF chargeLocals, stripeVars, history
<1>3. RefundMovesOne
  BY RefundMoves
<1>4. \A s \in Settlement : /\ row'[s].invoice = row[s].invoice
                            /\ HasMoney(s)' = HasMoney(s)
  BY <1>2, <1>3
  DEF RefundMovesOne, RefundMovesRow, RefundMovesRows, RefundMovesRefund, HasMoney,
      PaidInvoices
<1>5. ASSUME NEW s \in Settlement
      PROVE  \/ row'[s].status = row[s].status
             \/ HasMoney(s)
  BY <1>3 DEF RefundMovesOne, RefundMovesRow, RefundMovesRows, RefundMovesRefund
<1>6. KnowledgeInv'
  <2>1. ChargeTypeOK'
    BY <1>1 DEF LifeInv, KnowledgeInv, ChargeTypeOK, HistoryTypeOK, StripeTypeOK,
                RefundTypeInv, RefundTypeOK, chargeLocals, stripeVars, history
  <2>2. StoredInvoiceIsFinalized'
    BY <1>2, <1>4 DEF LifeInv, KnowledgeInv, StoredInvoiceIsFinalized, Finalized
  <2>3. RunsTellTheTruth' /\ EventsTellTheTruth' /\ HooksCarryEvents'
    BY <1>2 DEF LifeInv, KnowledgeInv, RunsTellTheTruth, EventsTellTheTruth,
                HooksCarryEvents, Finalized, Collected
  <2>4. QED
    BY <2>1, <2>2, <2>3 DEF KnowledgeInv
<1>7. InvoicesWithinLapses'
  BY <1>2, <1>4 DEF LifeInv, InvoicesWithinLapses, Unrecorded
<1>8. RefundsHaveMoney'
  <2>1. ASSUME NEW s \in Settlement,
               row'[s].status \in {"paid", "refund_pending", "refunded"}
        PROVE  HasMoney(s)
    BY <1>5, <2>1 DEF LifeInv, RefundsHaveMoney
  <2>2. ASSUME NEW s \in Settlement, RefundsOnFile(s)' # {}
        PROVE  HasMoney(s)
    <3>1. RefundsOnFile(s) # {} \/ HasMoney(s)
      BY <1>3, <2>2 DEF RefundMovesOne, RefundMovesRow, RefundMovesRows,
                        RefundMovesRefund, RefundsOnFile
    <3>2. QED
      BY <3>1 DEF LifeInv, RefundsHaveMoney
  <2>3. ASSUME NEW c \in Caller, call'[c] # IdleCall, NEW s \in Settlement,
               s = call'[c].s
        PROVE  HasMoney(s)
    <3>1. \/ call[c] # IdleCall /\ call[c].s = s
          \/ row[s].status \in {"paid", "refund_pending"}
      BY <2>3, CallsKeep
    <3>2. QED
      BY <3>1 DEF LifeInv, RefundsHaveMoney
  <2>4. \A c \in Caller : call'[c] # IdleCall => call'[c].s \in Settlement
    BY <1>1 DEF RefundTypeInv, RefundTypeOK, Calling
  <2>5. QED
    BY <1>4, <2>1, <2>2, <2>3, <2>4 DEF RefundsHaveMoney
<1>9. RefundsAreOnFile'
  <2>1. ASSUME NEW s \in Settlement, RefundsOnFile(s) # {}
        PROVE  RefundsOnFile(s)' # {}
    BY <1>3, <2>1 DEF RefundMovesOne, RefundMovesRow, RefundMovesRows,
                      RefundMovesRefund, RefundsOnFile
  <2>2. ASSUME NEW s \in Settlement, NEW k \in RefundSlot, refunds'[s][k] # "none"
        PROVE  RefundsOnFile(s) # {}
    <3>1. CASE refunds'[s] = refunds[s]
      BY <2>2, <3>1 DEF LifeInv, RefundsAreOnFile
    <3>2. CASE refunds'[s] # refunds[s]
      BY <1>3, <3>2
      DEF RefundMovesOne, RefundMovesRow, RefundMovesRows, RefundMovesRefund, LifeInv,
          RefundTypeInv, RefundTypeOK
    <3>3. QED
      BY <3>1, <3>2
  <2>3. ASSUME NEW e \in refundEvents'
        PROVE  e.s \in Settlement /\ RefundsOnFile(e.s) # {}
    <3>1. e.s \in Settlement
      BY <1>1 DEF RefundTypeInv, RefundTypeOK, RefundEvent
    <3>2. QED
      BY <1>3, <3>1
      DEF RefundMovesOne, RefundMovesRow, RefundMovesRows, RefundMovesRefund, LifeInv,
          RefundsAreOnFile
  <2>4. ASSUME NEW c \in Caller, call'[c] # IdleCall
        PROVE  /\ call'[c].pc = "stripe" => RefundsOnFile(call[c].s)' # {}
               /\ call'[c].pc = "row" => call'[c].result # "none"
    <3>1. PICK s \in Settlement : s = call'[c].s
      BY <1>1, <2>4 DEF RefundTypeInv, RefundTypeOK, Calling
    <3>2. QED
      BY <2>4, <3>1, CallsKeep DEF RefundsOnFile
  <2>5. QED
    BY <2>1, <2>2, <2>3, <2>4 DEF RefundsAreOnFile, IdleCall, RefundsOnFile
<1>10. RefundsInOrder'
  <2>1. CASE UNCHANGED refunds
    BY <2>1 DEF LifeInv, RefundsInOrder
  <2>2. CASE \E s \in Settlement : RefundMovesRefund(s)
    BY <2>2, RefundsStayInOrder DEF LifeInv, RefundTypeInv
  <2>3. QED
    BY <1>3, <2>1, <2>2 DEF RefundMovesOne, RefundMovesRow, RefundMovesRows
<1>11. QED
  BY <1>1, <1>6, <1>7, <1>8, <1>9, <1>10 DEF LifeInv

(* In every reachable state the charge and the refund of a settlement have *)
(* what they need of each other.                                           *)
THEOREM LifecycleInvariant == LifecycleSpec => []LifeInv
<1>1. LifeInv /\ [LifecycleNext]_lifecycleVars => LifeInv'
  <2> SUFFICES ASSUME LifeInv, [LifecycleNext]_lifecycleVars PROVE LifeInv'
    OBVIOUS
  <2>1. CASE RefundStep /\ UNCHANGED chargeLocals
    BY <2>1, RefundKeepsLifeInv
  <2>2. CASE ChargeNext /\ UNCHANGED refundLocals
    BY <2>2, ChargeKeepsLifeInv
  <2>3. CASE UNCHANGED lifecycleVars
    <3>1. UNCHANGED chargeVars /\ UNCHANGED refundLocals
      BY <2>3 DEF lifecycleVars, chargeLocals, chargeVars
    <3>2. QED
      BY <3>1, ChargeKeepsLifeInv
  <2>4. QED
    BY <2>1, <2>2, <2>3 DEF LifecycleNext
<1>2. QED
  BY LifeInit, <1>1, PTL DEF LifecycleSpec

(* The tables, Stripe's side and every run, call and webhook stay well     *)
(* typed when the charge and the refund share them.                        *)
THEOREM LifecycleTypeCorrect == LifecycleSpec => []LifecycleTypeOK
<1>1. LifeInv => LifecycleTypeOK
  BY DEF LifeInv, KnowledgeInv, RefundTypeInv, LifecycleTypeOK
<1>2. QED
  BY LifecycleInvariant, <1>1, PTL

(* Whatever is refunded meanwhile, a settlement is charged once, and once  *)
(* more at most for each time Stripe forgot a charge not on record; and    *)
(* 'refunded' stands for returned money.                                   *)
THEOREM LifecycleMoney == LifecycleSpec => [](ChargedOnce /\ RefundedIsReturned)
<1>1. LifeInv => ChargedOnce /\ RefundedIsReturned
  BY LapsesBoundCharges DEF LifeInv, KnowledgeInv, TruthInv, ChargedOnce
<1>2. QED
  BY LifecycleInvariant, <1>1, PTL

-----------------------------------------------------------------------------
(* Every step is one of FeeCollection's.                                   *)

(* How often the money came, and how far it is on its way back: at most    *)
(* once, so that BackOf is never "twice".                                  *)
Charges(s) == Cardinality(PaidInvoices(s))

MoneyCounts ==
  \A s \in Settlement :
    /\ IsFiniteSet(PaidInvoices(s)) /\ Charges(s) \in Nat
    /\ Charges(s) <= 1 + lapses[s]
    /\ PaidInvoices(s) # {} => Charges(s) > 0
    /\ BackOf(s) = IF DoneRefunds(s) # {} THEN "returned"
                   ELSE IF RefundsOnFile(s) # {} THEN "recalled" ELSE "none"

LEMMA MoneyIsCounted == LifeInv => MoneyCounts
<1> SUFFICES ASSUME LifeInv, NEW s \in Settlement
             PROVE  /\ IsFiniteSet(PaidInvoices(s)) /\ Charges(s) \in Nat
                    /\ Charges(s) <= 1 + lapses[s]
                    /\ PaidInvoices(s) # {} => Charges(s) > 0
                    /\ ~MovedTwice(DoneRefunds(s))
  BY DEF MoneyCounts, BackOf
<1>1. /\ IsFiniteSet(PaidInvoices(s)) /\ Charges(s) \in Nat
      /\ Charges(s) <= 1 + lapses[s]
  BY LapsesBoundCharges DEF LifeInv, KnowledgeInv, Charges
<1>2. PaidInvoices(s) # {} => Charges(s) > 0
  BY <1>1, FS_EmptySet DEF Charges
<1>3. ASSUME NEW a \in DoneRefunds(s), NEW b \in DoneRefunds(s), a # b
      PROVE  FALSE
  <2>1. a \in RefundSlot /\ b \in RefundSlot
    BY DEF DoneRefunds
  <2>2. a \in 1..(b - 1) \/ b \in 1..(a - 1)
    BY <1>3, <2>1, RefundAssumption DEF RefundSlot
  <2>3. QED
    BY <2>1, <2>2 DEF DoneRefunds, LifeInv, RefundsInOrder
<1>4. QED
  BY <1>1, <1>2, <1>3 DEF MovedTwice

(* A step that changes what one row says is a Say.                         *)
LEMMA SayRefines ==
  ASSUME NEW s \in Settlement, UNCHANGED lapses,
         \A q \in Settlement : Charges(q)' = Charges(q) /\ BackOf(q)' = BackOf(q),
         \A q \in Settlement \ {s} : WordOf(q)' = WordOf(q),
         \/ WordOf(s)' \in {WordOf(s), "open"}
         \/ WordOf(s)' = "paid" /\ Charges(s) > 0
         \/ WordOf(s)' = "returning" /\ WordOf(s) = "paid"
         \/ WordOf(s)' = "refunded" /\ BackOf(s) = "returned"
  PROVE  [Fees!CollectionNext]_(Fees!collectionVars)
<1> DEFINE charges == [q \in Settlement |-> Cardinality(PaidInvoices(q))]
           back == [q \in Settlement |-> BackOf(q)]
           says == [q \in Settlement |-> WordOf(q)]
<1>1. charges' = charges /\ back' = back
  BY DEF Charges
<1>2. says' = [says EXCEPT ![s] = WordOf(s)']
  OBVIOUS
<1>3. charges[s] = Charges(s) /\ back[s] = BackOf(s) /\ says[s] = WordOf(s)
  BY DEF Charges
<1> HIDE DEF charges, back, says
<1>4. CASE WordOf(s)' = WordOf(s)
  <2>1. says' = says
    BY <1>2, <1>3, <1>4 DEF says
  <2>2. QED
    BY <1>1, <2>1 DEF Fees!collectionVars, charges, back, says
<1>5. CASE WordOf(s)' # WordOf(s)
  <2>1. \E word \in Fees!Word :
          Fees!MaySay(s, word) /\ says' = [says EXCEPT ![s] = word]
    BY <1>2, <1>3, <1>5 DEF Fees!Word, Fees!MaySay, charges, back, says
  <2>2. QED
    BY <1>1, <2>1 DEF Fees!CollectionNext, Fees!Say, charges, back, says
<1>6. QED
  BY <1>4, <1>5

(* A step that recalls or returns the money of one settlement.             *)
LEMMA BackRefines ==
  ASSUME NEW s \in Settlement, UNCHANGED lapses,
         \A q \in Settlement : Charges(q)' = Charges(q) /\ WordOf(q)' = WordOf(q),
         \A q \in Settlement \ {s} : BackOf(q)' = BackOf(q),
         \/ BackOf(s)' = BackOf(s)
         \/ BackOf(s) = "none" /\ BackOf(s)' = "recalled" /\ Charges(s) > 0
         \/ BackOf(s) = "recalled" /\ BackOf(s)' = "returned"
  PROVE  [Fees!CollectionNext]_(Fees!collectionVars)
<1> DEFINE charges == [q \in Settlement |-> Cardinality(PaidInvoices(q))]
           back == [q \in Settlement |-> BackOf(q)]
           says == [q \in Settlement |-> WordOf(q)]
<1>1. charges' = charges /\ says' = says
  BY DEF Charges
<1>2. back' = [back EXCEPT ![s] = BackOf(s)']
  OBVIOUS
<1>3. charges[s] = Charges(s) /\ back[s] = BackOf(s)
  BY DEF Charges
<1>4. CASE BackOf(s)' = BackOf(s)
  <2>1. back' = back
    BY <1>4
  <2>2. QED
    BY <1>1, <2>1 DEF Fees!collectionVars
<1> HIDE DEF charges, back, says
<1>5. CASE BackOf(s)' # BackOf(s)
  BY <1>1, <1>2, <1>3, <1>5
  DEF Fees!CollectionNext, Fees!Recall, Fees!Return, charges, back, says
<1>6. QED
  BY <1>4, <1>5

(* A step that pays one invoice is a Collect.                              *)
LEMMA CollectRefines ==
  ASSUME MoneyCounts, MoneyCounts', NEW s \in Settlement, UNCHANGED lapses,
         \A q \in Settlement : BackOf(q)' = BackOf(q) /\ WordOf(q)' = WordOf(q),
         \A q \in Settlement \ {s} : Charges(q)' = Charges(q),
         NEW i \in Slot \ PaidInvoices(s),
         PaidInvoices(s)' = PaidInvoices(s) \cup {i},
         lapses[s] \in Nat
  PROVE  Fees!CollectionNext
<1> DEFINE charges == [q \in Settlement |-> Cardinality(PaidInvoices(q))]
           back == [q \in Settlement |-> BackOf(q)]
           says == [q \in Settlement |-> WordOf(q)]
<1>1. back' = back /\ says' = says
  OBVIOUS
<1>2. Charges(s)' = Charges(s) + 1
  BY FS_AddElement DEF MoneyCounts, Charges
<1>3. Charges(s) \in Nat /\ Charges(s)' <= 1 + lapses[s]
  BY DEF MoneyCounts
<1>4. Charges(s) <= lapses[s]
  BY <1>2, <1>3
<1>5. charges' = [charges EXCEPT ![s] = @ + 1]
  BY <1>2 DEF Charges
<1>6. charges[s] <= lapses[s]
  BY <1>4 DEF Charges
<1> HIDE DEF charges, back, says
<1>7. QED
  BY <1>1, <1>5, <1>6 DEF Fees!CollectionNext, Fees!Collect, charges, back, says

(* A step of the charge: a word that the money covers, a payment, or a     *)
(* lapse.                                                                  *)
LEMMA ChargeRefines ==
  ASSUME LifeInv, LifeInv', MoneyCounts, MoneyCounts', [ChargeNext]_chargeVars,
         UNCHANGED refundLocals
  PROVE  [Fees!CollectionNext]_(Fees!collectionVars)
<1>1. ChargeTypeOK
  BY DEF LifeInv, KnowledgeInv
<1>2. \A s \in Settlement : BackOf(s)' = BackOf(s)
  BY DEF refundLocals, stripeRefundVars, BackOf, DoneRefunds, RefundsOnFile
<1>3. ASSUME NEW s \in Settlement, invoices'[s] = invoices[s]
      PROVE  Charges(s)' = Charges(s)
  BY <1>3 DEF Charges, PaidInvoices
<1>4. ASSUME NEW s \in Settlement, ChargeMovesRow(s)
      PROVE  [Fees!CollectionNext]_(Fees!collectionVars)
  <2>1. \A q \in Settlement : Charges(q)' = Charges(q)
    BY <1>3, <1>4 DEF ChargeMovesRow
  <2>2. \A q \in Settlement \ {s} : WordOf(q)' = WordOf(q)
    BY <1>4 DEF ChargeMovesRow, WordOf
  <2>3. row'[s].status = "paid" => Charges(s) > 0
    <3>1. row'[s].status = "paid" => PaidInvoices(s)' # {}
      BY DEF LifeInv, RefundsHaveMoney, HasMoney
    <3>2. PaidInvoices(s)' = PaidInvoices(s)
      BY <1>4 DEF ChargeMovesRow, PaidInvoices
    <3>3. QED
      BY <3>1, <3>2 DEF MoneyCounts
  <2>4. \/ WordOf(s)' \in {WordOf(s), "open"}
        \/ WordOf(s)' = "paid" /\ Charges(s) > 0
    BY <1>4, <2>3 DEF ChargeMovesRow, WordOf
  <2>5. QED
    BY <1>2, <1>4, <2>1, <2>2, <2>4, SayRefines DEF ChargeMovesRow
<1>5. ASSUME UNCHANGED <<row, lapses>>, \A s \in Settlement : Charges(s)' = Charges(s)
      PROVE  [Fees!CollectionNext]_(Fees!collectionVars)
  <2>1. \A s \in Settlement : WordOf(s)' = WordOf(s)
    BY <1>5 DEF WordOf
  <2>2. QED
    BY <1>2, <1>5, <2>1 DEF Fees!collectionVars, Charges
<1>6. ASSUME NEW s \in Settlement, ChargeMovesInvoices(s)
      PROVE  [Fees!CollectionNext]_(Fees!collectionVars)
  <2>1. \A q \in Settlement : WordOf(q)' = WordOf(q)
    BY <1>6 DEF ChargeMovesInvoices, WordOf
  <2>2. \A q \in Settlement \ {s} : Charges(q)' = Charges(q)
    BY <1>3, <1>6 DEF ChargeMovesInvoices
  <2>3. CASE PaidInvoices(s)' = PaidInvoices(s)
    <3>1. \A q \in Settlement : Charges(q)' = Charges(q)
      BY <2>2, <2>3 DEF Charges
    <3>2. QED
      BY <1>5, <1>6, <3>1 DEF ChargeMovesInvoices
  <2>4. CASE \E i \in Slot \ PaidInvoices(s) :
               PaidInvoices(s)' = PaidInvoices(s) \cup {i}
    <3>1. lapses[s] \in Nat /\ lapses' = lapses
      BY <1>1, <1>6 DEF ChargeMovesInvoices, ChargeTypeOK, HistoryTypeOK
    <3>2. QED
      BY <1>2, <2>1, <2>2, <2>4, <3>1, CollectRefines
  <2>5. QED
    BY <1>6, <2>3, <2>4 DEF ChargeMovesInvoices
<1>7. ASSUME NEW s \in Settlement, ChargeLapses(s)
      PROVE  [Fees!CollectionNext]_(Fees!collectionVars)
  <2>1. \A q \in Settlement : /\ PaidInvoices(q)' = PaidInvoices(q)
                              /\ WordOf(q)' = WordOf(q)
    BY <1>7 DEF ChargeLapses, PaidInvoices, WordOf
  <2>2. Fees!Lapse(s)
    BY <1>2, <1>7, <2>1 DEF Fees!Lapse, ChargeLapses
  <2>3. QED
    BY <2>2 DEF Fees!CollectionNext
<1>8. CASE UNCHANGED <<row, invoices, lapses>>
  <2>1. \A s \in Settlement : Charges(s)' = Charges(s)
    BY <1>3, <1>8
  <2>2. QED
    BY <1>5, <1>8, <2>1
<1>9. QED
  BY <1>1, <1>4, <1>6, <1>7, <1>8, ChargeMoves DEF ChargeMovesOne

(* A step of a refund: a word that the money covers, or the money's way    *)
(* back.                                                                   *)
LEMMA RefundRefines ==
  ASSUME LifeInv, LifeInv', MoneyCounts, MoneyCounts', RefundStep,
         UNCHANGED chargeLocals
  PROVE  [Fees!CollectionNext]_(Fees!collectionVars)
<1>1. /\ UNCHANGED lapses
      /\ \A s \in Settlement : PaidInvoices(s)' = PaidInvoices(s)
                               /\ Charges(s)' = Charges(s)
  BY DEF chargeLocals, history, stripeVars, PaidInvoices, Charges
<1>2. ASSUME NEW s \in Settlement, refunds'[s] = refunds[s],
             refundRows'[s] = refundRows[s]
      PROVE  BackOf(s)' = BackOf(s)
  BY <1>2 DEF BackOf, DoneRefunds, RefundsOnFile
<1>3. ASSUME NEW s \in Settlement, RefundMovesRow(s)
      PROVE  [Fees!CollectionNext]_(Fees!collectionVars)
  <2>1. \A q \in Settlement : BackOf(q)' = BackOf(q)
    BY <1>2, <1>3 DEF RefundMovesRow
  <2>2. \A q \in Settlement \ {s} : WordOf(q)' = WordOf(q)
    BY <1>3 DEF RefundMovesRow, WordOf
  <2>3. Charges(s) > 0
    BY <1>3 DEF RefundMovesRow, HasMoney, MoneyCounts
  <2>4. ASSUME row'[s].status = "refunded"
        PROVE  BackOf(s) = "returned"
    <3>1. DoneRefunds(s)' # {}
      BY <2>4 DEF LifeInv, TruthInv, RefundedIsReturned, DoneRefunds
    <3>2. QED
      BY <2>1, <3>1 DEF MoneyCounts
  <2>5. \/ WordOf(s)' \in {WordOf(s), "open"}
        \/ WordOf(s)' = "paid" /\ Charges(s) > 0
        \/ WordOf(s)' = "returning" /\ WordOf(s) = "paid"
        \/ WordOf(s)' = "refunded" /\ BackOf(s) = "returned"
    BY <1>3, <2>3, <2>4 DEF RefundMovesRow, WordOf
  <2>6. QED
    BY <1>1, <2>1, <2>2, <2>5, SayRefines
<1>4. ASSUME NEW s \in Settlement, RefundMovesRows(s)
      PROVE  [Fees!CollectionNext]_(Fees!collectionVars)
  <2>1. \A q \in Settlement : WordOf(q)' = WordOf(q)
    BY <1>4 DEF RefundMovesRows, WordOf
  <2>2. \A q \in Settlement \ {s} : BackOf(q)' = BackOf(q)
    BY <1>2, <1>4 DEF RefundMovesRows
  <2>3. DoneRefunds(s)' = DoneRefunds(s)
    BY <1>4 DEF RefundMovesRows, DoneRefunds
  <2>4. RefundsOnFile(s) \subseteq RefundsOnFile(s)' /\ Charges(s) > 0
    BY <1>4 DEF RefundMovesRows, HasMoney, MoneyCounts
  <2>5. \/ BackOf(s)' = BackOf(s)
        \/ BackOf(s) = "none" /\ BackOf(s)' = "recalled" /\ Charges(s) > 0
    BY <2>3, <2>4 DEF MoneyCounts
  <2>6. QED
    BY <1>1, <2>1, <2>2, <2>5, BackRefines
<1>5. ASSUME NEW s \in Settlement, RefundMovesRefund(s)
      PROVE  [Fees!CollectionNext]_(Fees!collectionVars)
  <2>1. \A q \in Settlement : WordOf(q)' = WordOf(q)
    BY <1>5 DEF RefundMovesRefund, WordOf
  <2>2. \A q \in Settlement \ {s} : BackOf(q)' = BackOf(q)
    BY <1>2, <1>5
    DEF RefundMovesRefund, LifeInv, RefundTypeInv, RefundTypeOK
  <2>3. DoneRefunds(s) \subseteq DoneRefunds(s)'
    BY <1>5, RefundsStayInOrder DEF LifeInv, RefundTypeInv
  <2>4. RefundsOnFile(s)' = RefundsOnFile(s) /\ RefundsOnFile(s) # {}
    BY <1>5 DEF RefundMovesRefund, RefundsOnFile
  <2>5. \/ BackOf(s)' = BackOf(s)
        \/ BackOf(s) = "recalled" /\ BackOf(s)' = "returned"
    BY <2>3, <2>4 DEF MoneyCounts
  <2>6. QED
    BY <1>1, <2>1, <2>2, <2>5, BackRefines
<1>6. CASE UNCHANGED <<row, refunds, refundEvents, refundRows>>
  <2>1. \A s \in Settlement : BackOf(s)' = BackOf(s) /\ WordOf(s)' = WordOf(s)
    BY <1>2, <1>6 DEF WordOf
  <2>2. QED
    BY <1>1, <2>1 DEF Fees!collectionVars
<1>7. QED
  BY <1>3, <1>4, <1>5, <1>6, RefundMoves DEF RefundMovesOne

(* The charge and the refund implement FeeCollection: however drains,      *)
(* refund calls and webhooks interleave, die and repeat, the fee is        *)
(* collected once, but for the charges that Stripe forgot, recalled and    *)
(* returned once, in this order, a refund starts from 'paid', and no       *)
(* status is ahead of the money.                                           *)
THEOREM LifecycleImplementsFeeCollection == LifecycleSpec => ImplementsFeeCollection
<1>1. LifecycleInit => Fees!CollectionInit
  <2> SUFFICES ASSUME LifecycleInit, NEW s \in Settlement
               PROVE  /\ Cardinality(PaidInvoices(s)) = 0 /\ lapses[s] = 0
                      /\ BackOf(s) = "none" /\ WordOf(s) = "open"
    BY DEF Fees!CollectionInit, LifecycleInit, ChargeInit, ChargeLocalsInit
  <2>1. PaidInvoices(s) = {} /\ row[s].status = "pending" /\ lapses[s] = 0
    BY DEF LifecycleInit, ChargeInit, ChargeLocalsInit, StripeInit, NewRow, PaidInvoices
  <2>2. RefundsOnFile(s) = {} /\ DoneRefunds(s) = {}
    BY DEF LifecycleInit, RefundLocalsInit, RefundsOnFile, DoneRefunds
  <2>3. QED
    BY <2>1, <2>2, FS_EmptySet DEF BackOf, MovedTwice, WordOf
<1>2. LifeInv /\ LifeInv' /\ MoneyCounts /\ MoneyCounts' /\ [LifecycleNext]_lifecycleVars
        => [Fees!CollectionNext]_(Fees!collectionVars)
  <2> SUFFICES ASSUME LifeInv, LifeInv', MoneyCounts, MoneyCounts',
                      [LifecycleNext]_lifecycleVars
               PROVE  [Fees!CollectionNext]_(Fees!collectionVars)
    OBVIOUS
  <2>1. CASE UNCHANGED lifecycleVars
    <3>1. UNCHANGED chargeVars /\ UNCHANGED refundLocals
      BY <2>1 DEF lifecycleVars, chargeLocals, chargeVars
    <3>2. QED
      BY <3>1, ChargeRefines
  <2>2. QED
    BY <2>1, ChargeRefines, RefundRefines DEF LifecycleNext
<1>3. LifecycleSpec => []MoneyCounts
  BY LifecycleInvariant, MoneyIsCounted, PTL
<1>4. QED
  BY LifecycleInvariant, <1>1, <1>2, <1>3, PTL
  DEF LifecycleSpec, ImplementsFeeCollection, Fees!CollectionSpec

(* So what a row says is covered by the money, at every moment: 'paid' and *)
(* a refund in flight by a collected fee, 'refunded' by a returned one.    *)
THEOREM LifecycleWordIsCovered == LifecycleSpec => []Fees!WordIsCovered
<1>1. LifeInv /\ MoneyCounts => Fees!WordIsCovered
  <2> SUFFICES ASSUME LifeInv, MoneyCounts, NEW s \in Settlement
               PROVE  /\ WordOf(s) \in {"paid", "returning"}
                           => Cardinality(PaidInvoices(s)) > 0
                      /\ WordOf(s) = "refunded" => BackOf(s) = "returned"
    BY DEF Fees!WordIsCovered
  <2>1. row[s].status \in {"paid", "refund_pending"} => PaidInvoices(s) # {}
    BY DEF LifeInv, RefundsHaveMoney, HasMoney
  <2>2. row[s].status = "refunded" => DoneRefunds(s) # {}
    BY DEF LifeInv, TruthInv, RefundedIsReturned, DoneRefunds
  <2>3. QED
    BY <2>1, <2>2 DEF MoneyCounts, Charges, WordOf
<1>2. QED
  BY LifecycleInvariant, MoneyIsCounted, <1>1, PTL

=============================================================================
