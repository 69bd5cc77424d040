------------------------------ MODULE Cadence ------------------------------
(***************************************************************************)
(* The cadence engine: runCadence over the port of api/outreach/run, which *)
(* api/outreach/cron shares.  A run reads the active cadence and its       *)
(* candidate invoices once, then takes them one by one: choose the step    *)
(* that is due, claim it with a row that (invoice, step) makes unique,     *)
(* send, and fill the claim's links or delete it.  Runs are started by     *)
(* hand, overlap, and may end between any two calls.                       *)
(*                                                                         *)
(* Days are numbered from a Monday.                                        *)
(***************************************************************************)
EXTENDS EmailStep

CONSTANTS
  Run,              \* the runs in flight at once, a subset of Sender
  MaxRuns,          \* bound: runs started
  StepChannel,      \* StepChannel[k]: the channel of step k of the cadence
  StepOffset,       \* StepOffset[k]: its business days after the entry
  DueDate,          \* DueDate[i]: the day invoice i is due
  FirstDay, LastDay,\* bound: the days of a behaviour
  ReadsFail         \* whether the read of the recorded steps may fail

ASSUME CadenceAssumption ==
  /\ Run \subseteq Sender
  /\ FirstDay \in Nat /\ LastDay \in Nat /\ FirstDay <= LastDay
  /\ DueDate \in [Invoice -> Nat]
  /\ DOMAIN StepChannel = DOMAIN StepOffset

VARIABLES
  run,              \* run[r]: what run r holds between two calls
  runs,             \* runs started so far
  progress,         \* progress[i][k]: the invoice_cadence_progress row
  owed,             \* owed[i]: invoice i is open with a balance
  day               \* utcToday

cadenceVars == <<run, runs, progress, owed, day>>

Step == DOMAIN StepChannel

IdleRun == [at |-> "idle", mode |-> "dry_run", today |-> 0, todo |-> {},
            invoice |-> None, step |-> None]

CadenceInit ==
  /\ run = [r \in Run |-> IdleRun]
  /\ runs = 0
  /\ progress = [i \in Invoice |-> [k \in Step |-> "none"]]
  /\ owed = [i \in Invoice |-> TRUE]
  /\ day = FirstDay

-----------------------------------------------------------------------------
(* Dates.  Past due is strictly after the due date; the cadence is entered *)
(* on the next business day, and a step falls due its offset of business   *)
(* days later.                                                             *)
IsWeekend(d) == d % 7 \in {5, 6}
BusinessDays(from, to) == {d \in from..to : ~IsWeekend(d)}

IsPastDue(due, today) == due < today

NextBusinessDay(d) ==
  CHOOSE e \in BusinessDays(d + 1, d + 3) :
    \A f \in BusinessDays(d + 1, d + 3) : e <= f

AddBusinessDays(start, n) ==
  CHOOSE e \in start..(start + 7 * (n + 1)) :
    /\ Cardinality(BusinessDays(start + 1, e)) = n
    /\ \A f \in start..(e - 1) :
         Cardinality(BusinessDays(start + 1, f)) < n

StepDue(i, k) == AddBusinessDays(NextBusinessDay(DueDate[i]), StepOffset[k])

(* The first step that is not recorded gates: it is the step to fire if it *)
(* is due and nothing is fired if it is not.                               *)
SelectDueStep(i, recorded, today) ==
  LET open == Step \ recorded
      first == {k \in open : \A j \in open : k <= j}
  IN {k \in first : StepDue(i, k) <= today}

-----------------------------------------------------------------------------
(* What a run may be asked: a mode, and a fence of one subscriber, as     *)
(* every invoice here is, or of one invoice of it.  The schedule takes     *)
(* both from the environment.                                              *)
Modes == {"dry_run", "live"}
Fences == {Invoice} \cup {{i} : i \in Invoice}

(* The candidates are read once; terminated and not yet past due are       *)
(* passed over from that read.                                             *)
IsTerminated(i) == ~owed[i]
Candidates == {i \in Invoice : ~IsTerminated(i) /\ IsPastDue(DueDate[i], day)}

StartRun(r) ==
  /\ run[r].at = "idle"
  /\ runs < MaxRuns
  /\ \E mode \in Modes, fence \in Fences :
       run' = [run EXCEPT ![r] = [IdleRun EXCEPT !.at = "loop", !.mode = mode,
                 !.today = day, !.todo = Candidates \cap fence]]
  /\ runs' = runs + 1
  /\ UNCHANGED <<progress, owed, day, stepVars>>

Recorded(i) == {k \in Step : progress[i][k] # "none"}

(* The recorded steps are read, as none if the read fails, and the due     *)
(* step chosen; one on a channel that cannot send is left unrecorded.      *)
ChooseStep(r) ==
  /\ run[r].at = "loop"
  /\ \E i \in run[r].todo :
     \E seen \in {Recorded(i)} \cup (IF ReadsFail THEN {{}} ELSE {}) :
       LET due == {k \in SelectDueStep(i, seen, run[r].today) :
                     StepChannel[k] = "email"}
           on == [run[r] EXCEPT !.todo = @ \ {i}]
       IN run' = [run EXCEPT ![r] =
            IF due = {} THEN on
              ELSE [on EXCEPT !.at = "claim", !.invoice = i,
                      !.step = CHOOSE k \in due : TRUE]]
  /\ UNCHANGED <<runs, progress, owed, day, stepVars>>

(* Mutant: the claim is an upsert on (invoice, step). *)
ClaimAnyway(i, k) == TRUE

(* The unique index decides who owns a step, whatever was read before.     *)
(* The owner goes on to the send step; anybody else goes on to the next    *)
(* invoice.  An insert that fails otherwise ends the run.                  *)
Claimable(i, k) == progress[i][k] = "none"

ClaimStep(r) ==
  /\ run[r].at = "claim"
  /\ LET i == run[r].invoice
         k == run[r].step
     IN \/ /\ Claimable(i, k)
           /\ progress' = [progress EXCEPT ![i][k] = "claimed"]
           /\ run' = [run EXCEPT ![r].at = "send"]
           /\ mail' = [mail EXCEPT ![r] = Request(<<i, k>>, i,
                         [by |-> "default"], run[r].mode, FALSE)]
        \/ /\ ~Claimable(i, k)
           /\ run' = [run EXCEPT ![r].at = "loop", ![r].invoice = None,
                                 ![r].step = None]
           /\ UNCHANGED <<progress, mail>>
  /\ UNCHANGED <<runs, owed, day, comms, attempts, started>>

(* A step that sent, or would have, keeps its claim and takes its links;   *)
(* one that failed or was held at a gate gives its claim up.               *)
KeepsClaim(outcome) == outcome \in {"would_send", "sent"}

SettleClaim(r) ==
  /\ run[r].at = "send" /\ At(r, "returned") /\ mail[r].outcome # "threw"
  /\ progress' = [progress EXCEPT ![run[r].invoice][run[r].step] =
        IF KeepsClaim(mail[r].outcome) THEN "linked" ELSE "none"]
  /\ run' = [run EXCEPT ![r].at = "loop", ![r].invoice = None,
                        ![r].step = None]
  /\ mail' = [mail EXCEPT ![r] = IdleMail]
  /\ UNCHANGED <<runs, owed, day, comms, attempts, started>>

EndRun(r) ==
  /\ run[r].at = "loop" /\ run[r].todo = {}
  /\ run' = [run EXCEPT ![r] = IdleRun]
  /\ UNCHANGED <<runs, progress, owed, day, stepVars>>

(* The invocation is cut off, a write of it is refused or its send step    *)
(* throws: nothing catches that, and the run ends where it stands.         *)
RunDies(r) ==
  /\ run[r].at # "idle"
  /\ run' = [run EXCEPT ![r] = IdleRun]
  /\ mail' = [mail EXCEPT ![r] = IdleMail]
  /\ UNCHANGED <<runs, progress, owed, day, comms, attempts, started>>

-----------------------------------------------------------------------------
(* What the runs do not decide: a balance is settled, a day goes by.       *)
InvoiceSettled(i) ==
  /\ owed[i]
  /\ owed' = [owed EXCEPT ![i] = FALSE]
  /\ UNCHANGED <<run, runs, progress, day, stepVars>>

NextDay ==
  /\ day < LastDay
  /\ day' = day + 1
  /\ UNCHANGED <<run, runs, progress, owed, stepVars>>

CadenceNext ==
  \/ \E r \in Run : \/ StartRun(r) \/ ChooseStep(r) \/ ClaimStep(r)
                     \/ SettleClaim(r) \/ EndRun(r) \/ RunDies(r)
  \/ \E i \in Invoice : InvoiceSettled(i)
  \/ NextDay

=============================================================================
