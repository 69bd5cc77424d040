----------------------------- MODULE EmailStep -----------------------------
(***************************************************************************)
(* sendEmailStep: one recorded, gated email about one invoice, dry-run or  *)
(* live.  Every caller runs it step by step between other callers' steps:  *)
(* pick the recipient and pass the gates, record a pending communication,  *)
(* dispatch, stamp the invoice's first contact, finalize the record, and   *)
(* link a numbered recovery attempt.                                       *)
(*                                                                         *)
(* MailerSend is external.  It may take a mail and its answer be lost: the *)
(* step then takes the send for failed.  Subject and body are left out.    *)
(***************************************************************************)
EXTENDS ClientContacts

CONSTANTS
  Sender,           \* the invocations that may run a send step
  Invoice,          \* invoices
  MaxMails,         \* bound: communications of a behaviour
  AnswersLost       \* whether MailerSend's answer to a taken mail may be lost

ASSUME EmailStepAssumption == AnswersLost \in BOOLEAN

VARIABLES
  mail,             \* mail[p]: the send step invocation p is in
  comms,            \* the communications rows, in order of insertion
  attempts,         \* the recovery_attempts rows, in order of insertion
  started           \* started[i]: communication or call that stamped invoice i

stepVars == <<mail, comms, attempts, started>>

None == 0

(* communications.status, the outcomes of a step, and what the row does    *)
(* not say: whether MailerSend took the mail.  id: the stored message id.  *)
(* The outcomes of the gates (nobody to send to, denied, no template, no   *)
(* payment link) are one: no caller tells them apart.                      *)
CommStatus == {"pending", "would_send", "sent", "failed", "seen"}

IdleMail == [at |-> "idle", origin |-> None, invoice |-> None,
             choice |-> [by |-> "default"], mode |-> "dry_run",
             quiet |-> FALSE, to |-> Stranger, comm |-> None,
             outcome |-> "none", id |-> FALSE, number |-> None]

StepInit ==
  /\ mail = [p \in Sender |-> IdleMail]
  /\ comms = <<>>
  /\ attempts = <<>>
  /\ started = [i \in Invoice |-> None]

At(p, step) == mail[p].at = step
Goes(p, step) == mail' = [mail EXCEPT ![p].at = step]
Returns(p, outcome) ==
  mail' = [mail EXCEPT ![p].at = "returned", ![p].outcome = outcome]

(* What a caller passes: the invoice, what the mail is for, a choice of    *)
(* recipient, the mode, and whether a stamp is suppressed.                 *)
Request(origin, invoice, choice, mode, quiet) ==
  [IdleMail EXCEPT !.at = "picking", !.origin = origin, !.invoice = invoice,
     !.choice = choice, !.mode = mode, !.quiet = quiet]

-----------------------------------------------------------------------------
(* Gates 1 to 3b: a recipient that the opt-out gate lets through, a        *)
(* template and a payment link, or nothing is written.  A read that fails  *)
(* counts as nobody to send to.                                            *)
PickAndGate(p) ==
  /\ At(p, "picking")
  /\ \/ \E c \in PickRecipient(mail[p].choice) :
          mail' = [mail EXCEPT ![p].at = "picked", ![p].to = c]
     \/ Returns(p, "gated")
  /\ UNCHANGED <<comms, attempts, started>>

(* The record precedes the dispatch; an insert that fails throws. *)
InsertPendingCommunication(p) ==
  /\ At(p, "picked")
  /\ \/ /\ Len(comms) < MaxMails
        /\ comms' = Append(comms, [origin |-> mail[p].origin,
             invoice |-> mail[p].invoice, to |-> mail[p].to,
             status |-> "pending", id |-> FALSE, taken |-> FALSE])
        /\ mail' = [mail EXCEPT ![p].at = "recorded", ![p].comm = Len(comms)']
     \/ Returns(p, "threw") /\ UNCHANGED comms
  /\ UNCHANGED <<attempts, started>>

(* What comes of handing a mail to MailerSend: taken, with a message id or *)
(* without one, refused, or taken with its answer lost.                    *)
SendEmail ==
  [outcome : {"sent"}, id : BOOLEAN, taken : {TRUE}] \cup
  [outcome : {"send_failed"}, id : {FALSE}, taken : {FALSE, AnswersLost}]

(* The dispatch, live only; a call that throws is caught as a failure. *)
Dispatch(p) ==
  /\ At(p, "recorded")
  /\ \/ /\ mail[p].mode = "dry_run"
        /\ mail' = [mail EXCEPT ![p].at = "settled",
                      ![p].outcome = "would_send"]
        /\ UNCHANGED comms
     \/ /\ mail[p].mode = "live"
        /\ \E answer \in SendEmail :
             /\ mail' = [mail EXCEPT ![p].at = "settled",
                           ![p].outcome = answer.outcome, ![p].id = answer.id]
             /\ comms' = [comms EXCEPT ![mail[p].comm].taken = answer.taken]
  /\ UNCHANGED <<attempts, started>>

(* The attempt's number is one past the highest, read before the insert;   *)
(* a read that fails counts as none.                                       *)
ExistingAttemptNumbers(i) ==
  {attempts[k].number : k \in {k \in DOMAIN attempts :
                                 attempts[k].invoice = i}}

NextAttemptNumber(existing) ==
  IF existing = {} THEN 1
    ELSE 1 + CHOOSE n \in existing : \A m \in existing : m <= n

(* Mutant: an email sent from inside a test call stamps its invoice too. *)
StampsAlways(p) == mail[p].outcome = "sent" /\ mail[p].id

Stamps(p) == mail[p].outcome = "sent" /\ mail[p].id /\ ~mail[p].quiet

(* markOutreachStarted: the first stamp of an invoice stays, and a stamp   *)
(* that fails is only logged.                                              *)
MarkOutreachStarted(i, by) ==
  IF started[i] = None THEN [started EXCEPT ![i] = by] ELSE started

FinalStatus(p) ==
  CASE mail[p].outcome = "sent" -> "sent"
    [] mail[p].outcome = "send_failed" -> "failed"
    [] mail[p].outcome = "would_send" -> "would_send"

(* The stamp, made or failed, and then the record: its status and message  *)
(* id are written together, and from here on an event of MailerSend can    *)
(* find the row.  A record that cannot be written throws, as if the step   *)
(* had been cut off between the two.                                       *)
StampAndFinalize(p) ==
  /\ At(p, "settled")
  /\ started' \in IF Stamps(p)
       THEN {started, MarkOutreachStarted(mail[p].invoice, mail[p].comm)}
       ELSE {started}
  /\ \/ /\ comms' = [comms EXCEPT ![mail[p].comm].status = FinalStatus(p),
                                  ![mail[p].comm].id = mail[p].id]
        /\ \E existing \in {ExistingAttemptNumbers(mail[p].invoice), {}} :
             mail' = [mail EXCEPT ![p].at = "finalized",
                        ![p].number = NextAttemptNumber(existing)]
     \/ Returns(p, "threw") /\ UNCHANGED comms
  /\ UNCHANGED attempts

InsertRecoveryAttempt(p) ==
  /\ At(p, "finalized")
  /\ \/ /\ attempts' = Append(attempts, [invoice |-> mail[p].invoice,
             comm |-> mail[p].comm, number |-> mail[p].number,
             counted |-> mail[p].outcome # "send_failed"])
        /\ Goes(p, "returned")
     \/ Returns(p, "threw") /\ UNCHANGED attempts
  /\ UNCHANGED <<comms, started>>

SendEmailStep(p) ==
  \/ PickAndGate(p) \/ InsertPendingCommunication(p) \/ Dispatch(p)
  \/ StampAndFinalize(p) \/ InsertRecoveryAttempt(p)

-----------------------------------------------------------------------------
CommsOf(origin) == {k \in DOMAIN comms : comms[k].origin = origin}
Taken(origin) == {k \in CommsOf(origin) : comms[k].taken}

=============================================================================
