----------------------------- MODULE MailEvents -----------------------------
(***************************************************************************)
(* What comes back from a mail: MailerSend's events, posted to             *)
(* api/webhooks/mailersend and worked off after the answer, each on its    *)
(* own.  An event finds its communication by the message id the send step  *)
(* stored, and is dropped if none is stored yet; a complaint or an         *)
(* unsubscribe opts the client's PRIMARY contact out, and with a hard      *)
(* bounce raises the client's attention reason.                            *)
(***************************************************************************)
EXTENDS EmailStep

CONSTANTS
  MaxEvents         \* bound: events posted

VARIABLES
  events,           \* the events posted, in order, each with its handling
  attention         \* clients.attention_reason

eventVars == <<events, attention>>

EventKind == {"spam", "unsubscribe", "hard_bounce", "activity"}

(* classifyMailersendEvent: who is opted out, what needs attention. *)
OptsOut(kind) == kind \in {"spam", "unsubscribe"}
NeedsAttention(kind) == kind \in {"spam", "unsubscribe", "hard_bounce"}

(* deriveAttentionReason: the most severe of the events wins. *)
Severity(reason) ==
  CASE reason = "none" -> 0 [] reason = "unsubscribe" -> 1
    [] reason = "hard_bounce" -> 2 [] reason = "spam" -> 3

EscalateAttention(current, kind) ==
  IF Severity(current) > Severity(kind) THEN current ELSE kind

EventsInit ==
  /\ events = <<>>
  /\ attention = "none"

(* A mail that was taken may be complained about, and so on. *)
PostEvent ==
  /\ Len(events) < MaxEvents
  /\ \E k \in DOMAIN comms, kind \in EventKind :
       /\ comms[k].taken
       /\ events' = Append(events, [comm |-> k, kind |-> kind, at |-> "posted",
                                    current |-> "none"])
  /\ UNCHANGED <<attention, contactVars, stepVars>>

EventGoes(e, step) == events' = [events EXCEPT ![e].at = step]

(* The row is found by the stored message id; an event of an id that is    *)
(* not stored is answered and dropped.                                     *)
FindCommunication(e) ==
  /\ events[e].at = "posted"
  /\ EventGoes(e, IF ~comms[events[e].comm].id THEN "dropped"
                  ELSE IF NeedsAttention(events[e].kind) THEN "found"
                  ELSE "active")
  /\ UNCHANGED <<attention, contactVars, stepVars>>

(* A delivery, an open and a click are one here: they overwrite the status *)
(* of the row, unless that fails, and touch no contact.                    *)
UpdateCommunicationActivity(e) ==
  /\ events[e].at = "active"
  /\ comms' = [comms EXCEPT ![events[e].comm].status = "seen"]
  /\ EventGoes(e, "handled")
  /\ UNCHANGED <<attention, contactVars, mail, attempts, started>>

(* The contact is resolved through the client: its primary one, whoever    *)
(* the mail went to.  No primary contact, no further effect.               *)
Primary == {c \in OnFile : contacts[c].primary}

SetContactOptOutEmail(e) ==
  /\ events[e].at = "found"
  /\ contacts' = [c \in Contact |->
       IF c \in Primary /\ OptsOut(events[e].kind)
         THEN [contacts[c] EXCEPT !.out = TRUE] ELSE contacts[c]]
  /\ EventGoes(e, IF Primary = {} THEN "handled" ELSE "opted")
  /\ UNCHANGED <<attention, client, sync, edits, stepVars>>

(* The reason is read, raised and written, by events side by side. *)
LoadAttention(e) ==
  /\ events[e].at = "opted"
  /\ events' = [events EXCEPT ![e].at = "read", ![e].current = attention]
  /\ UNCHANGED <<attention, contactVars, stepVars>>

SetAttention(e) ==
  /\ events[e].at = "read"
  /\ LET next == EscalateAttention(events[e].current, events[e].kind) IN
       attention' = IF next # events[e].current THEN next ELSE attention
  /\ events' = [events EXCEPT ![e].at = "handled", ![e].current = "none"]
  /\ UNCHANGED <<contactVars, stepVars>>

(* A lookup or a write that fails is logged; nobody posts the event again. *)
EventFails(e) ==
  /\ events[e].at \in {"posted", "active", "found", "opted", "read"}
  /\ events' = [events EXCEPT ![e].at = "dropped", ![e].current = "none"]
  /\ UNCHANGED <<attention, contactVars, stepVars>>

EventsNext ==
  \/ PostEvent
  \/ \E e \in DOMAIN events :
       FindCommunication(e) \/ UpdateCommunicationActivity(e)
         \/ SetContactOptOutEmail(e) \/ LoadAttention(e) \/ SetAttention(e)
         \/ EventFails(e)

=============================================================================
