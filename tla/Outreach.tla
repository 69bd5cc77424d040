------------------------------ MODULE Outreach ------------------------------
(***************************************************************************)
(* Outreach to one client: the cadence runs, the voice calls and the       *)
(* emails sent from inside them share the send step, the communications    *)
(* it records, the stamp of the first contact and the client's contacts,   *)
(* which the subscriber and the QuickBooks sync edit and which the events  *)
(* of past mails opt out.                                                  *)
(***************************************************************************)
EXTENDS MailEvents, VoiceCalls

outreachVars == <<contactVars, stepVars, cadenceVars, eventVars, voiceVars>>

OutreachInit ==
  ContactsInit /\ StepInit /\ CadenceInit /\ EventsInit /\ VoiceInit

OutreachNext ==
  \/ ContactsNext /\ UNCHANGED <<stepVars, cadenceVars, eventVars, voiceVars>>
  \/ /\ \E p \in Sender : SendEmailStep(p)
     /\ UNCHANGED <<contactVars, cadenceVars, eventVars, voiceVars>>
  \/ CadenceNext /\ UNCHANGED <<contactVars, eventVars, voiceVars>>
  \/ EventsNext /\ UNCHANGED <<cadenceVars, voiceVars>>
  \/ VoiceNext /\ UNCHANGED <<cadenceVars, eventVars>>

OutreachSpec == OutreachInit /\ [][OutreachNext]_outreachVars

-----------------------------------------------------------------------------
(* Every row has the columns its table has, with values they may hold.     *)
OutreachTypeOK ==
  /\ contacts \in [Contact -> Row \cup {Absent, Deleted}]
  /\ started \in [Invoice -> Call \cup {None} \cup DOMAIN comms]
  /\ progress \in [Invoice -> [Step -> {"none", "claimed", "linked"}]]
  /\ \A k \in DOMAIN comms :
       /\ comms[k].status \in CommStatus
       /\ comms[k].id => comms[k].status \in {"sent", "seen"}
  /\ \A k \in DOMAIN attempts : attempts[k].comm \in DOMAIN comms
  /\ \A c \in Call :
       calls[c].handoff \in {"null", "claimed", "would_send", "sent", "failed"}

(* The claim is what keeps a step from going out twice: however runs       *)
(* overlap, end half-way or fail to read what is recorded, a step has at   *)
(* most one communication that was sent, or would have been, and is not    *)
(* on file as failed.                                                      *)
StepMailedOnce ==
  \A i \in Invoice, k \in Step :
    Cardinality({n \in CommsOf(<<i, k>>) :
      /\ comms[n].taken \/ comms[n].status = "would_send"
      /\ comms[n].status # "failed"}) <= 1

(* The cadence never advances past a step that has not fired: a step goes  *)
(* out only while every step before it is recorded.                        *)
StepInItsTurn ==
  \A i \in Invoice, k \in Step :
    CommsOf(<<i, k>>) # {} => \A j \in 1..(k - 1) : progress[i][j] # "none"

(* What makes a payment billable is a real contact: the stamp of an        *)
(* invoice names a call of the production assistant that Vapi took, or a   *)
(* mail that MailerSend took, which is not on file as failed and was not   *)
(* sent from inside a test call.                                           *)
StampIsContact ==
  \A i \in Invoice : started[i] # None =>
    \/ \E c \in Call \ TestCall : started[i] = c /\ calls[c].placed
    \/ \E k \in DOMAIN comms :
         /\ started[i] = k
         /\ comms[k].taken /\ comms[k].status # "failed"
         /\ comms[k].invoice = i
         /\ \A c \in TestCall : comms[k].origin # <<c>>

(* At most one payment email per voice call, whoever asks for it, however  *)
(* often, and even where MailerSend's answer was lost.                     *)
OneMailPerCall == \A c \in Call : Cardinality(Taken(<<c>>)) <= 1

(* A call that may be asked for its email again has not sent or recorded   *)
(* one: only the gates before the record give a claim up.                  *)
NullMeansUnsent ==
  \A c \in Call : calls[c].handoff = "null" => CommsOf(<<c>>) = {}

-----------------------------------------------------------------------------
(* A complaint or an unsubscribe of contact c has been worked off. *)
HasLeft(c) ==
  \E e \in DOMAIN events :
    /\ events[e].kind \in {"spam", "unsubscribe"}
    /\ events[e].at \in {"opted", "read", "handled"}
    /\ comms[events[e].comm].to = c

Picks(p, c) == At(p, "picking") /\ mail'[p].at = "picked" /\ mail'[p].to = c

(* The address of record that unsubscribed is not mailed again: neither a  *)
(* sync of QuickBooks nor an edit of the subscriber opts it in.            *)
UnsubscribedPocIsLeftAlone ==
  [][\A p \in Sender, c \in Contact :
       Picks(p, c) /\ contacts[c].kind = "poc" => ~HasLeft(c)]_outreachVars

(* No contact that unsubscribed is mailed again: an event reaches the one  *)
(* contact its mail can belong to.                                         *)
UnsubscribedIsLeftAlone ==
  [][\A p \in Sender, c \in Contact : Picks(p, c) => ~HasLeft(c)]_outreachVars

=============================================================================
