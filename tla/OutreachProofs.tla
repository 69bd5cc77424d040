--------------------------- MODULE OutreachProofs ---------------------------
(***************************************************************************)
(* Proofs about Outreach, for every number of invoices, steps, contacts,   *)
(* calls, runs, tool requests, mails and events: a step and a call send at *)
(* most one mail, a stamp is a contact, and the point of contact that      *)
(* unsubscribed is left alone.                                             *)
(*                                                                         *)
(* The argument is ownership.  Whoever runs the send step holds a claim, a *)
(* cadence step or a call, that nobody else can take; what it records      *)
(* carries that claim as its origin; so a communication belongs to at most *)
(* one invocation, and the claim is given up only where nothing was, or    *)
(* would have been, sent under it.                                         *)
(***************************************************************************)
EXTENDS Outreach, TLAPS, SequenceTheorems, FiniteSetTheorems

(***************************************************************************)
(* Types.                                                                  *)
(***************************************************************************)
Origin == {<<i, k>> : i \in Invoice, k \in Step} \cup {<<c>> : c \in Call}

MailAt == {"idle", "picking", "picked", "recorded", "settled", "finalized",
           "returned"}
Outcome == {"none", "gated", "threw", "would_send", "sent", "send_failed"}

(* The number of an attempt decides nothing here. *)
MailWith(n) ==
  [at : MailAt, origin : Origin \cup {None}, invoice : Invoice \cup {None},
   choice : Choices, mode : {"off", "dry_run", "live"}, quiet : BOOLEAN,
   to : Contact \cup {Stranger}, comm : Nat, outcome : Outcome,
   id : BOOLEAN, number : {n}]

MailOK ==
  /\ mail = [p \in Sender |-> mail[p]]
  /\ \A p \in Sender : mail[p] \in MailWith(mail[p].number)

Communication ==
  [origin : Origin, invoice : Invoice, to : Contact \cup {Stranger},
   status : CommStatus, id : BOOLEAN, taken : BOOLEAN]

CommsOK == comms \in Seq(Communication)

ContactsOK ==
  /\ contacts \in [Contact -> Row \cup {Absent, Deleted}]
  /\ client \in [email : Address \cup {NoAddress}, out : BOOLEAN]
  /\ sync \in [at : {"idle", "client", "read"},
               email : Address \cup {NoAddress}, poc : SUBSET Contact]

RunRecord ==
  [at : {"idle", "loop", "claim", "send"}, mode : Modes, today : Nat,
   todo : SUBSET Invoice, invoice : Invoice \cup {None}, step : Step \cup {None}]

RunOK ==
  /\ run \in [Run -> RunRecord]
  /\ \A r \in Run : run[r].at \in {"claim", "send"} =>
       run[r].invoice \in Invoice /\ run[r].step \in Step
  /\ day \in Nat

ProgressOK == progress \in [Invoice -> [Step -> {"none", "claimed", "linked"}]]

CallRecord ==
  [at : {"new", "dial", "dialed", "ringing", "done"},
   status : {"none", "queued", "ringing", "in-progress", "ended", "failed"},
   outcome : {"none", "ended"}, placed : BOOLEAN,
   handoff : {"null", "claimed", "would_send", "sent", "failed"}]

(* Vapi has a call once it was dialed, and only then. *)
Dialed(call) ==
  /\ call.placed => call.at \notin {"new", "dial"}
  /\ call.at \in {"dialed", "ringing"} => call.placed

CallsOK ==
  calls \in [Call -> CallRecord] /\ \A c \in Call : Dialed(calls[c])

ToolRecord ==
  [at : {"idle", "claim", "send"}, call : Call \cup {None}, choice : Choices]

ToolOK ==
  /\ tool \in [Tool -> ToolRecord]
  /\ \A t \in Tool : tool[t].at # "idle" => tool[t].call \in Call

Reason == {"none"} \cup EventKind

EventRecord ==
  [comm : Nat, kind : EventKind, current : Reason,
   at : {"posted", "active", "found", "opted", "read", "handled", "dropped"}]

EventsOK ==
  /\ events \in Seq(EventRecord)
  /\ attention \in Reason
  /\ \A e \in DOMAIN events : events[e].comm \in DOMAIN comms

(***************************************************************************)
(* Ownership.                                                              *)
(***************************************************************************)
Busy(p) == mail[p].at # "idle"

(* What the send step holds between two calls. *)
Holds(p) ==
  /\ Busy(p) =>
       /\ mail[p].origin \in Origin /\ mail[p].invoice \in Invoice
       /\ p \in Run \cup Tool
  /\ mail[p].at \in {"idle", "picking", "picked"} => mail[p].comm = None
  /\ mail[p].outcome = "gated" => mail[p].comm = None
  /\ mail[p].at \in {"picking", "picked", "recorded"} =>
       mail[p].outcome = "none" /\ ~mail[p].id
  /\ mail[p].at \in {"recorded", "settled", "finalized"} => mail[p].comm # None
  /\ mail[p].at \in {"finalized", "returned"} => mail[p].outcome # "none"
  /\ Busy(p) /\ ~mail[p].quiet => \A c \in TestCall : mail[p].origin # <<c>>

(* What is on file of it. *)
Files(p) ==
  /\ mail[p].comm # None =>
       /\ mail[p].comm \in DOMAIN comms
       /\ comms[mail[p].comm].origin = mail[p].origin
       /\ comms[mail[p].comm].invoice = mail[p].invoice
  /\ mail[p].at \in {"recorded", "settled"} =>
       ~comms[mail[p].comm].id /\ comms[mail[p].comm].status = "pending"
  /\ mail[p].at = "settled" =>
       /\ mail[p].outcome \in {"would_send", "sent", "send_failed"}
       /\ mail[p].outcome = "sent" => comms[mail[p].comm].taken
       /\ mail[p].id => mail[p].outcome = "sent"
  /\ mail[p].at \in {"finalized", "returned"} /\ mail[p].outcome = "send_failed" =>
       /\ mail[p].comm # None
       /\ comms[mail[p].comm].status = "failed" /\ ~comms[mail[p].comm].id

(* No two invocations send for one claim. *)
OneOwner ==
  \A p, q \in Sender : p # q /\ Busy(p) /\ Busy(q) =>
    mail[p].origin # mail[q].origin

(* A stored message id means that MailerSend took the mail. *)
IdMeansTaken ==
  \A k \in DOMAIN comms : comms[k].id =>
    comms[k].taken /\ comms[k].status \in {"sent", "seen"}

ActiveHasId ==
  \A e \in DOMAIN events : events[e].at = "active" =>
    comms[events[e].comm].id /\ ~NeedsAttention(events[e].kind)

(* The communications that were sent or would have been: StepMailedOnce    *)
(* counts them.                                                            *)
Hot(k) ==
  /\ comms[k].taken \/ comms[k].status = "would_send"
  /\ comms[k].status # "failed"

HotOf(o) == {k \in CommsOf(o) : Hot(k)}

RunOwns(r) ==
  /\ run[r].at = "send" <=> Busy(r)
  /\ Busy(r) =>
       /\ mail[r].origin = <<run[r].invoice, run[r].step>>
       /\ progress[run[r].invoice][run[r].step] = "claimed"
       /\ HotOf(mail[r].origin) \subseteq {mail[r].comm}

StepOwned(i, k) ==
  /\ \A m, n \in HotOf(<<i, k>>) : m = n
  /\ progress[i][k] = "none" => HotOf(<<i, k>>) = {}

ToolOwns(t) ==
  /\ tool[t].at = "send" <=> Busy(t)
  /\ Busy(t) =>
       /\ mail[t].origin = <<tool[t].call>>
       /\ calls[tool[t].call].handoff = "claimed"
       /\ CommsOf(mail[t].origin) \subseteq {mail[t].comm}

CallOwned(c) ==
  /\ \A m, n \in CommsOf(<<c>>) : m = n
  /\ calls[c].handoff = "null" => CommsOf(<<c>>) = {}

(***************************************************************************)
(* Stamps and contacts.                                                    *)
(***************************************************************************)
StampedMail(i, k) ==
  /\ k \in DOMAIN comms
  /\ comms[k].taken /\ comms[k].status # "failed" /\ comms[k].invoice = i
  /\ \A c \in TestCall : comms[k].origin # <<c>>
  /\ \A p \in Sender :
       mail[p].at \in {"recorded", "settled"} => mail[p].comm # k

StampStands(i) ==
  started[i] # None =>
    \/ \E c \in Call \ TestCall : started[i] = c /\ calls[c].placed
    \/ StampedMail(i, started[i])

(* A point of contact is primary and opted out once it has left; whoever   *)
(* was mailed has a row and keeps it, if only as a deleted one.            *)
PocLeft(c) ==
  contacts[c].kind = "poc" =>
    contacts[c].primary /\ (HasLeft(c) => contacts[c].out)

MailedOnFile ==
  /\ \A p \in Sender : mail[p].to \in Contact => contacts[mail[p].to] # Absent
  /\ \A k \in DOMAIN comms :
       comms[k].to \in Contact => contacts[comms[k].to] # Absent

SyncKnowsPoc == \A c \in sync.poc : contacts[c].kind = "poc"

TypeInv ==
  /\ MailOK /\ CommsOK /\ ContactsOK /\ RunOK /\ ProgressOK /\ CallsOK
  /\ ToolOK /\ EventsOK /\ started \in [Invoice -> Nat \cup Call]

OwnInv ==
  /\ \A p \in Sender : Holds(p) /\ Files(p)
  /\ OneOwner /\ IdMeansTaken /\ ActiveHasId
  /\ \A r \in Run : RunOwns(r)
  /\ \A i \in Invoice, k \in Step : StepOwned(i, k)
  /\ \A t \in Tool : ToolOwns(t)
  /\ \A c \in Call : CallOwned(c)

StampInv == \A i \in Invoice : StampStands(i)

LeftInv == (\A c \in Contact : PocLeft(c)) /\ MailedOnFile /\ SyncKnowsPoc

OutreachInv == TypeInv /\ OwnInv /\ StampInv /\ LeftInv

(***************************************************************************)
(* What each action does to the send step, field by field.                 *)
(***************************************************************************)
Others(p) == \A q \in Sender : q # p => mail'[q] = mail[q]

(* What a send step was asked for stays as it was. *)
Kept(p) ==
  /\ mail'[p].origin = mail[p].origin /\ mail'[p].invoice = mail[p].invoice
  /\ mail'[p].choice = mail[p].choice /\ mail'[p].mode = mail[p].mode
  /\ mail'[p].quiet = mail[p].quiet

(* Whoever is picked has a row, or is a stranger, and has not opted out.   *)
LEMMA PickedMayBeMailed ==
  ASSUME NEW choice \in Choices, NEW c \in PickRecipient(choice)
  PROVE  /\ c \in OnFile \cup {Stranger}
         /\ c # Stranger => ~contacts[c].out
<1>1. choice.by \in {"default", "contact", "address"}
  BY DEF Choices
<1>2. SelectForChannel \subseteq OnFile
  BY DEF SelectForChannel, RankedDunning
<1>3. \A a : ResolveAddressRecipient(a) \subseteq OnFile \cup {Stranger}
  BY DEF ResolveAddressRecipient
<1>4. IsChannelAllowed(WithClientEmailOptOut(c))
  BY DEF PickRecipient
<1>5. c # Stranger => ~contacts[c].out
  BY <1>4 DEF IsChannelAllowed, WithClientEmailOptOut
<1>6. CASE choice.by = "default"
  BY <1>2, <1>5, <1>6 DEF PickRecipient
<1>7. CASE choice.by = "contact"
  BY <1>5, <1>7 DEF PickRecipient
<1>8. CASE choice.by = "address"
  BY <1>3, <1>5, <1>8 DEF PickRecipient
<1> QED
  BY <1>1, <1>6, <1>7, <1>8

LEMMA MailSet ==
  ASSUME MailOK, NEW p \in Sender, NEW n, NEW m \in MailWith(n),
         mail' = [mail EXCEPT ![p] = m]
  PROVE  MailOK' /\ mail'[p] = m /\ Others(p)
<1>1. DOMAIN mail = Sender
  BY DEF MailOK
<1>2. mail'[p] = m /\ Others(p)
  BY <1>1 DEF Others
<1>3. m.number = n
  BY DEF MailWith
<1>4. \A q \in Sender : mail'[q] \in MailWith(mail'[q].number)
  BY <1>2, <1>3 DEF MailOK, Others
<1>5. mail' = [q \in Sender |-> mail'[q]]
  BY <1>1 DEF MailOK
<1> QED
  BY <1>2, <1>4, <1>5 DEF MailOK

Writes(p, at, to, comm, outcome, id) ==
  /\ mail'[p].at = at /\ mail'[p].to = to /\ mail'[p].comm = comm
  /\ mail'[p].outcome = outcome /\ mail'[p].id = id

(* The send step writes its fields in these ways only. *)
LEMMA MailTo ==
  ASSUME MailOK, NEW p \in Sender, NEW at \in MailAt,
         NEW to \in Contact \cup {Stranger},
         mail' = [mail EXCEPT ![p].at = at, ![p].to = to]
  PROVE  MailOK' /\ Others(p) /\ Kept(p)
         /\ Writes(p, at, to, mail[p].comm, mail[p].outcome, mail[p].id)
<1> DEFINE m == [mail[p] EXCEPT !.at = at, !.to = to]
<1>1. mail[p] \in MailWith(mail[p].number) /\ DOMAIN mail = Sender
  BY DEF MailOK
<1>2. m \in MailWith(mail[p].number)
  BY <1>1 DEF MailWith
<1>3. mail' = [mail EXCEPT ![p] = m]
  BY <1>1 DEF MailWith
<1>4. MailOK' /\ mail'[p] = m /\ Others(p)
  <2> HIDE DEF m
  <2> QED
    BY <1>2, <1>3, MailSet
<1>5. m.at = at /\ m.to = to
  BY <1>1 DEF MailWith
<1>6. /\ m.origin = mail[p].origin
      /\ m.invoice = mail[p].invoice
      /\ m.choice = mail[p].choice
      /\ m.mode = mail[p].mode
      /\ m.quiet = mail[p].quiet
      /\ m.comm = mail[p].comm
      /\ m.outcome = mail[p].outcome
      /\ m.id = mail[p].id
  BY <1>1 DEF MailWith
<1> HIDE DEF m
<1> QED
  BY <1>4, <1>5, <1>6 DEF Kept, Writes

LEMMA MailComm ==
  ASSUME MailOK, NEW p \in Sender, NEW at \in MailAt, NEW comm \in Nat,
         mail' = [mail EXCEPT ![p].at = at, ![p].comm = comm]
  PROVE  MailOK' /\ Others(p) /\ Kept(p)
         /\ Writes(p, at, mail[p].to, comm, mail[p].outcome, mail[p].id)
<1> DEFINE m == [mail[p] EXCEPT !.at = at, !.comm = comm]
<1>1. mail[p] \in MailWith(mail[p].number) /\ DOMAIN mail = Sender
  BY DEF MailOK
<1>2. m \in MailWith(mail[p].number)
  BY <1>1 DEF MailWith
<1>3. mail' = [mail EXCEPT ![p] = m]
  BY <1>1 DEF MailWith
<1>4. MailOK' /\ mail'[p] = m /\ Others(p)
  <2> HIDE DEF m
  <2> QED
    BY <1>2, <1>3, MailSet
<1>5. m.at = at /\ m.comm = comm
  BY <1>1 DEF MailWith
<1>6. /\ m.origin = mail[p].origin
      /\ m.invoice = mail[p].invoice
      /\ m.choice = mail[p].choice
      /\ m.mode = mail[p].mode
      /\ m.quiet = mail[p].quiet
      /\ m.to = mail[p].to
      /\ m.outcome = mail[p].outcome
      /\ m.id = mail[p].id
  BY <1>1 DEF MailWith
<1> HIDE DEF m
<1> QED
  BY <1>4, <1>5, <1>6 DEF Kept, Writes

LEMMA MailOutcome ==
  ASSUME MailOK, NEW p \in Sender, NEW at \in MailAt, NEW outcome \in Outcome,
         mail' = [mail EXCEPT ![p].at = at, ![p].outcome = outcome]
  PROVE  MailOK' /\ Others(p) /\ Kept(p)
         /\ Writes(p, at, mail[p].to, mail[p].comm, outcome, mail[p].id)
<1> DEFINE m == [mail[p] EXCEPT !.at = at, !.outcome = outcome]
<1>1. mail[p] \in MailWith(mail[p].number) /\ DOMAIN mail = Sender
  BY DEF MailOK
<1>2. m \in MailWith(mail[p].number)
  BY <1>1 DEF MailWith
<1>3. mail' = [mail EXCEPT ![p] = m]
  BY <1>1 DEF MailWith
<1>4. MailOK' /\ mail'[p] = m /\ Others(p)
  <2> HIDE DEF m
  <2> QED
    BY <1>2, <1>3, MailSet
<1>5. m.at = at /\ m.outcome = outcome
  BY <1>1 DEF MailWith
<1>6. /\ m.origin = mail[p].origin
      /\ m.invoice = mail[p].invoice
      /\ m.choice = mail[p].choice
      /\ m.mode = mail[p].mode
      /\ m.quiet = mail[p].quiet
      /\ m.to = mail[p].to
      /\ m.comm = mail[p].comm
      /\ m.id = mail[p].id
  BY <1>1 DEF MailWith
<1> HIDE DEF m
<1> QED
  BY <1>4, <1>5, <1>6 DEF Kept, Writes

LEMMA MailAnswer ==
  ASSUME MailOK, NEW p \in Sender, NEW at \in MailAt, NEW outcome \in Outcome,
         NEW id \in BOOLEAN,
         mail' = [mail EXCEPT ![p].at = at, ![p].outcome = outcome, ![p].id = id]
  PROVE  MailOK' /\ Others(p) /\ Kept(p)
         /\ Writes(p, at, mail[p].to, mail[p].comm, outcome, id)
<1> DEFINE m == [mail[p] EXCEPT !.at = at, !.outcome = outcome, !.id = id]
<1>1. mail[p] \in MailWith(mail[p].number) /\ DOMAIN mail = Sender
  BY DEF MailOK
<1>2. m \in MailWith(mail[p].number)
  BY <1>1 DEF MailWith
<1>3. mail' = [mail EXCEPT ![p] = m]
  BY <1>1 DEF MailWith
<1>4. MailOK' /\ mail'[p] = m /\ Others(p)
  <2> HIDE DEF m
  <2> QED
    BY <1>2, <1>3, MailSet
<1>5. m.at = at /\ m.outcome = outcome /\ m.id = id
  BY <1>1 DEF MailWith
<1>6. /\ m.origin = mail[p].origin
      /\ m.invoice = mail[p].invoice
      /\ m.choice = mail[p].choice
      /\ m.mode = mail[p].mode
      /\ m.quiet = mail[p].quiet
      /\ m.to = mail[p].to
      /\ m.comm = mail[p].comm
  BY <1>1 DEF MailWith
<1> HIDE DEF m
<1> QED
  BY <1>4, <1>5, <1>6 DEF Kept, Writes

LEMMA MailNumber ==
  ASSUME MailOK, NEW p \in Sender, NEW at \in MailAt, NEW n,
         mail' = [mail EXCEPT ![p].at = at, ![p].number = n]
  PROVE  MailOK' /\ Others(p) /\ Kept(p)
         /\ Writes(p, at, mail[p].to, mail[p].comm, mail[p].outcome, mail[p].id)
<1> DEFINE m == [mail[p] EXCEPT !.at = at, !.number = n]
<1>1. mail[p] \in MailWith(mail[p].number) /\ DOMAIN mail = Sender
  BY DEF MailOK
<1>2. m \in MailWith(n)
  BY <1>1 DEF MailWith
<1>3. mail' = [mail EXCEPT ![p] = m]
  BY <1>1 DEF MailWith
<1>4. MailOK' /\ mail'[p] = m /\ Others(p)
  <2> HIDE DEF m
  <2> QED
    BY <1>2, <1>3, MailSet
<1>5. m.at = at
  BY <1>1 DEF MailWith
<1>6. /\ m.origin = mail[p].origin
      /\ m.invoice = mail[p].invoice
      /\ m.choice = mail[p].choice
      /\ m.mode = mail[p].mode
      /\ m.quiet = mail[p].quiet
      /\ m.to = mail[p].to
      /\ m.comm = mail[p].comm
      /\ m.outcome = mail[p].outcome
      /\ m.id = mail[p].id
  BY <1>1 DEF MailWith
<1> HIDE DEF m
<1> QED
  BY <1>4, <1>5, <1>6 DEF Kept, Writes

LEMMA MailGoes ==
  ASSUME MailOK, NEW p \in Sender, NEW at \in MailAt,
         mail' = [mail EXCEPT ![p].at = at]
  PROVE  MailOK' /\ Others(p) /\ Kept(p)
         /\ Writes(p, at, mail[p].to, mail[p].comm, mail[p].outcome, mail[p].id)
<1> DEFINE m == [mail[p] EXCEPT !.at = at]
<1>1. mail[p] \in MailWith(mail[p].number) /\ DOMAIN mail = Sender
  BY DEF MailOK
<1>2. m \in MailWith(mail[p].number)
  BY <1>1 DEF MailWith
<1>3. mail' = [mail EXCEPT ![p] = m]
  BY <1>1 DEF MailWith
<1>4. MailOK' /\ mail'[p] = m /\ Others(p)
  <2> HIDE DEF m
  <2> QED
    BY <1>2, <1>3, MailSet
<1>5. m.at = at
  BY <1>1 DEF MailWith
<1>6. /\ m.origin = mail[p].origin
      /\ m.invoice = mail[p].invoice
      /\ m.choice = mail[p].choice
      /\ m.mode = mail[p].mode
      /\ m.quiet = mail[p].quiet
      /\ m.to = mail[p].to
      /\ m.comm = mail[p].comm
      /\ m.outcome = mail[p].outcome
      /\ m.id = mail[p].id
  BY <1>1 DEF MailWith
<1> HIDE DEF m
<1> QED
  BY <1>4, <1>5, <1>6 DEF Kept, Writes

LEMMA PickEffect ==
  ASSUME MailOK, NEW p \in Sender, PickAndGate(p)
  PROVE  /\ MailOK' /\ Others(p) /\ Kept(p) /\ mail[p].at = "picking"
         /\ \/ \E c \in PickRecipient(mail[p].choice) :
                 Writes(p, "picked", c, mail[p].comm, mail[p].outcome, mail[p].id)
            \/ Writes(p, "returned", mail[p].to, mail[p].comm, "gated", mail[p].id)
<1>1. mail[p].choice \in Choices
  BY DEF MailOK, MailWith
<1>2. \A c \in PickRecipient(mail[p].choice) : c \in Contact \cup {Stranger}
  BY <1>1, PickedMayBeMailed DEF OnFile
<1>3. CASE Returns(p, "gated")
  BY <1>3, MailOutcome DEF Returns, PickAndGate, At, MailAt, Outcome
<1>4. ASSUME NEW c \in PickRecipient(mail[p].choice),
             mail' = [mail EXCEPT ![p].at = "picked", ![p].to = c]
      PROVE  /\ MailOK' /\ Others(p) /\ Kept(p)
             /\ Writes(p, "picked", c, mail[p].comm, mail[p].outcome, mail[p].id)
  BY <1>2, <1>4, MailTo DEF MailAt
<1> QED
  BY <1>3, <1>4 DEF PickAndGate, At

(***************************************************************************)
(* What is on file of a communication, action by action.                   *)
(***************************************************************************)
LEMMA CommsDomain ==
  ASSUME CommsOK
  PROVE  /\ Len(comms) \in Nat /\ DOMAIN comms = 1 .. Len(comms)
         /\ None \notin DOMAIN comms /\ DOMAIN comms \subseteq Nat
         /\ \A k \in DOMAIN comms : comms[k] \in Communication
BY LenProperties, ElementOfSeq DEF CommsOK, None

LEMMA CommSet ==
  ASSUME CommsOK, NEW k \in DOMAIN comms, NEW c \in Communication,
         comms' = [comms EXCEPT ![k] = c]
  PROVE  /\ CommsOK' /\ DOMAIN comms' = DOMAIN comms /\ comms'[k] = c
         /\ \A j \in DOMAIN comms : j # k => comms'[j] = comms[j]
<1>1. k \in 1 .. Len(comms)
  BY CommsDomain
<1>2. comms' \in Seq(Communication)
  BY <1>1, ExceptSeq DEF CommsOK
<1> QED
  BY <1>2 DEF CommsOK

LEMMA CommAppend ==
  ASSUME CommsOK, NEW c \in Communication, comms' = Append(comms, c)
  PROVE  /\ CommsOK' /\ Len(comms') = Len(comms) + 1
         /\ Len(comms') \notin DOMAIN comms
         /\ DOMAIN comms' = DOMAIN comms \cup {Len(comms')}
         /\ \A j \in DOMAIN comms : comms'[j] = comms[j]
         /\ comms'[Len(comms')] = c
<1>1. /\ comms' \in Seq(Communication)
      /\ Len(comms') = Len(comms) + 1
      /\ \A j \in 1 .. Len(comms) : comms'[j] = comms[j]
      /\ comms'[Len(comms) + 1] = c
  BY AppendProperties DEF CommsOK
<1>2. Len(comms) \in Nat /\ DOMAIN comms = 1 .. Len(comms)
  BY CommsDomain
<1>3. DOMAIN comms' = 1 .. Len(comms')
  BY <1>1, LenProperties
<1> QED
  BY <1>1, <1>2, <1>3 DEF CommsOK

(* Of the recorded communications only k changes, and not in what it is    *)
(* about; k may be new, and then it is about what p was asked for.         *)
CommsMove(p, k) ==
  /\ DOMAIN comms \subseteq DOMAIN comms'
  /\ DOMAIN comms' \subseteq DOMAIN comms \cup {k}
  /\ \A j \in DOMAIN comms : j # k => comms'[j] = comms[j]
  /\ k \in DOMAIN comms =>
       /\ comms'[k].origin = comms[k].origin /\ comms'[k].to = comms[k].to
       /\ comms'[k].invoice = comms[k].invoice
       /\ comms[k].id => comms'[k].id
  /\ k \in DOMAIN comms' \ DOMAIN comms =>
       /\ comms'[k].origin = mail[p].origin /\ comms'[k].to = mail[p].to
       /\ comms'[k].invoice = mail[p].invoice

LEMMA CommsStay ==
  ASSUME UNCHANGED comms, NEW p, NEW k
  PROVE  CommsMove(p, k)
BY DEF CommsMove

LEMMA InsertEffect ==
  ASSUME MailOK, CommsOK, NEW p \in Sender, Holds(p), InsertPendingCommunication(p)
  PROVE  /\ MailOK' /\ CommsOK' /\ Others(p) /\ Kept(p) /\ mail[p].at = "picked"
         /\ \/ \E k \in DOMAIN comms' \ DOMAIN comms :
                 /\ Writes(p, "recorded", mail[p].to, k, mail[p].outcome, mail[p].id)
                 /\ CommsMove(p, k) /\ k # None
                 /\ ~comms'[k].id /\ comms'[k].status = "pending"
            \/ /\ Writes(p, "returned", mail[p].to, mail[p].comm, "threw", mail[p].id)
               /\ UNCHANGED comms
<1>1. mail[p].at = "picked"
  BY DEF InsertPendingCommunication, At
<1>2. CASE Returns(p, "threw") /\ UNCHANGED comms
  BY <1>1, <1>2, MailOutcome DEF Returns, MailAt, Outcome, CommsOK
<1> DEFINE c == [origin |-> mail[p].origin, invoice |-> mail[p].invoice,
                 to |-> mail[p].to, status |-> "pending", id |-> FALSE,
                 taken |-> FALSE]
<1>3. CASE /\ comms' = Append(comms, c)
           /\ mail' = [mail EXCEPT ![p].at = "recorded", ![p].comm = Len(comms)']
  <2>1. mail[p].to \in Contact \cup {Stranger}
    BY DEF MailOK, MailWith
  <2>2. c \in Communication
    BY <1>1, <2>1 DEF Holds, Busy, Communication, CommStatus
  <2>3. /\ CommsOK' /\ Len(comms') = Len(comms) + 1
        /\ Len(comms') \notin DOMAIN comms
        /\ DOMAIN comms' = DOMAIN comms \cup {Len(comms')}
        /\ \A j \in DOMAIN comms : comms'[j] = comms[j]
        /\ comms'[Len(comms')] = c
    <3> HIDE DEF c
    <3> QED
      BY <1>3, <2>2, CommAppend
  <2>4. Len(comms') \in Nat
    BY <2>3, CommsDomain
  <2>5. /\ MailOK' /\ Others(p) /\ Kept(p)
        /\ Writes(p, "recorded", mail[p].to, Len(comms'), mail[p].outcome, mail[p].id)
    BY <1>3, <2>4, MailComm DEF MailAt
  <2>6. CommsMove(p, Len(comms')) /\ Len(comms') # None
    BY <2>3, CommsDomain DEF CommsMove, None
  <2> QED
    BY <1>1, <2>3, <2>5, <2>6
<1> QED
  BY <1>1, <1>2, <1>3 DEF InsertPendingCommunication

LEMMA DispatchEffect ==
  ASSUME MailOK, CommsOK, NEW p \in Sender, Holds(p), Files(p), Dispatch(p)
  PROVE  /\ MailOK' /\ CommsOK' /\ Others(p) /\ Kept(p) /\ mail[p].at = "recorded"
         /\ CommsMove(p, mail[p].comm)
         /\ DOMAIN comms' = DOMAIN comms /\ mail[p].comm \in DOMAIN comms
         /\ comms'[mail[p].comm].id = comms[mail[p].comm].id
         /\ comms'[mail[p].comm].status = comms[mail[p].comm].status
         /\ \E outcome \in {"would_send", "sent", "send_failed"},
               id \in BOOLEAN :
              /\ Writes(p, "settled", mail[p].to, mail[p].comm, outcome, id)
              /\ outcome = "sent" => comms'[mail[p].comm].taken
              /\ id => outcome = "sent" \/ id = mail[p].id
<1>1. mail[p].at = "recorded"
  BY DEF Dispatch, At
<1>2. mail[p].comm \in DOMAIN comms
  BY <1>1 DEF Holds, Files
<1>3. mail[p].id \in BOOLEAN /\ mail[p].comm \in Nat
  BY DEF MailOK, MailWith
<1>4. CASE /\ mail' = [mail EXCEPT ![p].at = "settled", ![p].outcome = "would_send"]
           /\ UNCHANGED comms
  <2>1. /\ MailOK' /\ Others(p) /\ Kept(p)
        /\ Writes(p, "settled", mail[p].to, mail[p].comm, "would_send", mail[p].id)
    BY <1>4, MailOutcome DEF MailAt, Outcome
  <2> QED
    BY <1>1, <1>2, <1>3, <1>4, <2>1, CommsStay DEF CommsOK
<1>5. ASSUME NEW answer \in SendEmail,
             mail' = [mail EXCEPT ![p].at = "settled",
                        ![p].outcome = answer.outcome, ![p].id = answer.id],
             comms' = [comms EXCEPT ![mail[p].comm].taken = answer.taken]
      PROVE  /\ MailOK' /\ CommsOK' /\ Others(p) /\ Kept(p)
             /\ CommsMove(p, mail[p].comm) /\ DOMAIN comms' = DOMAIN comms
             /\ comms'[mail[p].comm].id = comms[mail[p].comm].id
             /\ comms'[mail[p].comm].status = comms[mail[p].comm].status
             /\ comms'[mail[p].comm].taken = answer.taken
             /\ Writes(p, "settled", mail[p].to, mail[p].comm, answer.outcome, answer.id)
  <2>1. /\ answer.outcome \in {"sent", "send_failed"} /\ answer.id \in BOOLEAN
        /\ answer.taken \in BOOLEAN
    BY EmailStepAssumption DEF SendEmail, EmailStepAssumption
  <2>2. /\ MailOK' /\ Others(p) /\ Kept(p)
        /\ Writes(p, "settled", mail[p].to, mail[p].comm, answer.outcome, answer.id)
    BY <1>5, <2>1, MailAnswer DEF MailAt, Outcome
  <2> DEFINE c == [comms[mail[p].comm] EXCEPT !.taken = answer.taken]
  <2>3. comms[mail[p].comm] \in Communication
    BY <1>2, CommsDomain
  <2>4. /\ c \in Communication /\ c.taken = answer.taken
        /\ c.id = comms[mail[p].comm].id /\ c.status = comms[mail[p].comm].status
        /\ c.origin = comms[mail[p].comm].origin /\ c.to = comms[mail[p].comm].to
        /\ c.invoice = comms[mail[p].comm].invoice
    BY <2>1, <2>3 DEF Communication
  <2>5. comms' = [comms EXCEPT ![mail[p].comm] = c]
    BY <1>5
  <2>6. /\ CommsOK' /\ DOMAIN comms' = DOMAIN comms /\ comms'[mail[p].comm] = c
        /\ \A j \in DOMAIN comms : j # mail[p].comm => comms'[j] = comms[j]
    <3> HIDE DEF c
    <3> QED
      BY <1>2, <2>4, <2>5, CommSet
  <2> HIDE DEF c
  <2> QED
    BY <1>2, <2>2, <2>4, <2>6 DEF CommsMove
<1>6. \A answer \in SendEmail :
         /\ answer.outcome \in {"sent", "send_failed"} /\ answer.id \in BOOLEAN
         /\ answer.outcome = "sent" => answer.taken
         /\ answer.id => answer.outcome = "sent"
  BY DEF SendEmail
<1>7. CASE \E answer \in SendEmail :
             /\ mail' = [mail EXCEPT ![p].at = "settled",
                           ![p].outcome = answer.outcome, ![p].id = answer.id]
             /\ comms' = [comms EXCEPT ![mail[p].comm].taken = answer.taken]
  BY <1>1, <1>2, <1>5, <1>6, <1>7
<1> QED
  BY <1>4, <1>7 DEF Dispatch

LEMMA FinalizeEffect ==
  ASSUME MailOK, CommsOK, NEW p \in Sender, Holds(p), Files(p), StampAndFinalize(p)
  PROVE  /\ MailOK' /\ CommsOK' /\ Others(p) /\ Kept(p) /\ mail[p].at = "settled"
         /\ CommsMove(p, mail[p].comm)
         /\ DOMAIN comms' = DOMAIN comms /\ mail[p].comm \in DOMAIN comms
         /\ comms'[mail[p].comm].taken = comms[mail[p].comm].taken
         /\ \/ /\ Writes(p, "finalized", mail[p].to, mail[p].comm,
                         mail[p].outcome, mail[p].id)
               /\ comms'[mail[p].comm].id = mail[p].id
               /\ comms'[mail[p].comm].status = FinalStatus(p)
            \/ /\ Writes(p, "returned", mail[p].to, mail[p].comm, "threw", mail[p].id)
               /\ UNCHANGED comms
<1>1. mail[p].at = "settled"
  BY DEF StampAndFinalize, At
<1>2. mail[p].comm \in DOMAIN comms
  BY <1>1 DEF Holds, Files
<1>3. mail[p].outcome \in {"would_send", "sent", "send_failed"}
  BY <1>1 DEF Files
<1>4. ~comms[mail[p].comm].id
  BY <1>1 DEF Files
<1>5. CASE Returns(p, "threw") /\ UNCHANGED comms
  <2>1. /\ MailOK' /\ Others(p) /\ Kept(p)
        /\ Writes(p, "returned", mail[p].to, mail[p].comm, "threw", mail[p].id)
    BY <1>5, MailOutcome DEF Returns, MailAt, Outcome
  <2> QED
    BY <1>1, <1>2, <1>5, <2>1, CommsStay DEF CommsOK
<1>6. ASSUME NEW n, mail' = [mail EXCEPT ![p].at = "finalized", ![p].number = n],
             comms' = [comms EXCEPT ![mail[p].comm].status = FinalStatus(p),
                                    ![mail[p].comm].id = mail[p].id]
      PROVE  /\ MailOK' /\ CommsOK' /\ Others(p) /\ Kept(p)
             /\ CommsMove(p, mail[p].comm) /\ DOMAIN comms' = DOMAIN comms
             /\ comms'[mail[p].comm].taken = comms[mail[p].comm].taken
             /\ comms'[mail[p].comm].id = mail[p].id
             /\ comms'[mail[p].comm].status = FinalStatus(p)
             /\ Writes(p, "finalized", mail[p].to, mail[p].comm,
                       mail[p].outcome, mail[p].id)
  <2>1. /\ MailOK' /\ Others(p) /\ Kept(p)
        /\ Writes(p, "finalized", mail[p].to, mail[p].comm, mail[p].outcome, mail[p].id)
    BY <1>6, MailNumber DEF MailAt
  <2> DEFINE c == [comms[mail[p].comm] EXCEPT !.status = FinalStatus(p),
                                              !.id = mail[p].id]
  <2>2. comms[mail[p].comm] \in Communication /\ mail[p].id \in BOOLEAN
    BY <1>2, CommsDomain DEF MailOK, MailWith
  <2>3. FinalStatus(p) \in CommStatus
    BY <1>3 DEF FinalStatus, CommStatus
  <2>4. /\ c \in Communication /\ c.taken = comms[mail[p].comm].taken
        /\ c.id = mail[p].id /\ c.status = FinalStatus(p)
        /\ c.origin = comms[mail[p].comm].origin /\ c.to = comms[mail[p].comm].to
        /\ c.invoice = comms[mail[p].comm].invoice
    BY <2>2, <2>3 DEF Communication
  <2>5. comms' = [comms EXCEPT ![mail[p].comm] = c]
    BY <1>2, <1>6
  <2>6. /\ CommsOK' /\ DOMAIN comms' = DOMAIN comms /\ comms'[mail[p].comm] = c
        /\ \A j \in DOMAIN comms : j # mail[p].comm => comms'[j] = comms[j]
    <3> HIDE DEF c
    <3> QED
      BY <1>2, <2>4, <2>5, CommSet
  <2> HIDE DEF c
  <2> QED
    BY <1>2, <1>4, <2>1, <2>4, <2>6 DEF CommsMove
<1> QED
  BY <1>1, <1>2, <1>5, <1>6 DEF StampAndFinalize

LEMMA AttemptEffect ==
  ASSUME MailOK, NEW p \in Sender, InsertRecoveryAttempt(p)
  PROVE  /\ MailOK' /\ Others(p) /\ Kept(p) /\ mail[p].at = "finalized"
         /\ \E outcome \in {mail[p].outcome, "threw"} :
              Writes(p, "returned", mail[p].to, mail[p].comm, outcome, mail[p].id)
<1>1. mail[p].at = "finalized"
  BY DEF InsertRecoveryAttempt, At
<1>2. CASE Returns(p, "threw")
  BY <1>1, <1>2, MailOutcome DEF Returns, MailAt, Outcome
<1>3. CASE Goes(p, "returned")
  BY <1>1, <1>3, MailGoes DEF Goes, MailAt
<1> QED
  BY <1>2, <1>3 DEF InsertRecoveryAttempt

(* The send step of p ends or begins: its whole state is written.          *)
LEMMA NewMail ==
  ASSUME MailOK, NEW p \in Sender, NEW m \in MailWith(None),
         mail' = [mail EXCEPT ![p] = m]
  PROVE  MailOK' /\ mail'[p] = m /\ Others(p)
BY MailSet

LEMMA IdleMailOK ==
  IdleMail \in MailWith(None) /\ IdleMail.at = "idle" /\ IdleMail.comm = None
    /\ IdleMail.outcome = "none" /\ IdleMail.to = Stranger
BY DEF IdleMail, MailWith, MailAt, Outcome, Choices, None

(* A step and a call are different origins.                                *)
LEMMA Origins ==
  /\ \A i, k, c : <<i, k>> # <<c>>
  /\ \A i, k, j, l : <<i, k>> = <<j, l>> => i = j /\ k = l
  /\ \A c, d : <<c>> = <<d>> => c = d
OBVIOUS

(***************************************************************************)
(* Ownership is kept by the steps of the send step.  They move one         *)
(* invocation and the communication it owns.                               *)
(***************************************************************************)

(* Who sends for a step is a run, who sends for a call a tool request.     *)
LEMMA Senders ==
  ASSUME OwnInv, NEW p \in Sender, Busy(p)
  PROVE  /\ \A i, k : mail[p].origin = <<i, k>> =>
              p \in Run /\ i = run[p].invoice /\ k = run[p].step
         /\ \A c : mail[p].origin = <<c>> => p \in Tool /\ c = tool[p].call
<1>1. p \in Run \cup Tool
  BY DEF OwnInv, Holds
<1>2. CASE p \in Run
  <2>1. mail[p].origin = <<run[p].invoice, run[p].step>>
    BY <1>2 DEF OwnInv, RunOwns
  <2> QED
    BY <1>2, <2>1, Origins
<1>3. CASE p \in Tool
  <2>1. mail[p].origin = <<tool[p].call>>
    BY <1>3 DEF OwnInv, ToolOwns
  <2> QED
    BY <1>3, <2>1, Origins
<1> QED
  BY <1>1, <1>2, <1>3

(* A step of the send step of p, which moves communication k, its own.     *)
SendMoves(p, k) ==
  /\ MailOK' /\ CommsOK' /\ Others(p) /\ Kept(p) /\ Busy(p) /\ Busy(p)'
  /\ CommsMove(p, k)
  /\ mail'[p].comm = k
  /\ mail[p].comm = k \/ (mail[p].comm = None /\ k \notin DOMAIN comms)
  /\ UNCHANGED <<run, tool, progress, calls, events>>

(* Communication k is about what p was asked for, before and after.        *)
LEMMA MovedOrigin ==
  ASSUME CommsOK, OwnInv, NEW p \in Sender, NEW k, SendMoves(p, k)
  PROVE  /\ k \in DOMAIN comms => comms[k].origin = mail[p].origin
         /\ k \in DOMAIN comms' => comms'[k].origin = mail[p].origin
         /\ \A j \in DOMAIN comms' : j # k => j \in DOMAIN comms /\ comms'[j] = comms[j]
<1>1. Files(p) /\ None \notin DOMAIN comms
  BY CommsDomain DEF OwnInv
<1> QED
  BY <1>1 DEF SendMoves, CommsMove, Files

(* What was on file of another origin is what is on file of it.            *)
LEMMA OtherComms ==
  ASSUME CommsOK, OwnInv, NEW p \in Sender, NEW k, SendMoves(p, k), NEW o,
         o # mail[p].origin
  PROVE  CommsOf(o)' = CommsOf(o) /\ HotOf(o)' = HotOf(o)
<1>1. DOMAIN comms \subseteq DOMAIN comms'
  BY DEF SendMoves, CommsMove
<1>2. \A j \in DOMAIN comms' \cup DOMAIN comms :
         (j \in DOMAIN comms' /\ comms'[j].origin = o) =>
            j \in DOMAIN comms /\ comms'[j] = comms[j]
  BY MovedOrigin
<1>3. \A j \in DOMAIN comms :
         comms[j].origin = o => j \in DOMAIN comms' /\ comms'[j] = comms[j]
  BY <1>1, MovedOrigin
<1>4. CommsOf(o)' = CommsOf(o)
  BY <1>2, <1>3 DEF CommsOf
<1>5. \A j \in CommsOf(o) : Hot(j)' <=> Hot(j)
  BY <1>3 DEF CommsOf, Hot
<1> QED
  BY <1>4, <1>5 DEF HotOf

(* Of its own origin, p may have added k.                                  *)
LEMMA OwnComms ==
  ASSUME CommsOK, OwnInv, NEW p \in Sender, NEW k, SendMoves(p, k),
         NEW o, o = mail[p].origin
  PROVE  /\ CommsOf(o)' \subseteq CommsOf(o) \cup {k}
         /\ HotOf(o)' \subseteq HotOf(o) \cup {k}
<1>1. CommsOf(o)' \subseteq CommsOf(o) \cup {k}
  BY MovedOrigin DEF CommsOf
<1>2. \A j \in DOMAIN comms' : j # k /\ Hot(j)' => Hot(j)
  BY MovedOrigin DEF Hot
<1> QED
  BY <1>1, <1>2 DEF HotOf, CommsOf

LEMMA OthersKeepTheirs ==
  ASSUME CommsOK, OwnInv, NEW p \in Sender, NEW k, SendMoves(p, k),
         NEW q \in Sender, q # p
  PROVE  Holds(q)' /\ Files(q)'
<1>1. mail'[q] = mail[q]
  BY DEF SendMoves, Others
<1>2. Holds(q) /\ Files(q)
  BY DEF OwnInv
<1>3. UNCHANGED <<Run, Tool, TestCall, Origin, Invoice>>
  BY DEF Origin, Step
<1>4. Holds(q)'
  BY <1>1, <1>2 DEF Holds, Busy, Origin, Step
<1>5. mail[q].comm # None =>
         mail[q].comm \in DOMAIN comms' /\ comms'[mail[q].comm] = comms[mail[q].comm]
  <2>1. SUFFICES ASSUME mail[q].comm # None
                 PROVE  mail[q].comm # k
    BY <1>2 DEF SendMoves, CommsMove, Files
  <2>2. Busy(q)
    BY <1>2, <2>1 DEF Holds, Busy
  <2>3. mail[q].origin # mail[p].origin
    BY <2>2 DEF OwnInv, OneOwner, SendMoves
  <2> QED
    BY <1>2, <2>1, <2>3, MovedOrigin DEF Files
<1>6. mail[q].at \in {"recorded", "settled", "finalized"} => mail[q].comm # None
  BY <1>2 DEF Holds
<1>7. Files(q)'
  BY <1>1, <1>2, <1>5, <1>6 DEF Files
<1> QED
  BY <1>4, <1>7

LEMMA SendKeepsOwners ==
  ASSUME TypeInv, OwnInv, NEW p \in Sender, NEW k, SendMoves(p, k),
         Holds(p)', Files(p)',
         k \in DOMAIN comms' /\ comms'[k].id =>
           comms'[k].taken /\ comms'[k].status \in {"sent", "seen"}
  PROVE  OwnInv'
<1> CommsOK /\ EventsOK /\ EventsOK
  BY DEF TypeInv
<1>1. \A q \in Sender : Holds(q)' /\ Files(q)'
  BY OthersKeepTheirs
<1>2. \A q \in Sender : Busy(q)' <=> Busy(q)
  BY DEF SendMoves, Others, Busy
<1>3. \A q \in Sender : mail'[q].origin = mail[q].origin
  BY DEF SendMoves, Others, Kept
<1>4. OneOwner'
  BY <1>2, <1>3 DEF OwnInv, OneOwner
<1>5. IdMeansTaken'
  BY MovedOrigin DEF OwnInv, IdMeansTaken
<1>6. ActiveHasId'
  <2>1. \A j \in DOMAIN comms : comms[j].id => comms'[j].id
    BY DEF SendMoves, CommsMove
  <2>2. events' = events
    BY DEF SendMoves
  <2> QED
    BY <2>1, <2>2 DEF OwnInv, ActiveHasId, EventsOK, NeedsAttention
(* What it was about is no more on file than before but for k, which its   *)
(* owner holds.                                                            *)
<1>7. ASSUME NEW q \in Sender, NEW o, o = mail[q].origin, Busy(q)
      PROVE  /\ CommsOf(o) \subseteq {mail[q].comm} =>
                  CommsOf(o)' \subseteq {mail'[q].comm}
             /\ HotOf(o) \subseteq {mail[q].comm} =>
                  HotOf(o)' \subseteq {mail'[q].comm}
  <2>1. CASE q = p
    <3>1. mail'[p].comm = k /\ None \notin DOMAIN comms
      BY CommsDomain DEF SendMoves
    <3>2. CommsOf(o) \subseteq DOMAIN comms /\ HotOf(o) \subseteq DOMAIN comms
      BY DEF HotOf, CommsOf
    <3> QED
      BY <1>7, <2>1, <3>1, <3>2, OwnComms DEF SendMoves
  <2>2. CASE q # p
    <3>1. o # mail[p].origin /\ mail'[q] = mail[q]
      BY <1>7, <2>2 DEF OwnInv, OneOwner, SendMoves, Others
    <3> QED
      BY <3>1, OtherComms
  <2> QED
    BY <2>1, <2>2
<1>8. ASSUME NEW r \in Run PROVE RunOwns(r)'
  <2>1. RunOwns(r) /\ r \in Sender
    BY CadenceAssumption DEF OwnInv, CadenceAssumption
  <2>2. PICK o : o = mail[r].origin
    OBVIOUS
  <2>3. run' = run /\ progress' = progress /\ mail'[r].origin = o
    BY <1>3, <2>1, <2>2 DEF SendMoves
  <2>4. Busy(r)' => HotOf(o)' \subseteq {mail'[r].comm}
    BY <1>2, <1>7, <2>1, <2>2 DEF RunOwns
  <2>5. Busy(r)' => HotOf(mail[r].origin)' \subseteq {mail'[r].comm}
    BY <2>3, <2>4 DEF HotOf, CommsOf
  <2> QED
    BY <1>2, <1>3, <2>1, <2>3, <2>5 DEF RunOwns
<1>9. ASSUME NEW t \in Tool PROVE ToolOwns(t)'
  <2>1. ToolOwns(t) /\ t \in Sender
    BY VoiceAssumption DEF OwnInv, VoiceAssumption
  <2>2. PICK o : o = mail[t].origin
    OBVIOUS
  <2>3. tool' = tool /\ calls' = calls /\ mail'[t].origin = o
    BY <1>3, <2>1, <2>2 DEF SendMoves
  <2>4. Busy(t)' => CommsOf(o)' \subseteq {mail'[t].comm}
    BY <1>2, <1>7, <2>1, <2>2 DEF ToolOwns
  <2>5. Busy(t)' => CommsOf(mail[t].origin)' \subseteq {mail'[t].comm}
    BY <2>3, <2>4 DEF CommsOf
  <2> QED
    BY <1>2, <1>3, <2>1, <2>3, <2>5 DEF ToolOwns
<1>10. ASSUME NEW i \in Invoice, NEW l \in Step PROVE StepOwned(i, l)'
  <2> DEFINE o == <<i, l>>
  <2>1. StepOwned(i, l)
    BY DEF OwnInv
  <2>2. CASE o # mail[p].origin
    <3>1. HotOf(o)' = HotOf(o)
      BY <2>2, OtherComms
    <3> QED
      BY <2>1, <3>1 DEF StepOwned, SendMoves
  <2>3. CASE o = mail[p].origin
    <3>1. p \in Run /\ i = run[p].invoice /\ l = run[p].step
      BY <2>3, Senders DEF SendMoves
    <3>2. RunOwns(p)
      BY <3>1 DEF OwnInv
    <3>3. HotOf(o)' \subseteq {mail'[p].comm}
      BY <1>7, <2>3, <3>2 DEF SendMoves, RunOwns
    <3>4. progress'[i][l] = "claimed"
      BY <3>1, <3>2 DEF RunOwns, SendMoves
    <3> QED
      BY <3>3, <3>4 DEF StepOwned
  <2> QED
    BY <2>2, <2>3
<1>11. ASSUME NEW c \in Call PROVE CallOwned(c)'
  <2> DEFINE o == <<c>>
  <2>1. CallOwned(c)
    BY DEF OwnInv
  <2>2. CASE o # mail[p].origin
    <3>1. CommsOf(o)' = CommsOf(o)
      BY <2>2, OtherComms
    <3> QED
      BY <2>1, <3>1 DEF CallOwned, SendMoves
  <2>3. CASE o = mail[p].origin
    <3>1. p \in Tool /\ c = tool[p].call
      BY <2>3, Senders DEF SendMoves
    <3>2. ToolOwns(p)
      BY <3>1 DEF OwnInv
    <3>3. CommsOf(o)' \subseteq {mail'[p].comm}
      BY <1>7, <2>3, <3>2 DEF SendMoves, ToolOwns
    <3>4. calls'[c].handoff = "claimed"
      BY <3>1, <3>2 DEF ToolOwns, SendMoves
    <3> QED
      BY <3>3, <3>4 DEF CallOwned
  <2> QED
    BY <2>2, <2>3
<1> QED
  BY <1>1, <1>4, <1>5, <1>6, <1>8, <1>9, <1>10, <1>11 DEF OwnInv, Step

(* What each of its steps leaves p holding. *)
SendKept(p) ==
  /\ OwnInv' /\ MailOK' /\ CommsOK' /\ Others(p) /\ Kept(p)
  /\ \E k : SendMoves(p, k)

LEMMA PickKeepsOwners ==
  ASSUME TypeInv, OwnInv, NEW p \in Sender, PickAndGate(p),
         UNCHANGED <<cadenceVars, eventVars, voiceVars>>
  PROVE  SendKept(p)
<1> MailOK /\ CommsOK /\ Holds(p) /\ Files(p)
  BY DEF TypeInv, OwnInv
<1>1. /\ MailOK' /\ Others(p) /\ Kept(p) /\ mail[p].at = "picking"
      /\ mail'[p].at \in {"picked", "returned"}
      /\ mail'[p].comm = mail[p].comm /\ mail'[p].id = mail[p].id
      /\ mail'[p].at = "picked" => mail'[p].outcome = mail[p].outcome
      /\ mail'[p].at = "returned" => mail'[p].outcome = "gated"
  BY PickEffect DEF Writes
<1>2. UNCHANGED <<comms, run, tool, progress, calls, events>>
  BY DEF PickAndGate, cadenceVars, eventVars, voiceVars
<1>3. mail[p].comm = None
  BY <1>1 DEF Holds
<1>4. SendMoves(p, None)
  BY <1>1, <1>2, <1>3, CommsStay DEF SendMoves, Busy, CommsOK
<1>5. Holds(p)'
  BY <1>1, <1>3 DEF Holds, Busy, Kept, Origin, Step
<1>6. Files(p)'
  BY <1>1, <1>3 DEF Files
<1>7. None \notin DOMAIN comms'
  BY <1>2, CommsDomain
<1> QED
  BY <1>1, <1>2, <1>4, <1>5, <1>6, <1>7, SendKeepsOwners DEF SendKept, CommsOK

LEMMA InsertKeepsOwners ==
  ASSUME TypeInv, OwnInv, NEW p \in Sender, InsertPendingCommunication(p),
         UNCHANGED <<cadenceVars, eventVars, voiceVars>>
  PROVE  SendKept(p)
<1> MailOK /\ CommsOK /\ Holds(p) /\ Files(p)
  BY DEF TypeInv, OwnInv
<1>1. /\ MailOK' /\ CommsOK' /\ Others(p) /\ Kept(p) /\ mail[p].at = "picked"
      /\ mail[p].comm = None
  BY InsertEffect DEF Holds
<1>2. UNCHANGED <<run, tool, progress, calls, events>>
  BY DEF cadenceVars, eventVars, voiceVars
<1>3. CASE \E k \in DOMAIN comms' \ DOMAIN comms :
             /\ Writes(p, "recorded", mail[p].to, k, mail[p].outcome, mail[p].id)
             /\ CommsMove(p, k) /\ k # None
             /\ ~comms'[k].id /\ comms'[k].status = "pending"
  <2>1. PICK k \in DOMAIN comms' \ DOMAIN comms :
             /\ Writes(p, "recorded", mail[p].to, k, mail[p].outcome, mail[p].id)
             /\ CommsMove(p, k) /\ k # None
             /\ ~comms'[k].id /\ comms'[k].status = "pending"
    BY <1>3
  <2>2. SendMoves(p, k)
    BY <1>1, <1>2, <2>1 DEF SendMoves, Busy, Writes
  <2>3. Holds(p)'
    BY <1>1, <2>1 DEF Holds, Busy, Kept, Writes, Origin, Step
  <2>4. Files(p)'
    BY <1>1, <2>1 DEF Files, Kept, Writes, CommsMove
  <2> QED
    BY <1>1, <2>1, <2>2, <2>3, <2>4, SendKeepsOwners DEF SendKept
<1>4. CASE /\ Writes(p, "returned", mail[p].to, mail[p].comm, "threw", mail[p].id)
           /\ UNCHANGED comms
  <2>1. None \notin DOMAIN comms'
    BY <1>4, CommsDomain
  <2>2. SendMoves(p, None)
    BY <1>1, <1>2, <1>4, <2>1, CommsStay DEF SendMoves, Busy, Writes
  <2>3. Holds(p)'
    BY <1>1, <1>4 DEF Holds, Busy, Kept, Writes, Origin, Step
  <2>4. Files(p)'
    BY <1>1, <1>4 DEF Files, Writes
  <2> QED
    BY <1>1, <2>1, <2>2, <2>3, <2>4, SendKeepsOwners DEF SendKept
<1> QED
  BY <1>3, <1>4, InsertEffect

LEMMA DispatchKeepsOwners ==
  ASSUME TypeInv, OwnInv, NEW p \in Sender, Dispatch(p),
         UNCHANGED <<cadenceVars, eventVars, voiceVars>>
  PROVE  SendKept(p)
<1> MailOK /\ CommsOK /\ Holds(p) /\ Files(p)
  BY DEF TypeInv, OwnInv
<1> DEFINE k == mail[p].comm
<1>1. /\ MailOK' /\ CommsOK' /\ Others(p) /\ Kept(p) /\ mail[p].at = "recorded"
      /\ CommsMove(p, k) /\ DOMAIN comms' = DOMAIN comms /\ k \in DOMAIN comms
      /\ comms'[k].id = comms[k].id /\ comms'[k].status = comms[k].status
  BY DispatchEffect
<1>2. PICK outcome \in {"would_send", "sent", "send_failed"}, id \in BOOLEAN :
         /\ Writes(p, "settled", mail[p].to, mail[p].comm, outcome, id)
         /\ outcome = "sent" => comms'[k].taken
         /\ id => outcome = "sent" \/ id = mail[p].id
  BY DispatchEffect
<1>3. UNCHANGED <<run, tool, progress, calls, events>>
  BY DEF cadenceVars, eventVars, voiceVars
<1>4. k # None /\ ~mail[p].id
  BY <1>1 DEF Holds
<1>5. ~comms[k].id /\ comms[k].status = "pending"
  BY <1>1 DEF Files
<1>6. SendMoves(p, k)
  BY <1>1, <1>2, <1>3 DEF SendMoves, Busy, Writes
<1>7. Holds(p)'
  BY <1>1, <1>2, <1>4 DEF Holds, Busy, Kept, Writes, Origin, Step
<1>8. Files(p)'
  <2>1. comms'[k].origin = mail'[p].origin /\ comms'[k].invoice = mail'[p].invoice
    BY <1>1, <1>4 DEF Files, Kept, CommsMove
  <2> QED
    BY <1>1, <1>2, <1>4, <1>5, <2>1 DEF Files, Writes
<1> QED
  BY <1>1, <1>5, <1>6, <1>7, <1>8, SendKeepsOwners DEF SendKept

LEMMA FinalizeKeepsOwners ==
  ASSUME TypeInv, OwnInv, NEW p \in Sender, StampAndFinalize(p),
         UNCHANGED <<cadenceVars, eventVars, voiceVars>>
  PROVE  SendKept(p)
<1> MailOK /\ CommsOK /\ Holds(p) /\ Files(p)
  BY DEF TypeInv, OwnInv
<1> DEFINE k == mail[p].comm
<1>1. /\ MailOK' /\ CommsOK' /\ Others(p) /\ Kept(p) /\ mail[p].at = "settled"
      /\ CommsMove(p, k) /\ DOMAIN comms' = DOMAIN comms /\ k \in DOMAIN comms
      /\ comms'[k].taken = comms[k].taken
  BY FinalizeEffect
<1>2. UNCHANGED <<run, tool, progress, calls, events>>
  BY DEF cadenceVars, eventVars, voiceVars
<1>3. k # None
  BY <1>1 DEF Holds
<1>4. /\ mail[p].outcome \in {"would_send", "sent", "send_failed"}
      /\ mail[p].outcome = "sent" => comms[k].taken
      /\ mail[p].id => mail[p].outcome = "sent"
      /\ ~comms[k].id
  BY <1>1 DEF Files
<1>5. comms'[k].origin = mail'[p].origin /\ comms'[k].invoice = mail'[p].invoice
  BY <1>1, <1>3 DEF Files, Kept, CommsMove
<1>6. CASE /\ Writes(p, "finalized", mail[p].to, mail[p].comm, mail[p].outcome, mail[p].id)
           /\ comms'[k].id = mail[p].id
           /\ comms'[k].status = FinalStatus(p)
  <2>1. SendMoves(p, k)
    BY <1>1, <1>2, <1>6 DEF SendMoves, Busy, Writes
  <2>2. Holds(p)'
    BY <1>1, <1>3, <1>4, <1>6 DEF Holds, Busy, Kept, Writes, Origin, Step
  <2>3. /\ mail[p].outcome = "sent" => FinalStatus(p) = "sent"
        /\ mail[p].outcome = "send_failed" => FinalStatus(p) = "failed"
    BY <1>4 DEF FinalStatus
  <2>4. Files(p)'
    BY <1>1, <1>3, <1>4, <1>5, <1>6, <2>3 DEF Files, Writes
  <2>5. comms'[k].id => comms'[k].taken /\ comms'[k].status \in {"sent", "seen"}
    BY <1>1, <1>4, <1>6, <2>3
  <2> QED
    BY <1>1, <2>1, <2>2, <2>4, <2>5, SendKeepsOwners DEF SendKept
<1>7. CASE /\ Writes(p, "returned", mail[p].to, mail[p].comm, "threw", mail[p].id)
           /\ UNCHANGED comms
  <2>1. SendMoves(p, k)
    BY <1>1, <1>2, <1>7 DEF SendMoves, Busy, Writes
  <2>2. Holds(p)'
    BY <1>1, <1>3, <1>4, <1>7 DEF Holds, Busy, Kept, Writes, Origin, Step
  <2>3. Files(p)'
    BY <1>1, <1>3, <1>5, <1>7 DEF Files, Writes
  <2> QED
    BY <1>1, <1>4, <1>7, <2>1, <2>2, <2>3, SendKeepsOwners DEF SendKept
<1> QED
  BY <1>6, <1>7, FinalizeEffect

LEMMA AttemptKeepsOwners ==
  ASSUME TypeInv, OwnInv, NEW p \in Sender, InsertRecoveryAttempt(p),
         UNCHANGED <<cadenceVars, eventVars, voiceVars>>
  PROVE  SendKept(p)
<1> MailOK /\ CommsOK /\ Holds(p) /\ Files(p)
  BY DEF TypeInv, OwnInv
<1> DEFINE k == mail[p].comm
<1>1. MailOK' /\ Others(p) /\ Kept(p) /\ mail[p].at = "finalized"
  BY AttemptEffect
<1>2. PICK outcome \in {mail[p].outcome, "threw"} :
         Writes(p, "returned", mail[p].to, mail[p].comm, outcome, mail[p].id)
  BY AttemptEffect
<1>3. UNCHANGED <<comms, run, tool, progress, calls, events>>
  BY DEF InsertRecoveryAttempt, cadenceVars, eventVars, voiceVars
<1>4. k # None
  BY <1>1 DEF Holds
<1>5. SendMoves(p, k)
  BY <1>1, <1>2, <1>3, CommsStay DEF SendMoves, Busy, Writes, CommsOK
<1>6. Holds(p)'
  BY <1>1, <1>2, <1>4 DEF Holds, Busy, Kept, Writes, Origin, Step
<1>7. Files(p)'
  BY <1>1, <1>2, <1>3, <1>4 DEF Files, Writes, Kept
<1>8. comms'[k].id => comms'[k].taken /\ comms'[k].status \in {"sent", "seen"}
  BY <1>3, <1>4 DEF OwnInv, IdMeansTaken, Files
<1> QED
  BY <1>1, <1>3, <1>5, <1>6, <1>7, <1>8, SendKeepsOwners DEF SendKept, CommsOK

LEMMA SendStepKeepsOwners ==
  ASSUME TypeInv, OwnInv, NEW p \in Sender, SendEmailStep(p),
         UNCHANGED <<cadenceVars, eventVars, voiceVars>>
  PROVE  SendKept(p)
BY PickKeepsOwners, InsertKeepsOwners, DispatchKeepsOwners,
   FinalizeKeepsOwners, AttemptKeepsOwners DEF SendEmailStep

(***************************************************************************)
(* Ownership is kept where a send step begins and where it ends.           *)
(***************************************************************************)
LEMMA SameFiles ==
  ASSUME UNCHANGED comms
  PROVE  \A o : CommsOf(o)' = CommsOf(o) /\ HotOf(o)' = HotOf(o)
BY DEF CommsOf, HotOf, Hot

(* The state of p's send step is replaced by an idle or a fresh one.       *)
Replaces(p, m) ==
  /\ mail' = [mail EXCEPT ![p] = m]
  /\ m.at \in {"idle", "picking"} /\ m.comm = None /\ m.outcome = "none"
  /\ m.at = "picking" =>
       /\ m.origin \in Origin /\ m.invoice \in Invoice /\ ~m.id
       /\ ~m.quiet => \A c \in TestCall : m.origin # <<c>>
       /\ \A q \in Sender : q # p /\ Busy(q) => mail[q].origin # m.origin
  /\ UNCHANGED <<comms, events>>

LEMMA ReplacingKeeps ==
  ASSUME TypeInv, OwnInv, NEW p \in Run \cup Tool, NEW m \in MailWith(None),
         Replaces(p, m)
  PROVE  /\ MailOK' /\ CommsOK' /\ mail'[p] = m /\ Others(p)
         /\ \A q \in Sender : Holds(q)' /\ Files(q)'
         /\ OneOwner' /\ IdMeansTaken' /\ ActiveHasId'
<1>1. p \in Sender
  BY CadenceAssumption, VoiceAssumption DEF CadenceAssumption, VoiceAssumption
<1>2. MailOK' /\ mail'[p] = m /\ Others(p)
  BY <1>1, NewMail DEF TypeInv, Replaces
<1>3. UNCHANGED <<comms, events>>
  BY DEF Replaces
<1>4. ASSUME NEW q \in Sender PROVE Holds(q)' /\ Files(q)'
  <2>1. Holds(q) /\ Files(q)
    BY DEF OwnInv
  <2>2. CASE q = p
    <3>1. Holds(q)'
      BY <1>2, <2>2 DEF Replaces, Holds, Busy, Origin, Step
    <3>2. Files(q)'
      BY <1>2, <2>2 DEF Replaces, Files
    <3> QED
      BY <3>1, <3>2
  <2>3. CASE q # p
    <3>1. mail'[q] = mail[q]
      BY <1>2, <2>3 DEF Others
    <3> QED
      BY <1>3, <2>1, <3>1 DEF Holds, Files, Busy, Origin, Step
  <2> QED
    BY <2>2, <2>3
<1>5. OneOwner'
  BY <1>2 DEF OwnInv, OneOwner, Busy, Others, Replaces
<1>6. IdMeansTaken' /\ ActiveHasId' /\ CommsOK'
  BY <1>3 DEF OwnInv, TypeInv, IdMeansTaken, ActiveHasId, CommsOK, NeedsAttention
<1> QED
  BY <1>2, <1>4, <1>5, <1>6

LEMMA RunsAndTools ==
  /\ Run \subseteq Sender /\ Tool \subseteq Sender /\ Run \cap Tool = {}
BY CadenceAssumption, VoiceAssumption DEF CadenceAssumption, VoiceAssumption

(* A run replaces the state of its send step, and the row of its step.     *)
LEMMA RunReplaces ==
  ASSUME TypeInv, OwnInv, NEW r \in Run, NEW m \in MailWith(None),
         Replaces(r, m), UNCHANGED <<tool, calls>>,
         \A q \in Run : q # r => run'[q] = run[q],
         run'[r].at = "send" <=> m.at = "picking",
         m.at = "picking" =>
           /\ m.origin = <<run'[r].invoice, run'[r].step>>
           /\ progress'[run'[r].invoice][run'[r].step] = "claimed"
           /\ HotOf(m.origin) = {},
         \A q \in Run : q # r /\ Busy(q) =>
           progress'[run[q].invoice][run[q].step] = "claimed",
         \A i \in Invoice, k \in Step :
           progress'[i][k] = "none" => HotOf(<<i, k>>) = {}
  PROVE  OwnInv' /\ MailOK' /\ CommsOK'
<1>1. /\ MailOK' /\ CommsOK' /\ mail'[r] = m /\ Others(r)
      /\ \A q \in Sender : Holds(q)' /\ Files(q)'
      /\ OneOwner' /\ IdMeansTaken' /\ ActiveHasId'
  BY ReplacingKeeps
<1>2. \A o : CommsOf(o)' = CommsOf(o) /\ HotOf(o)' = HotOf(o)
  BY SameFiles DEF Replaces
<1>3. ASSUME NEW q \in Run PROVE RunOwns(q)'
  <2>1. CASE q = r
    <3>1. Busy(q)' <=> m.at = "picking"
      BY <1>1, <2>1 DEF Busy, Replaces
    <3>2. PICK o : o = m.origin
      OBVIOUS
    <3>3. m.at = "picking" => HotOf(o)' \subseteq {mail'[q].comm}
      BY <1>2, <3>2
    <3>4. m.at = "picking" => HotOf(mail[q].origin)' \subseteq {mail'[q].comm}
      BY <1>1, <2>1, <3>2, <3>3 DEF HotOf, CommsOf
    <3> QED
      BY <1>1, <2>1, <3>1, <3>4 DEF RunOwns
  <2>2. CASE q # r
    <3>1. mail'[q] = mail[q] /\ run'[q] = run[q] /\ RunOwns(q)
      BY <1>1, <2>2, RunsAndTools DEF Others, OwnInv
    <3>2. PICK o : o = mail[q].origin
      OBVIOUS
    <3>3. HotOf(o)' = HotOf(o)
      BY <1>2
    <3>4. HotOf(mail[q].origin)' = HotOf(mail[q].origin)
      BY <3>1, <3>2, <3>3 DEF HotOf, CommsOf
    <3> QED
      BY <2>2, <3>1, <3>4 DEF RunOwns, Busy
  <2> QED
    BY <2>1, <2>2
<1>4. ASSUME NEW t \in Tool PROVE ToolOwns(t)'
  <2>1. mail'[t] = mail[t] /\ ToolOwns(t)
    BY <1>1, RunsAndTools DEF Others, OwnInv
  <2>2. PICK o : o = mail[t].origin
    OBVIOUS
  <2>3. CommsOf(o)' = CommsOf(o)
    BY <1>2
  <2>4. CommsOf(mail[t].origin)' = CommsOf(mail[t].origin)
    BY <2>1, <2>2, <2>3 DEF CommsOf
  <2> QED
    BY <2>1, <2>4 DEF ToolOwns, Busy
<1>5. ASSUME NEW i \in Invoice, NEW k \in Step PROVE StepOwned(i, k)'
  BY <1>2 DEF OwnInv, StepOwned
<1>6. ASSUME NEW c \in Call PROVE CallOwned(c)'
  BY <1>2 DEF OwnInv, CallOwned
<1> QED
  BY <1>1, <1>3, <1>4, <1>5, <1>6 DEF OwnInv, Step

(* So does a tool request, and the row of its call.                        *)
LEMMA ToolReplaces ==
  ASSUME TypeInv, OwnInv, NEW t \in Tool, NEW m \in MailWith(None),
         Replaces(t, m), UNCHANGED <<run, progress>>,
         \A q \in Tool : q # t => tool'[q] = tool[q],
         tool'[t].at = "send" <=> m.at = "picking",
         m.at = "picking" =>
           /\ m.origin = <<tool'[t].call>>
           /\ calls'[tool'[t].call].handoff = "claimed"
           /\ CommsOf(m.origin) = {},
         \A q \in Tool : q # t /\ Busy(q) =>
           calls'[tool[q].call].handoff = "claimed",
         \A c \in Call : calls'[c].handoff = "null" => CommsOf(<<c>>) = {}
  PROVE  OwnInv' /\ MailOK' /\ CommsOK'
<1>1. /\ MailOK' /\ CommsOK' /\ mail'[t] = m /\ Others(t)
      /\ \A q \in Sender : Holds(q)' /\ Files(q)'
      /\ OneOwner' /\ IdMeansTaken' /\ ActiveHasId'
  BY ReplacingKeeps
<1>2. \A o : CommsOf(o)' = CommsOf(o) /\ HotOf(o)' = HotOf(o)
  BY SameFiles DEF Replaces
<1>3. ASSUME NEW q \in Tool PROVE ToolOwns(q)'
  <2>1. CASE q = t
    <3>1. Busy(q)' <=> m.at = "picking"
      BY <1>1, <2>1 DEF Busy, Replaces
    <3>2. PICK o : o = m.origin
      OBVIOUS
    <3>3. m.at = "picking" => CommsOf(o)' \subseteq {mail'[q].comm}
      BY <1>2, <3>2
    <3>4. m.at = "picking" => CommsOf(mail[q].origin)' \subseteq {mail'[q].comm}
      BY <1>1, <2>1, <3>2, <3>3 DEF CommsOf
    <3> QED
      BY <1>1, <2>1, <3>1, <3>4 DEF ToolOwns
  <2>2. CASE q # t
    <3>1. mail'[q] = mail[q] /\ tool'[q] = tool[q] /\ ToolOwns(q)
      BY <1>1, <2>2, RunsAndTools DEF Others, OwnInv
    <3>2. PICK o : o = mail[q].origin
      OBVIOUS
    <3>3. CommsOf(o)' = CommsOf(o)
      BY <1>2
    <3>4. CommsOf(mail[q].origin)' = CommsOf(mail[q].origin)
      BY <3>1, <3>2, <3>3 DEF CommsOf
    <3> QED
      BY <2>2, <3>1, <3>4 DEF ToolOwns, Busy
  <2> QED
    BY <2>1, <2>2
<1>4. ASSUME NEW r \in Run PROVE RunOwns(r)'
  <2>1. mail'[r] = mail[r] /\ RunOwns(r)
    BY <1>1, RunsAndTools DEF Others, OwnInv
  <2>2. PICK o : o = mail[r].origin
    OBVIOUS
  <2>3. HotOf(o)' = HotOf(o)
    BY <1>2
  <2>4. HotOf(mail[r].origin)' = HotOf(mail[r].origin)
    BY <2>1, <2>2, <2>3 DEF HotOf, CommsOf
  <2> QED
    BY <2>1, <2>4 DEF RunOwns, Busy
<1>5. ASSUME NEW i \in Invoice, NEW k \in Step PROVE StepOwned(i, k)'
  BY <1>2 DEF OwnInv, StepOwned
<1>6. ASSUME NEW c \in Call PROVE CallOwned(c)'
  BY <1>2 DEF OwnInv, CallOwned
<1> QED
  BY <1>1, <1>3, <1>4, <1>5, <1>6 DEF OwnInv, Step

(* Whatever does not touch a mail, a record or a claim keeps who owns it.  *)
LEMMA OwnersStay ==
  ASSUME TypeInv, OwnInv, UNCHANGED <<mail, comms, progress>>, ActiveHasId',
         \A r \in Run :
           run'[r] = run[r] \/ (run[r].at # "send" /\ run'[r].at # "send"),
         \A t \in Tool :
           tool'[t] = tool[t] \/ (tool[t].at # "send" /\ tool'[t].at # "send"),
         \A c \in Call : calls'[c].handoff = calls[c].handoff
  PROVE  OwnInv' /\ MailOK' /\ CommsOK'
<1>1. MailOK' /\ CommsOK'
  BY DEF TypeInv, MailOK, CommsOK, MailWith, Origin, Step
<1>2. \A q \in Sender : Holds(q)' /\ Files(q)'
  BY DEF OwnInv, Holds, Files, Busy, Origin, Step
<1>3. OneOwner' /\ IdMeansTaken'
  BY DEF OwnInv, OneOwner, IdMeansTaken, Busy
<1>4. \A o : CommsOf(o)' = CommsOf(o) /\ HotOf(o)' = HotOf(o)
  BY SameFiles
<1>5. ASSUME NEW r \in Run PROVE RunOwns(r)'
  <2>1. RunOwns(r)
    BY DEF OwnInv
  <2>2. HotOf(mail[r].origin)' = HotOf(mail[r].origin)
    BY DEF HotOf, CommsOf, Hot
  <2> QED
    BY <2>1, <2>2 DEF RunOwns, Busy
<1>6. ASSUME NEW t \in Tool PROVE ToolOwns(t)'
  <2>1. ToolOwns(t)
    BY DEF OwnInv
  <2>2. CommsOf(mail[t].origin)' = CommsOf(mail[t].origin)
    BY DEF CommsOf
  <2>3. tool[t].at # "idle" => tool[t].call \in Call
    BY DEF TypeInv, ToolOK
  <2> QED
    BY <2>1, <2>2, <2>3 DEF ToolOwns, Busy
<1>7. \A i \in Invoice, k \in Step : StepOwned(i, k)'
  BY <1>4 DEF OwnInv, StepOwned
<1>8. \A c \in Call : CallOwned(c)'
  BY <1>4 DEF OwnInv, CallOwned
<1> QED
  BY <1>1, <1>2, <1>3, <1>5, <1>6, <1>7, <1>8 DEF OwnInv, Step

LEMMA ClaimStepKeepsOwners ==
  ASSUME TypeInv, OwnInv, NEW r \in Run, ClaimStep(r),
         UNCHANGED <<contactVars, eventVars, voiceVars>>
  PROVE  OwnInv' /\ MailOK' /\ CommsOK'
<1> MailOK /\ CommsOK /\ RunOK /\ ProgressOK /\ r \in Sender
  BY RunsAndTools DEF TypeInv
<1> DEFINE i == run[r].invoice
           k == run[r].step
           m == Request(<<i, k>>, i, [by |-> "default"], run[r].mode, FALSE)
<1>1. /\ run[r].at = "claim" /\ i \in Invoice /\ k \in Step
      /\ run[r].mode \in {"dry_run", "live"} /\ DOMAIN run = Run
  BY DEF ClaimStep, RunOK, RunRecord, Modes
<1>2. UNCHANGED <<comms, events, tool, calls>>
  BY DEF ClaimStep, eventVars, voiceVars
<1>3. CASE /\ Claimable(i, k)
           /\ progress' = [progress EXCEPT ![i][k] = "claimed"]
           /\ run' = [run EXCEPT ![r].at = "send"]
           /\ mail' = [mail EXCEPT ![r] = m]
  <2>1. <<i, k>> \in Origin
    BY <1>1 DEF Origin
  <2>2. [by |-> "default"] \in Choices
    BY DEF Choices
  <2>3. /\ m \in MailWith(None) /\ m.at = "picking" /\ m.origin = <<i, k>>
        /\ m.invoice = i /\ m.comm = None /\ m.outcome = "none" /\ ~m.quiet
        /\ ~m.id
    <3>1. m \in MailWith(None)
      BY <1>1, <2>1, <2>2 DEF Request, IdleMail, MailWith, MailAt, Outcome, None
    <3> QED
      BY <3>1 DEF Request, IdleMail
  <2>4. progress[i][k] = "none"
    BY <1>3 DEF Claimable
  <2>5. \A q \in Sender : q # r /\ Busy(q) => mail[q].origin # <<i, k>>
    <3>1. SUFFICES ASSUME NEW q \in Sender, Busy(q), mail[q].origin = <<i, k>>
                   PROVE  FALSE
      OBVIOUS
    <3>2. q \in Run /\ i = run[q].invoice /\ k = run[q].step
      BY <3>1, Senders
    <3>3. progress[i][k] = "claimed"
      BY <3>1, <3>2 DEF OwnInv, RunOwns
    <3> QED
      BY <2>4, <3>3
  <2>6. \A c \in TestCall : <<i, k>> # <<c>>
    BY Origins
  <2>7. Replaces(r, m)
    <3> HIDE DEF m
    <3> QED
      BY <1>1, <1>2, <1>3, <2>1, <2>3, <2>5, <2>6 DEF Replaces
  <2>8. HotOf(<<i, k>>) = {}
    BY <1>1, <2>4 DEF OwnInv, StepOwned
  <2>9. /\ run'[r].at = "send" /\ run'[r].invoice = i /\ run'[r].step = k
        /\ \A q \in Run : q # r => run'[q] = run[q]
    BY <1>1, <1>3 DEF RunOK
  <2>10. /\ progress'[i][k] = "claimed"
         /\ \A j \in Invoice, l \in Step :
              progress'[j][l] = progress[j][l] \/ (j = i /\ l = k)
    BY <1>1, <1>3 DEF ProgressOK
  <2>11. \A q \in Run : q # r /\ Busy(q) =>
           progress'[run[q].invoice][run[q].step] = "claimed"
    <3>1. SUFFICES ASSUME NEW q \in Run, Busy(q)
                   PROVE  progress'[run[q].invoice][run[q].step] = "claimed"
      OBVIOUS
    <3>2. /\ progress[run[q].invoice][run[q].step] = "claimed"
          /\ run[q].invoice \in Invoice /\ run[q].step \in Step
      BY <3>1 DEF OwnInv, RunOwns, RunOK
    <3> QED
      BY <2>10, <3>2
  <2>12. \A j \in Invoice, l \in Step :
           progress'[j][l] = "none" => HotOf(<<j, l>>) = {}
    BY <2>10 DEF OwnInv, StepOwned
  <2> HIDE DEF m
  <2> QED
    BY <1>2, <2>3, <2>7, <2>8, <2>9, <2>10, <2>11, <2>12, RunReplaces
<1>4. CASE /\ run' = [run EXCEPT ![r].at = "loop", ![r].invoice = None,
                                 ![r].step = None]
           /\ UNCHANGED <<progress, mail>>
  <2>1. /\ run'[r].at = "loop"
        /\ \A q \in Run : q # r => run'[q] = run[q]
    BY <1>1, <1>4 DEF RunOK
  <2>2. ActiveHasId'
    BY <1>2 DEF OwnInv, ActiveHasId, NeedsAttention
  <2> QED
    BY <1>1, <1>2, <1>4, <2>1, <2>2, OwnersStay
<1> QED
  BY <1>3, <1>4 DEF ClaimStep

LEMMA IdleReplaces ==
  ASSUME NEW p \in Sender, mail' = [mail EXCEPT ![p] = IdleMail],
         UNCHANGED <<comms, events>>
  PROVE  Replaces(p, IdleMail) /\ IdleMail \in MailWith(None)
           /\ IdleMail.at # "picking"
<1>1. IdleMail.at # "picking"
  BY IdleMailOK
<1> QED
  BY <1>1, IdleMailOK DEF Replaces

(* A claim is given up only where nothing went out: the step was held at   *)
(* a gate, or its mail is on file as failed.                               *)
LEMMA SettleClaimKeepsOwners ==
  ASSUME TypeInv, OwnInv, NEW r \in Run, SettleClaim(r),
         UNCHANGED <<contactVars, eventVars, voiceVars>>
  PROVE  OwnInv' /\ MailOK' /\ CommsOK'
<1> MailOK /\ CommsOK /\ RunOK /\ ProgressOK /\ r \in Sender
  BY RunsAndTools DEF TypeInv
<1> DEFINE i == run[r].invoice
           k == run[r].step
<1>1. /\ run[r].at = "send" /\ mail[r].at = "returned" /\ mail[r].outcome # "threw"
      /\ i \in Invoice /\ k \in Step /\ DOMAIN run = Run
  BY DEF SettleClaim, At, RunOK
<1>2. UNCHANGED <<comms, events, tool, calls>>
  BY DEF SettleClaim, eventVars, voiceVars
<1>3. Replaces(r, IdleMail) /\ IdleMail \in MailWith(None) /\ IdleMail.at # "picking"
  BY <1>2, IdleReplaces DEF SettleClaim
<1>4. /\ Busy(r) /\ mail[r].origin = <<i, k>>
      /\ HotOf(mail[r].origin) \subseteq {mail[r].comm}
  BY <1>1 DEF OwnInv, RunOwns, Busy
<1>5. /\ \A j \in Invoice, l \in Step :
           progress'[j][l] = progress[j][l] \/ (j = i /\ l = k)
      /\ progress'[i][k] = IF KeepsClaim(mail[r].outcome) THEN "linked" ELSE "none"
  BY <1>1 DEF SettleClaim, ProgressOK
<1>6. run'[r].at = "loop" /\ \A q \in Run : q # r => run'[q] = run[q]
  BY <1>1 DEF SettleClaim, RunOK
<1>7. progress'[i][k] = "none" => HotOf(<<i, k>>) = {}
  <2>1. SUFFICES ASSUME ~KeepsClaim(mail[r].outcome), NEW n \in HotOf(<<i, k>>)
                 PROVE  FALSE
    BY <1>5
  <2>2. n = mail[r].comm /\ n \in DOMAIN comms /\ Hot(n)
    BY <1>4, <2>1 DEF HotOf, CommsOf
  <2>3. n # None
    BY <2>2, CommsDomain
  <2>4. mail[r].outcome \in {"none", "gated", "send_failed"}
    BY <1>1, <2>1 DEF KeepsClaim, MailOK, MailWith, Outcome
  <2>5. mail[r].outcome # "gated"
    BY <2>2, <2>3 DEF OwnInv, Holds
  <2>6. CASE mail[r].outcome = "send_failed"
    BY <1>1, <2>2, <2>6 DEF OwnInv, Files, Hot
  <2>7. CASE mail[r].outcome = "none"
    BY <1>1, <2>7 DEF OwnInv, Holds
  <2> QED
    BY <2>4, <2>5, <2>6, <2>7
<1>8. \A q \in Run : q # r /\ Busy(q) =>
        progress'[run[q].invoice][run[q].step] = "claimed"
  <2>1. SUFFICES ASSUME NEW q \in Run, q # r, Busy(q)
                 PROVE  progress'[run[q].invoice][run[q].step] = "claimed"
    OBVIOUS
  <2>2. /\ progress[run[q].invoice][run[q].step] = "claimed"
        /\ mail[q].origin = <<run[q].invoice, run[q].step>>
        /\ run[q].invoice \in Invoice /\ run[q].step \in Step
    BY <2>1 DEF OwnInv, RunOwns, RunOK
  <2>3. mail[q].origin # mail[r].origin
    BY <1>4, <2>1, RunsAndTools DEF OwnInv, OneOwner
  <2> QED
    BY <1>4, <1>5, <2>2, <2>3
<1>9. \A j \in Invoice, l \in Step :
        progress'[j][l] = "none" => HotOf(<<j, l>>) = {}
  BY <1>5, <1>7 DEF OwnInv, StepOwned
<1> QED
  BY <1>2, <1>3, <1>6, <1>8, <1>9, RunReplaces

LEMMA RunDiesKeepsOwners ==
  ASSUME TypeInv, OwnInv, NEW r \in Run, RunDies(r),
         UNCHANGED <<contactVars, eventVars, voiceVars>>
  PROVE  OwnInv' /\ MailOK' /\ CommsOK'
<1> r \in Sender /\ DOMAIN run = Run
  BY RunsAndTools DEF TypeInv, RunOK
<1>1. UNCHANGED <<comms, events, tool, calls, progress>>
  BY DEF RunDies, eventVars, voiceVars
<1>2. Replaces(r, IdleMail) /\ IdleMail \in MailWith(None) /\ IdleMail.at # "picking"
  BY <1>1, IdleReplaces DEF RunDies
<1>3. run'[r].at = "idle" /\ \A q \in Run : q # r => run'[q] = run[q]
  BY DEF RunDies, IdleRun
<1>4. \A q \in Run : q # r /\ Busy(q) =>
        progress'[run[q].invoice][run[q].step] = "claimed"
  BY <1>1 DEF OwnInv, RunOwns
<1>5. \A j \in Invoice, l \in Step :
        progress'[j][l] = "none" => HotOf(<<j, l>>) = {}
  BY <1>1 DEF OwnInv, StepOwned
<1> QED
  BY <1>1, <1>2, <1>3, <1>4, <1>5, RunReplaces

LEMMA ClaimCallKeepsOwners ==
  ASSUME TypeInv, OwnInv, NEW t \in Tool, ClaimCall(t),
         UNCHANGED <<cadenceVars, eventVars>>
  PROVE  OwnInv' /\ MailOK' /\ CommsOK'
<1> MailOK /\ CommsOK /\ ToolOK /\ CallsOK /\ t \in Sender
  BY RunsAndTools DEF TypeInv
<1> DEFINE c == tool[t].call
           m == Request(<<c>>, CallInvoice[c], tool[t].choice, HandoffMode,
                        c \in TestCall)
<1>1. /\ tool[t].at = "claim" /\ c \in Call /\ tool[t].choice \in Choices
      /\ DOMAIN tool = Tool
  BY DEF ClaimCall, ToolOK, ToolRecord
<1>2. UNCHANGED <<comms, events, run, progress>>
  BY DEF ClaimCall, cadenceVars, eventVars
<1>3. CASE /\ CanClaim(c)
           /\ calls' = [calls EXCEPT ![c].handoff = "claimed"]
           /\ tool' = [tool EXCEPT ![t].at = "send"]
           /\ mail' = [mail EXCEPT ![t] = m]
  <2>1. <<c>> \in Origin /\ CallInvoice[c] \in Invoice
    BY <1>1, VoiceAssumption DEF Origin, VoiceAssumption
  <2>2. HandoffMode \in {"off", "dry_run", "live"}
    BY VoiceAssumption DEF VoiceAssumption
  <2>3. /\ m \in MailWith(None) /\ m.at = "picking" /\ m.origin = <<c>>
        /\ m.invoice = CallInvoice[c] /\ m.comm = None /\ m.outcome = "none"
        /\ m.quiet = (c \in TestCall) /\ ~m.id
    <3>1. (c \in TestCall) \in BOOLEAN
      OBVIOUS
    <3>2. ASSUME NEW q \in BOOLEAN
          PROVE  Request(<<c>>, CallInvoice[c], tool[t].choice, HandoffMode, q)
                   \in MailWith(None)
      BY <1>1, <2>1, <2>2 DEF Request, IdleMail, MailWith, MailAt, Outcome, None
    <3>3. m \in MailWith(None)
      BY <3>1, <3>2, Zenon
    <3> QED
      BY <3>3 DEF Request, IdleMail
  <2>4. calls[c].handoff = "null"
    BY <1>3 DEF CanClaim
  <2>5. \A q \in Sender : q # t /\ Busy(q) => mail[q].origin # <<c>>
    <3>1. SUFFICES ASSUME NEW q \in Sender, Busy(q), mail[q].origin = <<c>>
                   PROVE  FALSE
      OBVIOUS
    <3>2. q \in Tool /\ c = tool[q].call
      BY <3>1, Senders
    <3>3. calls[c].handoff = "claimed"
      BY <3>1, <3>2 DEF OwnInv, ToolOwns
    <3> QED
      BY <2>4, <3>3
  <2>6. ~m.quiet => \A d \in TestCall : <<c>> # <<d>>
    BY <2>3, Origins
  <2>7. Replaces(t, m)
    <3> HIDE DEF m
    <3> QED
      BY <1>1, <1>2, <1>3, <2>1, <2>3, <2>5, <2>6 DEF Replaces
  <2>8. CommsOf(<<c>>) = {}
    BY <1>1, <2>4 DEF OwnInv, CallOwned
  <2>9. /\ tool'[t].at = "send" /\ tool'[t].call = c
        /\ \A q \in Tool : q # t => tool'[q] = tool[q]
    BY <1>1, <1>3 DEF ToolOK
  <2>10. /\ calls'[c].handoff = "claimed"
         /\ \A d \in Call : d # c => calls'[d] = calls[d]
    BY <1>1, <1>3 DEF CallsOK
  <2>11. \A q \in Tool : q # t /\ Busy(q) =>
           calls'[tool[q].call].handoff = "claimed"
    <3>1. SUFFICES ASSUME NEW q \in Tool, Busy(q)
                   PROVE  calls'[tool[q].call].handoff = "claimed"
      OBVIOUS
    <3>2. calls[tool[q].call].handoff = "claimed" /\ tool[q].call \in Call
      BY <3>1 DEF OwnInv, ToolOwns, ToolOK
    <3> QED
      BY <2>10, <3>2
  <2>12. \A d \in Call : calls'[d].handoff = "null" => CommsOf(<<d>>) = {}
    BY <2>10 DEF OwnInv, CallOwned
  <2> HIDE DEF m
  <2> QED
    BY <1>2, <2>3, <2>7, <2>8, <2>9, <2>10, <2>11, <2>12, ToolReplaces
<1>4. CASE tool' = [tool EXCEPT ![t] = IdleTool] /\ UNCHANGED <<calls, mail>>
  <2>1. tool'[t].at = "idle" /\ \A q \in Tool : q # t => tool'[q] = tool[q]
    BY <1>1, <1>4 DEF IdleTool
  <2>2. ActiveHasId'
    BY <1>2 DEF OwnInv, ActiveHasId, NeedsAttention
  <2> QED
    BY <1>1, <1>2, <1>4, <2>1, <2>2, OwnersStay
<1> QED
  BY <1>3, <1>4 DEF ClaimCall

(* A call is free again only where the gates held its mail.                *)
LEMMA FinishEmailKeepsOwners ==
  ASSUME TypeInv, OwnInv, NEW t \in Tool, FinishEmail(t),
         UNCHANGED <<cadenceVars, eventVars>>
  PROVE  OwnInv' /\ MailOK' /\ CommsOK'
<1> MailOK /\ CommsOK /\ ToolOK /\ CallsOK /\ t \in Sender
  BY RunsAndTools DEF TypeInv
<1> DEFINE c == tool[t].call
<1>1. /\ tool[t].at = "send" /\ mail[t].at = "returned" /\ c \in Call
      /\ DOMAIN tool = Tool
  BY DEF FinishEmail, At, ToolOK
<1>2. UNCHANGED <<comms, events, run, progress>>
  BY DEF FinishEmail, cadenceVars, eventVars
<1>3. Replaces(t, IdleMail) /\ IdleMail \in MailWith(None) /\ IdleMail.at # "picking"
  BY <1>2, IdleReplaces DEF FinishEmail
<1>4. /\ Busy(t) /\ mail[t].origin = <<c>> /\ calls[c].handoff = "claimed"
      /\ CommsOf(mail[t].origin) \subseteq {mail[t].comm}
  BY <1>1 DEF OwnInv, ToolOwns, Busy
<1>5. /\ \A d \in Call : d # c => calls'[d] = calls[d]
      /\ calls'[c].handoff = HandoffAfter(mail[t].outcome)
  BY <1>1, <1>4 DEF FinishEmail, CallsOK
<1>6. tool'[t].at = "idle" /\ \A q \in Tool : q # t => tool'[q] = tool[q]
  BY <1>1 DEF FinishEmail, IdleTool
<1>7. calls'[c].handoff = "null" => CommsOf(<<c>>) = {}
  <2>1. SUFFICES ASSUME mail[t].outcome = "gated", NEW n \in CommsOf(<<c>>)
                 PROVE  FALSE
    BY <1>5 DEF HandoffAfter, Releasable
  <2>2. n = mail[t].comm /\ n \in DOMAIN comms
    BY <1>4, <2>1 DEF CommsOf
  <2> QED
    BY <2>1, <2>2, CommsDomain DEF OwnInv, Holds
<1>8. \A q \in Tool : q # t /\ Busy(q) =>
        calls'[tool[q].call].handoff = "claimed"
  <2>1. SUFFICES ASSUME NEW q \in Tool, q # t, Busy(q)
                 PROVE  calls'[tool[q].call].handoff = "claimed"
    OBVIOUS
  <2>2. /\ calls[tool[q].call].handoff = "claimed" /\ tool[q].call \in Call
        /\ mail[q].origin = <<tool[q].call>>
    BY <2>1 DEF OwnInv, ToolOwns, ToolOK
  <2>3. mail[q].origin # mail[t].origin
    BY <1>4, <2>1, RunsAndTools DEF OwnInv, OneOwner
  <2> QED
    BY <1>4, <1>5, <2>2, <2>3
<1>9. \A d \in Call : calls'[d].handoff = "null" => CommsOf(<<d>>) = {}
  BY <1>5, <1>7 DEF OwnInv, CallOwned
<1> QED
  BY <1>2, <1>3, <1>6, <1>8, <1>9, ToolReplaces

LEMMA ToolDiesKeepsOwners ==
  ASSUME TypeInv, OwnInv, NEW t \in Tool, ToolDies(t),
         UNCHANGED <<cadenceVars, eventVars>>
  PROVE  OwnInv' /\ MailOK' /\ CommsOK'
<1> t \in Sender /\ DOMAIN tool = Tool
  BY RunsAndTools DEF TypeInv, ToolOK
<1>1. UNCHANGED <<comms, events, run, progress, calls>>
  BY DEF ToolDies, eventVars, cadenceVars
<1>2. Replaces(t, IdleMail) /\ IdleMail \in MailWith(None) /\ IdleMail.at # "picking"
  BY <1>1, IdleReplaces DEF ToolDies
<1>3. tool'[t].at = "idle" /\ \A q \in Tool : q # t => tool'[q] = tool[q]
  BY DEF ToolDies, IdleTool
<1>4. \A q \in Tool : q # t /\ Busy(q) =>
        calls'[tool[q].call].handoff = "claimed"
  BY <1>1 DEF OwnInv, ToolOwns
<1>5. \A d \in Call : calls'[d].handoff = "null" => CommsOf(<<d>>) = {}
  BY <1>1 DEF OwnInv, CallOwned
<1> QED
  BY <1>1, <1>2, <1>3, <1>4, <1>5, ToolReplaces

(***************************************************************************)
(* The other tables keep their types.                                      *)
(***************************************************************************)
LEMMA RowTypes ==
  /\ Absent \in Row \cup {Absent, Deleted} /\ Deleted \in Row \cup {Absent, Deleted}
  /\ Absent # Deleted /\ Absent.kind = "none" /\ Deleted.kind = "deleted"
  /\ \A a \in Address : PocRow(a) \in Row /\ PocRow(a).kind = "poc"
       /\ PocRow(a).primary /\ ~PocRow(a).out
  /\ \A a \in Address, r \in Rank, o \in BOOLEAN :
       Dunning(a, r, o) \in Row /\ Dunning(a, r, o).kind = "dunning"
<1>1. 1 \in Rank
  BY ContactsAssumption DEF ContactsAssumption, Rank, NoRank
<1> QED
  BY <1>1 DEF Absent, Deleted, PocRow, Dunning, Row

LEMMA ContactsTypes ==
  ASSUME ContactsOK, SyncKnowsPoc, ContactsNext
  PROVE  ContactsOK'
<1> USE DEF ContactsOK
<1>1. ASSUME NEW c \in Contact, NEW new \in Row \cup {Deleted}, EditRow(c, new)
      PROVE  ContactsOK'
  BY <1>1 DEF EditRow
<1>2. CASE CreateContact
  BY <1>1, <1>2, RowTypes DEF CreateContact, NewId
<1>3. CASE UpdateContact
  BY <1>1, <1>3, RowTypes DEF UpdateContact, OnFile
<1>4. CASE DeleteContact
  BY <1>1, <1>4 DEF DeleteContact, OnFile
<1>5. CASE SyncClient
  <2>1. PICK incoming \in Address \cup {NoAddress} :
           LET merged == MergeClientContact(incoming, client.email) IN
             /\ client' = [client EXCEPT !.email = merged]
             /\ sync' = [IdleSync EXCEPT !.at = "client", !.email = merged]
    BY <1>5 DEF SyncClient
  <2> DEFINE merged == MergeClientContact(incoming, client.email)
  <2>2. merged \in Address \cup {NoAddress}
    BY DEF MergeClientContact
  <2> HIDE DEF merged
  <2>3. client' = [client EXCEPT !.email = merged]
        /\ sync' = [IdleSync EXCEPT !.at = "client", !.email = merged]
    BY <2>1 DEF merged
  <2> QED
    BY <1>5, <2>2, <2>3 DEF SyncClient, IdleSync
<1>6. CASE SyncReadsPoc
  <2>1. {c \in OnFile : contacts[c].kind = "poc"} \in SUBSET Contact
    BY DEF OnFile
  <2> QED
    BY <1>6, <2>1 DEF SyncReadsPoc
<1>7. CASE PlanPocReconcile
  <2>1. sync' \in [at : {"idle", "client", "read"},
                   email : Address \cup {NoAddress}, poc : SUBSET Contact]
    BY <1>7 DEF PlanPocReconcile, IdleSync
  <2>2. client' = client
    BY <1>7 DEF PlanPocReconcile
  <2>3. \A c \in sync.poc :
          c \in Contact /\ Reconciled(contacts[c], sync.email) \in Row
    <3>1. SUFFICES ASSUME NEW c \in sync.poc
                   PROVE  c \in Contact /\ Reconciled(contacts[c], sync.email) \in Row
      OBVIOUS
    <3>2. c \in Contact /\ contacts[c] \in Row /\ sync.email \in Address \cup {NoAddress}
      BY RowTypes DEF SyncKnowsPoc
    <3> QED
      BY <3>2 DEF Reconciled, Row
  <2>4. \A c \in NewId : c \in Contact
    BY DEF NewId
  <2>5. CASE contacts' = [c \in Contact |->
               IF c \in sync.poc THEN Reconciled(contacts[c], sync.email)
                                 ELSE contacts[c]]
    <3> DEFINE F(c) == IF c \in sync.poc THEN Reconciled(contacts[c], sync.email)
                                         ELSE contacts[c]
    <3>1. \A c \in Contact : contacts[c] \in Row \cup {Absent, Deleted}
      OBVIOUS
    <3>2. \A c \in Contact : F(c) \in Row \cup {Absent, Deleted}
      BY <2>3, <3>1
    <3>3. contacts' = [c \in Contact |-> F(c)]
      BY <2>5
    <3> HIDE DEF F
    <3> QED
      BY <2>1, <2>2, <3>2, <3>3
  <2>6. ASSUME NEW c \in NewId, sync.email # NoAddress,
               contacts' = IF Fits(c, PocRow(sync.email))
                             THEN [contacts EXCEPT ![c] = PocRow(sync.email)]
                             ELSE contacts
        PROVE  contacts' \in [Contact -> Row \cup {Absent, Deleted}]
    <3>1. sync.email \in Address
      BY <2>6
    <3>2. PocRow(sync.email) \in Row
      BY <3>1, RowTypes
    <3>3. CASE Fits(c, PocRow(sync.email))
      BY <2>4, <2>6, <3>2, <3>3
    <3>4. CASE ~Fits(c, PocRow(sync.email))
      BY <2>6, <3>4
    <3> QED
      BY <3>3, <3>4
  <2>7. contacts' \in [Contact -> Row \cup {Absent, Deleted}]
    BY <1>7, <2>5, <2>6 DEF PlanPocReconcile
  <2> QED
    BY <2>1, <2>2, <2>7
<1> QED
  BY <1>2, <1>3, <1>4, <1>5, <1>6, <1>7 DEF ContactsNext

LEMMA OptOutTypes ==
  ASSUME ContactsOK, NEW e, SetContactOptOutEmail(e)
  PROVE  ContactsOK'
<1>1. \A c \in Primary : c \in Contact /\ [contacts[c] EXCEPT !.out = TRUE] \in Row
  <2>1. \A c \in Primary : c \in Contact /\ contacts[c] \in Row
    BY RowTypes DEF Primary, OnFile, ContactsOK
  <2> QED
    BY <2>1 DEF Row
<1>2. \A c \in Contact : contacts[c] \in Row \cup {Absent, Deleted}
  BY DEF ContactsOK
<1>3. contacts' \in [Contact -> Row \cup {Absent, Deleted}]
  BY <1>1, <1>2 DEF SetContactOptOutEmail
<1> QED
  BY <1>3 DEF SetContactOptOutEmail, ContactsOK

LEMMA RunSet ==
  ASSUME RunOK, NEW r \in Run, NEW m \in RunRecord,
         m.at \in {"claim", "send"} => m.invoice \in Invoice /\ m.step \in Step,
         run' = [run EXCEPT ![r] = m], day' = day
  PROVE  RunOK'
<1>1. run' \in [Run -> RunRecord]
  BY DEF RunOK
<1>2. run'[r] = m /\ \A q \in Run : q # r => run'[q] = run[q]
  BY DEF RunOK
<1>3. \A q \in Run : run'[q].at \in {"claim", "send"} =>
        run'[q].invoice \in Invoice /\ run'[q].step \in Step
  BY <1>2 DEF RunOK
<1> QED
  BY <1>1, <1>3 DEF RunOK, RunRecord, Step

LEMMA CadenceTypes ==
  ASSUME RunOK, ProgressOK, CadenceNext
  PROVE  RunOK' /\ ProgressOK'
<1>1. \A r \in Run : run[r] \in RunRecord
  BY DEF RunOK
<1>2. IdleRun \in RunRecord /\ IdleRun.at = "idle"
  BY DEF IdleRun, RunRecord, Modes
<1>3. ASSUME NEW r \in Run, StartRun(r) PROVE RunOK' /\ ProgressOK'
  <2>1. PICK mode \in Modes, fence \in Fences :
           run' = [run EXCEPT ![r] = [IdleRun EXCEPT !.at = "loop", !.mode = mode,
                     !.today = day, !.todo = Candidates \cap fence]]
    BY <1>3 DEF StartRun
  <2> DEFINE m == [IdleRun EXCEPT !.at = "loop", !.mode = mode,
                     !.today = day, !.todo = Candidates \cap fence]
  <2>2. Candidates \cap fence \in SUBSET Invoice /\ day \in Nat
    BY DEF Candidates, RunOK
  <2>3. m \in RunRecord /\ m.at = "loop"
    BY <1>2, <2>2 DEF RunRecord
  <2>4. run' = [run EXCEPT ![r] = m] /\ UNCHANGED <<day, progress>>
    BY <1>3, <2>1 DEF StartRun
  <2> HIDE DEF m
  <2>5. RunOK'
    BY <2>3, <2>4, RunSet
  <2> QED
    BY <2>4, <2>5 DEF ProgressOK, Step
<1>4. ASSUME NEW r \in Run, ChooseStep(r) PROVE RunOK' /\ ProgressOK'
  <2>1. PICK i, seen :
          /\ i \in run[r].todo
          /\ LET due == {k \in SelectDueStep(i, seen, run[r].today) :
                           StepChannel[k] = "email"}
                 on == [run[r] EXCEPT !.todo = @ \ {i}]
             IN run' = [run EXCEPT ![r] =
                  IF due = {} THEN on
                    ELSE [on EXCEPT !.at = "claim", !.invoice = i,
                            !.step = CHOOSE k \in due : TRUE]]
    BY <1>4 DEF ChooseStep
  <2> DEFINE due == {k \in SelectDueStep(i, seen, run[r].today) :
                        StepChannel[k] = "email"}
             k == CHOOSE k \in due : TRUE
             on == [run[r] EXCEPT !.todo = @ \ {i}]
             new == [on EXCEPT !.at = "claim", !.invoice = i, !.step = k]
  <2>2. due # {} => k \in Step
    BY DEF SelectDueStep
  <2>3. i \in Invoice /\ run[r].todo \ {i} \in SUBSET Invoice
        /\ run[r].at = "loop" /\ run[r] \in RunRecord
    BY <1>1, <1>4, <2>1 DEF ChooseStep, RunRecord
  <2> run' = [run EXCEPT ![r] = IF due = {} THEN on ELSE new]
    BY <2>1
  <2> HIDE DEF due, k
  <2>4. on \in RunRecord /\ on.at = "loop"
    BY <2>3 DEF RunRecord
  <2> HIDE DEF on
  <2>5. due # {} => new \in RunRecord /\ new.invoice \in Invoice /\ new.step \in Step
    BY <2>2, <2>3, <2>4 DEF RunRecord
  <2> HIDE DEF new
  <2>6. UNCHANGED <<progress, day>>
    BY <1>4 DEF ChooseStep
  <2>7. RunOK'
    <3>1. CASE due = {}
      BY <2>4, <2>6, <3>1, RunSet
    <3>2. CASE due # {}
      BY <2>5, <2>6, <3>2, RunSet
    <3> QED
      BY <3>1, <3>2
  <2> QED
    BY <2>6, <2>7 DEF ProgressOK, Step
<1>5. ASSUME NEW r \in Run PROVE
        LET at(to) == [run[r] EXCEPT !.at = to]
            back == [run[r] EXCEPT !.at = "loop", !.invoice = None, !.step = None]
        IN /\ at("send") \in RunRecord /\ at("send").at = "send"
           /\ at("send").invoice = run[r].invoice /\ at("send").step = run[r].step
           /\ back \in RunRecord /\ back.at = "loop"
  BY <1>1 DEF RunRecord
<1>6. ASSUME NEW r \in Run, ClaimStep(r) PROVE RunOK' /\ ProgressOK'
  <2> DEFINE sends == [run[r] EXCEPT !.at = "send"]
             back == [run[r] EXCEPT !.at = "loop", !.invoice = None, !.step = None]
  <2>1. run[r].invoice \in Invoice /\ run[r].step \in Step
    BY <1>6 DEF ClaimStep, RunOK
  <2>2. /\ sends \in RunRecord /\ sends.invoice \in Invoice /\ sends.step \in Step
        /\ back \in RunRecord /\ back.at = "loop"
    BY <1>5, <2>1
  <2>3. run' = [run EXCEPT ![r] = sends] \/ run' = [run EXCEPT ![r] = back]
    BY <1>6 DEF ClaimStep, RunOK
  <2>4. day' = day
    BY <1>6 DEF ClaimStep
  <2> HIDE DEF sends, back
  <2>5. RunOK'
    BY <2>2, <2>3, <2>4, RunSet
  <2>6. progress' = progress \/
          progress' = [progress EXCEPT ![run[r].invoice][run[r].step] = "claimed"]
    BY <1>6 DEF ClaimStep
  <2>7. ProgressOK'
    BY <2>1, <2>6 DEF ProgressOK, Step
  <2> QED
    BY <2>5, <2>7
<1>7. ASSUME NEW r \in Run, SettleClaim(r) PROVE RunOK' /\ ProgressOK'
  <2> DEFINE back == [run[r] EXCEPT !.at = "loop", !.invoice = None, !.step = None]
  <2>1. run[r].invoice \in Invoice /\ run[r].step \in Step
    BY <1>7 DEF SettleClaim, RunOK
  <2>2. back \in RunRecord /\ back.at = "loop"
    BY <1>5
  <2>3. run' = [run EXCEPT ![r] = back] /\ day' = day
    BY <1>7 DEF SettleClaim, RunOK
  <2> HIDE DEF back
  <2>4. RunOK'
    BY <2>2, <2>3, RunSet
  <2>5. ProgressOK'
    BY <1>7, <2>1 DEF SettleClaim, ProgressOK, Step
  <2> QED
    BY <2>4, <2>5
<1>8. ASSUME NEW r \in Run, EndRun(r) \/ RunDies(r) PROVE RunOK' /\ ProgressOK'
  <2>1. run' = [run EXCEPT ![r] = IdleRun] /\ UNCHANGED <<day, progress>>
    BY <1>8 DEF EndRun, RunDies
  <2> QED
    BY <1>2, <2>1, RunSet DEF ProgressOK, Step
<1>9. ASSUME NEW i \in Invoice, InvoiceSettled(i) PROVE RunOK' /\ ProgressOK'
  BY <1>9 DEF InvoiceSettled, RunOK, RunRecord, ProgressOK, Step
<1>10. CASE NextDay
  BY <1>10 DEF NextDay, RunOK, RunRecord, ProgressOK, Step
<1> QED
  BY <1>3, <1>4, <1>6, <1>7, <1>8, <1>9, <1>10 DEF CadenceNext

LEMMA CallSet ==
  ASSUME CallsOK, NEW c \in Call, NEW new \in CallRecord, Dialed(new),
         calls' = [calls EXCEPT ![c] = new]
  PROVE  CallsOK'
<1>1. calls' \in [Call -> CallRecord]
  BY DEF CallsOK
<1>2. \A d \in Call : Dialed(calls'[d])
  BY DEF CallsOK
<1> QED
  BY <1>1, <1>2 DEF CallsOK, CallRecord, Dialed

LEMMA CallTypes ==
  ASSUME CallsOK, ToolOK, VoiceNext
  PROVE  CallsOK'
<1>1. \A c \in Call : calls[c] \in CallRecord /\ Dialed(calls[c])
  BY DEF CallsOK
<1>2. ASSUME NEW c \in Call, PlaceCall(c) PROVE CallsOK'
  <2> DEFINE new == [calls[c] EXCEPT !.at = "dial", !.status = "queued"]
  <2>1. new \in CallRecord /\ new.at = "dial" /\ new.placed = calls[c].placed
    BY <1>1 DEF CallRecord
  <2>2. calls' = [calls EXCEPT ![c] = new] /\ calls[c].at = "new"
    BY <1>2 DEF PlaceCall, CallsOK
  <2> HIDE DEF new
  <2>3. Dialed(new)
    BY <1>1, <2>1, <2>2 DEF Dialed
  <2> QED
    BY <2>1, <2>2, <2>3, CallSet
<1>3. ASSUME NEW c \in Call, Dial(c) PROVE CallsOK'
  <2> DEFINE taken == [calls[c] EXCEPT !.at = "dialed", !.placed = TRUE]
             failed(q) == [calls[c] EXCEPT !.at = "done", !.status = "failed",
                                           !.placed = q]
  <2>1. taken \in CallRecord /\ taken.at = "dialed" /\ taken.placed = TRUE
    BY <1>1 DEF CallRecord
  <2>2. \A q \in BOOLEAN : failed(q) \in CallRecord /\ failed(q).at = "done"
    BY <1>1 DEF CallRecord
  <2>3. \/ calls' = [calls EXCEPT ![c] = taken]
        \/ \E q \in BOOLEAN : calls' = [calls EXCEPT ![c] = failed(q)]
    <3>1. \A q \in {FALSE, AnswersLost} : q \in BOOLEAN
      BY EmailStepAssumption DEF EmailStepAssumption
    <3> QED
      BY <1>3, <3>1 DEF Dial, CallsOK
  <2> HIDE DEF taken, failed
  <2>4. Dialed(taken) /\ \A q \in BOOLEAN : Dialed(failed(q))
    BY <2>1, <2>2 DEF Dialed
  <2> QED
    BY <2>1, <2>2, <2>3, <2>4, CallSet
<1>4. ASSUME NEW c \in Call, RecordDialed(c) PROVE CallsOK'
  <2>1. PICK status \in {"ringing", calls[c].status} :
          calls' = [calls EXCEPT ![c].at = "ringing", ![c].status = status]
    BY <1>4 DEF RecordDialed
  <2> DEFINE new == [calls[c] EXCEPT !.at = "ringing", !.status = status]
  <2>2. new \in CallRecord /\ new.at = "ringing" /\ new.placed = calls[c].placed
    BY <1>1 DEF CallRecord
  <2>3. calls' = [calls EXCEPT ![c] = new] /\ calls[c].at = "dialed"
    BY <1>4, <2>1 DEF RecordDialed, CallsOK
  <2> HIDE DEF new
  <2>4. Dialed(new)
    BY <1>1, <2>2, <2>3 DEF Dialed
  <2> QED
    BY <2>2, <2>3, <2>4, CallSet
<1>5. ASSUME NEW c \in Call, StampCall(c) \/ CallDies(c) PROVE CallsOK'
  <2> DEFINE new == [calls[c] EXCEPT !.at = "done"]
  <2>1. new \in CallRecord /\ new.at = "done"
    BY <1>1 DEF CallRecord
  <2>2. calls' = [calls EXCEPT ![c] = new]
    BY <1>5 DEF StampCall, CallDies, CallsOK
  <2> HIDE DEF new
  <2>3. Dialed(new)
    BY <2>1 DEF Dialed
  <2> QED
    BY <2>1, <2>2, <2>3, CallSet
<1>6. ASSUME NEW c \in Call, ApplyReport(c) PROVE CallsOK'
  <2> DEFINE busy == [calls[c] EXCEPT !.status = "in-progress"]
             ended == [calls[c] EXCEPT !.status = "ended", !.outcome = "ended"]
  <2>1. /\ busy \in CallRecord /\ busy.at = calls[c].at
        /\ busy.placed = calls[c].placed
    BY <1>1 DEF CallRecord
  <2>2. /\ ended \in CallRecord /\ ended.at = calls[c].at
        /\ ended.placed = calls[c].placed
    BY <1>1 DEF CallRecord
  <2>3. calls' = [calls EXCEPT ![c] = busy] \/ calls' = [calls EXCEPT ![c] = ended]
    BY <1>6 DEF ApplyReport, CallsOK
  <2> HIDE DEF busy, ended
  <2>4. Dialed(busy) /\ Dialed(ended)
    BY <1>1, <2>1, <2>2 DEF Dialed
  <2> QED
    BY <2>1, <2>2, <2>3, <2>4, CallSet
<1>7. ASSUME NEW c \in Call, NEW handoff \in {"null", "claimed", "would_send",
                                              "sent", "failed"},
             calls' = [calls EXCEPT ![c].handoff = handoff]
      PROVE  CallsOK'
  <2> DEFINE new == [calls[c] EXCEPT !.handoff = handoff]
  <2>1. /\ new \in CallRecord /\ new.at = calls[c].at
        /\ new.placed = calls[c].placed
    BY <1>1 DEF CallRecord
  <2>2. calls' = [calls EXCEPT ![c] = new]
    BY <1>7 DEF CallsOK
  <2> HIDE DEF new
  <2>3. Dialed(new)
    BY <1>1, <2>1 DEF Dialed
  <2> QED
    BY <2>1, <2>2, <2>3, CallSet
<1>8. ASSUME NEW t \in Tool, ClaimCall(t) PROVE CallsOK'
  <2>1. tool[t].call \in Call
    BY <1>8 DEF ClaimCall, ToolOK
  <2>2. \/ calls' = [calls EXCEPT ![tool[t].call].handoff = "claimed"]
        \/ calls' = calls
    BY <1>8 DEF ClaimCall
  <2> QED
    BY <1>7, <2>1, <2>2 DEF CallsOK, CallRecord, Dialed
<1>9. ASSUME NEW t \in Tool, FinishEmail(t) PROVE CallsOK'
  <2>1. tool[t].call \in Call
    BY <1>9 DEF FinishEmail, ToolOK
  <2> DEFINE handoff == IF calls[tool[t].call].handoff = "claimed"
                          THEN HandoffAfter(mail[t].outcome)
                          ELSE calls[tool[t].call].handoff
  <2>2. calls' = [calls EXCEPT ![tool[t].call].handoff = handoff]
    BY <1>9, <2>1 DEF FinishEmail, CallsOK
  <2>3. handoff \in {"null", "claimed", "would_send", "sent", "failed"}
    BY <1>1, <2>1 DEF HandoffAfter, CallRecord
  <2> HIDE DEF handoff
  <2> QED
    BY <1>7, <2>1, <2>2, <2>3
<1>10. ASSUME NEW t \in Tool, AskForEmail(t) \/ ToolDies(t) PROVE CallsOK'
  BY <1>10 DEF AskForEmail, ToolDies, CallsOK, CallRecord, Dialed
<1> QED
  BY <1>2, <1>3, <1>4, <1>5, <1>6, <1>8, <1>9, <1>10 DEF VoiceNext

LEMMA ToolTypes ==
  ASSUME ToolOK, VoiceNext
  PROVE  ToolOK'
<1>1. ASSUME NEW t \in Tool, NEW new \in ToolRecord,
             new.at # "idle" => new.call \in Call,
             tool' = [tool EXCEPT ![t] = new]
      PROVE  ToolOK'
  <2>1. tool' \in [Tool -> ToolRecord]
    BY <1>1 DEF ToolOK
  <2>2. \A u \in Tool : tool'[u].at # "idle" => tool'[u].call \in Call
    BY <1>1 DEF ToolOK
  <2> QED
    BY <2>1, <2>2 DEF ToolOK, ToolRecord, Choices
<1>2. IdleTool \in ToolRecord /\ IdleTool.at = "idle"
  BY DEF IdleTool, ToolRecord, Choices
<1>3. ASSUME NEW t \in Tool, AskForEmail(t) PROVE ToolOK'
  <2>1. PICK c, choice, target :
          /\ c \in Call /\ choice \in Choices /\ target \in ResolveTarget(choice)
          /\ tool' = [tool EXCEPT ![t] =
                        [at |-> "claim", call |-> c, choice |-> target]]
    BY <1>3 DEF AskForEmail, ResolveVoiceCall
  <2>2. choice.by = "default" => PickRecipient(choice) \subseteq Contact
    <3>1. SelectForChannel \subseteq Contact
      BY DEF SelectForChannel, RankedDunning, OnFile
    <3> QED
      BY <3>1 DEF PickRecipient
  <2>3. target \in Choices
    <3>1. CASE choice.by = "default"
      BY <2>1, <2>2, <3>1 DEF ResolveTarget, Choices
    <3>2. CASE choice.by # "default"
      BY <2>1, <3>2 DEF ResolveTarget
    <3> QED
      BY <3>1, <3>2
  <2> DEFINE new == [at |-> "claim", call |-> c, choice |-> target]
  <2>4. new \in ToolRecord /\ new.call \in Call
    BY <2>1, <2>3 DEF ToolRecord
  <2> HIDE DEF new
  <2> QED
    BY <1>1, <2>1, <2>4 DEF new
<1>4. ASSUME NEW t \in Tool, ClaimCall(t) PROVE ToolOK'
  <2> DEFINE new == [tool[t] EXCEPT !.at = "send"]
  <2>1. tool[t] \in ToolRecord /\ tool[t].call \in Call
    BY <1>4 DEF ClaimCall, ToolOK
  <2>2. new \in ToolRecord /\ new.call = tool[t].call
    BY <2>1 DEF ToolRecord
  <2>3. tool' = [tool EXCEPT ![t] = new] \/ tool' = [tool EXCEPT ![t] = IdleTool]
    BY <1>4 DEF ClaimCall, ToolOK
  <2> HIDE DEF new
  <2> QED
    BY <1>1, <1>2, <2>1, <2>2, <2>3
<1>5. ASSUME NEW t \in Tool, FinishEmail(t) \/ ToolDies(t) PROVE ToolOK'
  BY <1>1, <1>2, <1>5 DEF FinishEmail, ToolDies
<1>6. ASSUME tool' = tool PROVE ToolOK'
  BY <1>6 DEF ToolOK, ToolRecord, Choices
<1>7. ASSUME NEW c \in Call,
             PlaceCall(c) \/ Dial(c) \/ RecordDialed(c) \/ StampCall(c)
               \/ ApplyReport(c) \/ CallDies(c)
      PROVE  tool' = tool
  BY <1>7 DEF PlaceCall, Dial, RecordDialed, StampCall, ApplyReport, CallDies
<1> QED
  BY <1>3, <1>4, <1>5, <1>6, <1>7 DEF VoiceNext

LEMMA EventSet ==
  ASSUME EventsOK, CommsOK, NEW e \in DOMAIN events, NEW new \in EventRecord,
         new.comm = events[e].comm, events' = [events EXCEPT ![e] = new],
         DOMAIN comms \subseteq DOMAIN comms', attention' \in Reason
  PROVE  /\ EventsOK' /\ events'[e] = new /\ DOMAIN events' = DOMAIN events
         /\ \A f \in DOMAIN events : f # e => events'[f] = events[f]
<1>1. events' \in Seq(EventRecord) /\ Len(events') = Len(events)
  BY ExceptSeq DEF EventsOK
<1>2. /\ events'[e] = new /\ DOMAIN events' = DOMAIN events
      /\ \A f \in DOMAIN events : f # e => events'[f] = events[f]
  OBVIOUS
<1>3. \A f \in DOMAIN events' : events'[f].comm \in DOMAIN comms'
  BY <1>2 DEF EventsOK
<1> QED
  BY <1>1, <1>2, <1>3 DEF EventsOK, EventRecord, EventKind

(* An event keeps its mail and its kind while it moves. *)
EventMoves(e, step) ==
  /\ e \in DOMAIN events /\ DOMAIN events' = DOMAIN events
  /\ events'[e].comm = events[e].comm /\ events'[e].kind = events[e].kind
  /\ events'[e].at = step
  /\ \A f \in DOMAIN events : f # e => events'[f] = events[f]

LEMMA EventAt ==
  ASSUME EventsOK, CommsOK, NEW e \in DOMAIN events,
         NEW step \in {"active", "found", "opted", "read", "handled", "dropped"},
         NEW current \in Reason,
         \/ events' = [events EXCEPT ![e].at = step]
         \/ events' = [events EXCEPT ![e].at = step, ![e].current = current],
         DOMAIN comms \subseteq DOMAIN comms', attention' \in Reason
  PROVE  EventsOK' /\ EventMoves(e, step)
<1> DEFINE one == [events[e] EXCEPT !.at = step]
           two == [events[e] EXCEPT !.at = step, !.current = current]
<1>1. events[e] \in EventRecord
  BY ElementOfSeq DEF EventsOK
<1>2. /\ one \in EventRecord /\ one.comm = events[e].comm
      /\ one.kind = events[e].kind /\ one.at = step
  BY <1>1 DEF EventRecord
<1>3. /\ two \in EventRecord /\ two.comm = events[e].comm
      /\ two.kind = events[e].kind /\ two.at = step
  BY <1>1 DEF EventRecord
<1>4. events' = [events EXCEPT ![e] = one] \/ events' = [events EXCEPT ![e] = two]
  OBVIOUS
<1> HIDE DEF one, two
<1>5. CASE events' = [events EXCEPT ![e] = one]
  BY <1>2, <1>5, EventSet DEF EventMoves
<1>6. CASE events' = [events EXCEPT ![e] = two]
  BY <1>3, <1>6, EventSet DEF EventMoves
<1> QED
  BY <1>4, <1>5, <1>6

LEMMA EventPosted ==
  ASSUME EventsOK, CommsOK, PostEvent
  PROVE  /\ EventsOK' /\ DOMAIN events' = 1..(Len(events) + 1)
         /\ \A e \in DOMAIN events : events'[e] = events[e]
         /\ events'[Len(events) + 1].at = "posted"
<1>1. PICK k \in DOMAIN comms, kind \in EventKind :
        events' = Append(events, [comm |-> k, kind |-> kind, at |-> "posted",
                                  current |-> "none"])
  BY DEF PostEvent
<1> DEFINE new == [comm |-> k, kind |-> kind, at |-> "posted", current |-> "none"]
<1>2. new \in EventRecord /\ new.comm = k /\ new.at = "posted"
  BY DEF EventRecord, CommsOK, Reason, EventKind
<1> events' = Append(events, new)
  BY <1>1
<1> HIDE DEF new
<1>3. /\ events' \in Seq(EventRecord) /\ Len(events') = Len(events) + 1
      /\ \A e \in 1..Len(events) : events'[e] = events[e]
      /\ events'[Len(events) + 1] = new
  BY <1>2, AppendProperties DEF EventsOK
<1>4. events \in Seq(EventRecord) /\ Len(events) \in Nat
      /\ DOMAIN events = 1..Len(events)
  BY DEF EventsOK
<1>5. DOMAIN events' = 1..(Len(events) + 1)
  BY <1>3
<1>6. UNCHANGED <<comms, attention>>
  BY DEF PostEvent, stepVars
<1>7. \A e \in DOMAIN events' : events'[e].comm \in DOMAIN comms'
  BY <1>2, <1>3, <1>4, <1>5, <1>6 DEF EventsOK
<1> QED
  BY <1>2, <1>3, <1>4, <1>5, <1>6, <1>7 DEF EventsOK, EventRecord, EventKind

LEMMA EventsTypes ==
  ASSUME EventsOK, CommsOK, EventsNext, DOMAIN comms \subseteq DOMAIN comms'
  PROVE  EventsOK'
<1>1. attention \in Reason
  BY DEF EventsOK
<1>2. ASSUME NEW e \in DOMAIN events, FindCommunication(e) PROVE EventsOK'
  <2>1. PICK step \in {"dropped", "found", "active"} :
          events' = [events EXCEPT ![e].at = step]
    BY <1>2 DEF FindCommunication, EventGoes
  <2> QED
    BY <1>1, <1>2, <2>1, EventAt DEF FindCommunication
<1>3. ASSUME NEW e \in DOMAIN events, UpdateCommunicationActivity(e)
      PROVE  EventsOK'
  BY <1>1, <1>3, EventAt DEF UpdateCommunicationActivity, EventGoes
<1>4. ASSUME NEW e \in DOMAIN events, SetContactOptOutEmail(e) PROVE EventsOK'
  <2>1. PICK step \in {"handled", "opted"} :
          events' = [events EXCEPT ![e].at = step]
    BY <1>4 DEF SetContactOptOutEmail, EventGoes
  <2> QED
    BY <1>1, <1>4, <2>1, EventAt DEF SetContactOptOutEmail
<1>5. ASSUME NEW e \in DOMAIN events, LoadAttention(e) PROVE EventsOK'
  BY <1>1, <1>5, EventAt DEF LoadAttention
<1>6. ASSUME NEW e \in DOMAIN events, SetAttention(e) PROVE EventsOK'
  <2>1. events[e].current \in Reason /\ events[e].kind \in EventKind
    <3>1. events[e] \in EventRecord
      BY ElementOfSeq DEF EventsOK
    <3> QED
      BY <3>1 DEF EventRecord
  <2>2. attention' \in Reason
    BY <1>1, <1>6, <2>1 DEF SetAttention, EscalateAttention, Reason
  <2> QED
    BY <1>6, <2>2, EventAt DEF SetAttention, Reason
<1>7. ASSUME NEW e \in DOMAIN events, EventFails(e) PROVE EventsOK'
  BY <1>1, <1>7, EventAt DEF EventFails, Reason
<1> QED
  BY <1>2, <1>3, <1>4, <1>5, <1>6, <1>7, EventPosted DEF EventsNext

(***************************************************************************)
(* Ownership is kept by the steps that send nothing.                       *)
(***************************************************************************)
Owned == OwnInv' /\ MailOK' /\ CommsOK'

LEMMA CadenceKeepsOwners ==
  ASSUME TypeInv, OwnInv, CadenceNext, UNCHANGED <<contactVars, eventVars, voiceVars>>
  PROVE  Owned
<1>1. ASSUME NEW r \in Run, StartRun(r) \/ ChooseStep(r) \/ EndRun(r) PROVE Owned
  <2>1. run[r] \in RunRecord /\ DOMAIN run = Run
    BY DEF TypeInv, RunOK
  <2>2. run[r].at # "send" /\ run'[r].at # "send"
    <3>1. CASE StartRun(r)
      BY <2>1, <3>1 DEF StartRun, IdleRun
    <3>2. CASE ChooseStep(r)
      <4>1. PICK i, due, k :
              LET on == [run[r] EXCEPT !.todo = @ \ {i}] IN
              run' = [run EXCEPT ![r] = IF due = {} THEN on
                        ELSE [on EXCEPT !.at = "claim", !.invoice = i, !.step = k]]
        BY <3>2 DEF ChooseStep
      <4>2. run[r].at = "loop"
        BY <3>2 DEF ChooseStep
      <4> QED
        BY <2>1, <4>1, <4>2 DEF RunRecord
    <3>3. CASE EndRun(r)
      BY <2>1, <3>3 DEF EndRun, IdleRun
    <3> QED
      BY <1>1, <3>1, <3>2, <3>3
  <2>3. \A q \in Run : q # r => run'[q] = run[q]
    BY <1>1, <2>1 DEF StartRun, ChooseStep, EndRun
  <2>4. UNCHANGED <<mail, comms, progress, tool, calls, events>>
    BY <1>1 DEF StartRun, ChooseStep, EndRun, stepVars, eventVars, voiceVars
  <2>5. ActiveHasId'
    BY <2>4 DEF OwnInv, ActiveHasId
  <2> QED
    BY <2>2, <2>3, <2>4, <2>5, OwnersStay DEF Owned
<1>2. ASSUME (\E i \in Invoice : InvoiceSettled(i)) \/ NextDay PROVE Owned
  <2>1. UNCHANGED <<mail, comms, progress, run, tool, calls, events>>
    BY <1>2 DEF InvoiceSettled, NextDay, stepVars, eventVars, voiceVars
  <2>2. ActiveHasId'
    BY <2>1 DEF OwnInv, ActiveHasId
  <2> QED
    BY <2>1, <2>2, OwnersStay DEF Owned
<1>3. ASSUME NEW r \in Run, ClaimStep(r) PROVE Owned
  BY <1>3, ClaimStepKeepsOwners DEF Owned
<1>4. ASSUME NEW r \in Run, SettleClaim(r) PROVE Owned
  BY <1>4, SettleClaimKeepsOwners DEF Owned
<1>5. ASSUME NEW r \in Run, RunDies(r) PROVE Owned
  BY <1>5, RunDiesKeepsOwners DEF Owned
<1> QED
  BY <1>1, <1>2, <1>3, <1>4, <1>5 DEF CadenceNext

LEMMA VoiceKeepsOwners ==
  ASSUME TypeInv, OwnInv, VoiceNext, UNCHANGED <<cadenceVars, eventVars>>
  PROVE  Owned
<1>1. DOMAIN calls = Call /\ (\A c \in Call : calls[c] \in CallRecord)
      /\ DOMAIN tool = Tool
  BY DEF TypeInv, CallsOK, ToolOK
<1>2. UNCHANGED <<progress, run, events>>
  BY DEF cadenceVars, eventVars
<1>3. UNCHANGED comms => ActiveHasId'
  BY <1>2 DEF OwnInv, ActiveHasId
<1>4. ASSUME NEW c \in Call,
             PlaceCall(c) \/ Dial(c) \/ RecordDialed(c) \/ StampCall(c)
               \/ ApplyReport(c) \/ CallDies(c)
      PROVE  Owned
  <2>1. \A d \in Call : calls'[d].handoff = calls[d].handoff
    BY <1>1, <1>4 DEF PlaceCall, Dial, RecordDialed, StampCall, ApplyReport,
                      CallDies, CallRecord
  <2>2. UNCHANGED <<mail, comms, tool>>
    BY <1>4 DEF PlaceCall, Dial, RecordDialed, StampCall, ApplyReport, CallDies,
                stepVars
  <2> QED
    BY <1>2, <1>3, <2>1, <2>2, OwnersStay DEF Owned
<1>5. ASSUME NEW t \in Tool, AskForEmail(t) PROVE Owned
  <2>1. UNCHANGED <<mail, comms, calls>> /\ tool[t].at = "idle"
    BY <1>5 DEF AskForEmail, stepVars
  <2>2. tool'[t].at = "claim" /\ \A u \in Tool : u # t => tool'[u] = tool[u]
    BY <1>1, <1>5 DEF AskForEmail
  <2> QED
    BY <1>2, <1>3, <2>1, <2>2, OwnersStay DEF Owned
<1>6. ASSUME NEW t \in Tool, ClaimCall(t) PROVE Owned
  BY <1>6, ClaimCallKeepsOwners DEF Owned
<1>7. ASSUME NEW t \in Tool, FinishEmail(t) PROVE Owned
  BY <1>7, FinishEmailKeepsOwners DEF Owned
<1>8. ASSUME NEW t \in Tool, ToolDies(t) PROVE Owned
  BY <1>8, ToolDiesKeepsOwners DEF Owned
<1> QED
  BY <1>4, <1>5, <1>6, <1>7, <1>8 DEF VoiceNext

LEMMA ContactsKeepOwners ==
  ASSUME TypeInv, OwnInv,
         UNCHANGED <<stepVars, cadenceVars, eventVars, voiceVars>>
  PROVE  Owned
<1>1. UNCHANGED <<mail, comms, progress, run, tool, calls, events>>
  BY DEF stepVars, cadenceVars, eventVars, voiceVars
<1>2. ActiveHasId'
  BY <1>1 DEF OwnInv, ActiveHasId
<1> QED
  BY <1>1, <1>2, OwnersStay DEF Owned

(* An event that is worked off moves one event only.                       *)
LEMMA EventEffect ==
  ASSUME TypeInv, OwnInv, NEW e \in DOMAIN events, UNCHANGED comms,
         FindCommunication(e) \/ SetContactOptOutEmail(e) \/ LoadAttention(e)
           \/ SetAttention(e) \/ EventFails(e)
  PROVE  /\ \E step \in {"active", "found", "opted", "read", "handled", "dropped"} :
              EventMoves(e, step)
         /\ ActiveHasId'
<1> USE DEF TypeInv
<1>1. EventsOK /\ CommsOK /\ ActiveHasId
  BY DEF OwnInv
<1>2. EventsOK'
  BY <1>1, EventsTypes DEF EventsNext
<1>3. attention' \in Reason /\ "none" \in Reason /\ attention \in Reason
  BY <1>1, <1>2 DEF EventsOK, Reason
<1>4. ASSUME NEW step \in {"found", "opted", "read", "handled", "dropped"},
             EventMoves(e, step)
      PROVE  ActiveHasId'
  BY <1>1, <1>4 DEF ActiveHasId, EventMoves
<1>5. CASE FindCommunication(e)
  <2> DEFINE step == IF ~comms[events[e].comm].id THEN "dropped"
                     ELSE IF NeedsAttention(events[e].kind) THEN "found" ELSE "active"
  <2>1. events' = [events EXCEPT ![e].at = step]
    BY <1>5 DEF FindCommunication, EventGoes
  <2>2. step \in {"dropped", "found", "active"}
    OBVIOUS
  <2>3. step = "active" =>
          comms[events[e].comm].id /\ ~NeedsAttention(events[e].kind)
    OBVIOUS
  <2> HIDE DEF step
  <2>4. EventMoves(e, step)
    BY <1>1, <1>3, <2>1, <2>2, EventAt
  <2>5. step = "active" => ActiveHasId'
    BY <1>1, <2>3, <2>4 DEF ActiveHasId, EventMoves, NeedsAttention
  <2> QED
    BY <1>4, <2>2, <2>4, <2>5
<1>6. CASE SetContactOptOutEmail(e)
  <2>1. PICK step \in {"handled", "opted"} : events' = [events EXCEPT ![e].at = step]
    BY <1>6 DEF SetContactOptOutEmail, EventGoes
  <2>2. EventMoves(e, step)
    BY <1>1, <1>3, <2>1, EventAt
  <2> QED
    BY <1>4, <2>2
<1>7. CASE LoadAttention(e)
  <2>1. EventMoves(e, "read")
    BY <1>1, <1>3, <1>7, EventAt DEF LoadAttention
  <2> QED
    BY <1>4, <2>1
<1>8. CASE SetAttention(e)
  <2>1. EventMoves(e, "handled")
    BY <1>1, <1>3, <1>8, EventAt DEF SetAttention
  <2> QED
    BY <1>4, <2>1
<1>9. CASE EventFails(e)
  <2>1. EventMoves(e, "dropped")
    BY <1>1, <1>3, <1>9, EventAt DEF EventFails
  <2> QED
    BY <1>4, <2>1
<1> QED
  BY <1>5, <1>6, <1>7, <1>8, <1>9

(* The communication that an event marks as seen has a message id, and so  *)
(* is nobody's that may still write to it.                                 *)
LEMMA SeenEffect ==
  ASSUME TypeInv, OwnInv, NEW e \in DOMAIN events, UpdateCommunicationActivity(e)
  PROVE  LET k == events[e].comm IN
         /\ CommsOK' /\ EventMoves(e, "handled") /\ events[e].at = "active"
         /\ k \in DOMAIN comms /\ comms[k].id /\ comms[k].taken
         /\ comms[k].status \in {"sent", "seen"} /\ ~NeedsAttention(events[e].kind)
         /\ DOMAIN comms' = DOMAIN comms
         /\ \A j \in DOMAIN comms : j # k => comms'[j] = comms[j]
         /\ comms'[k].origin = comms[k].origin /\ comms'[k].to = comms[k].to
         /\ comms'[k].invoice = comms[k].invoice /\ comms'[k].id = comms[k].id
         /\ comms'[k].taken = comms[k].taken /\ comms'[k].status = "seen"
<1> DEFINE k == events[e].comm
           c == [comms[k] EXCEPT !.status = "seen"]
<1>1. EventsOK /\ CommsOK /\ attention \in Reason
  BY DEF TypeInv, EventsOK
<1>2. events[e].at = "active" /\ k \in DOMAIN comms
  BY <1>1 DEF UpdateCommunicationActivity, EventsOK
<1>3. comms[k].id /\ ~NeedsAttention(events[e].kind)
  BY <1>2 DEF OwnInv, ActiveHasId
<1>4. comms[k].taken /\ comms[k].status \in {"sent", "seen"}
  BY <1>2, <1>3 DEF OwnInv, IdMeansTaken
<1>5. comms[k] \in Communication
  BY <1>1, <1>2, CommsDomain
<1>6. /\ c \in Communication /\ c.origin = comms[k].origin /\ c.to = comms[k].to
      /\ c.invoice = comms[k].invoice /\ c.id = comms[k].id
      /\ c.taken = comms[k].taken /\ c.status = "seen"
  BY <1>5 DEF Communication, CommStatus
<1>7. comms' = [comms EXCEPT ![k] = c]
  BY DEF UpdateCommunicationActivity
<1> HIDE DEF c
<1>8. /\ CommsOK' /\ DOMAIN comms' = DOMAIN comms /\ comms'[k] = c
      /\ \A j \in DOMAIN comms : j # k => comms'[j] = comms[j]
  BY <1>1, <1>2, <1>6, <1>7, CommSet
<1>9. EventMoves(e, "handled")
  BY <1>1, <1>8, EventAt DEF UpdateCommunicationActivity, EventGoes
<1> QED
  BY <1>2, <1>3, <1>4, <1>6, <1>8, <1>9

LEMMA SeenKeepsOwners ==
  ASSUME TypeInv, OwnInv, NEW e \in DOMAIN events, UpdateCommunicationActivity(e),
         UNCHANGED <<cadenceVars, voiceVars>>
  PROVE  Owned
<1>1. PICK k \in DOMAIN comms :
        /\ CommsOK' /\ EventMoves(e, "handled")
        /\ comms[k].id /\ comms[k].taken /\ comms[k].status \in {"sent", "seen"}
        /\ DOMAIN comms' = DOMAIN comms
        /\ \A j \in DOMAIN comms : j # k => comms'[j] = comms[j]
        /\ comms'[k].origin = comms[k].origin
        /\ comms'[k].invoice = comms[k].invoice /\ comms'[k].id = comms[k].id
        /\ comms'[k].taken = comms[k].taken /\ comms'[k].status = "seen"
  BY SeenEffect
<1>2. UNCHANGED <<mail, run, progress, calls, tool>>
  BY DEF UpdateCommunicationActivity, cadenceVars, voiceVars
<1>3. \A j \in DOMAIN comms :
        /\ comms'[j].origin = comms[j].origin /\ comms'[j].invoice = comms[j].invoice
        /\ comms'[j].id = comms[j].id /\ comms'[j].taken = comms[j].taken
        /\ comms'[j].status = comms[j].status \/ (j = k /\ comms'[j].status = "seen")
  BY <1>1
<1>4. \A j \in DOMAIN comms : Hot(j)' <=> Hot(j)
  BY <1>1, <1>3 DEF Hot
<1>5. \A o : CommsOf(o)' = CommsOf(o)
  BY <1>1, <1>3 DEF CommsOf
<1>6. \A o : HotOf(o)' = HotOf(o)
  BY <1>1, <1>3, <1>4 DEF HotOf, CommsOf
<1>7. ASSUME NEW q \in Sender PROVE Holds(q)' /\ Files(q)'
  <2>1. Holds(q) /\ Files(q)
    BY DEF OwnInv
  <2>2. Holds(q)'
    BY <1>2, <2>1 DEF Holds, Busy, Origin, Step
  <2>3. mail[q].at \in {"recorded", "settled"} => mail[q].comm # k
    BY <1>1, <2>1 DEF Files
  <2>4. mail[q].at \in {"finalized", "returned"} /\ mail[q].outcome = "send_failed" =>
          mail[q].comm # k
    BY <1>1, <2>1 DEF Files
  <2>5. mail'[q] = mail[q] /\ (mail[q].at \in {"recorded", "settled"} => mail[q].comm # None)
    BY <1>2, <2>1 DEF Holds
  <2>6. Files(q)'
    BY <1>1, <1>3, <2>1, <2>3, <2>4, <2>5 DEF Files
  <2> QED
    BY <2>2, <2>6
<1>8. OneOwner' /\ IdMeansTaken'
  BY <1>1, <1>2, <1>3 DEF OwnInv, OneOwner, IdMeansTaken, Busy
<1>9. ActiveHasId'
  <2>1. ActiveHasId /\ \A f \in DOMAIN events : events[f].comm \in DOMAIN comms
    BY DEF OwnInv, TypeInv, EventsOK
  <2> QED
    BY <1>1, <1>3, <2>1 DEF ActiveHasId, EventMoves, NeedsAttention
<1>10. ASSUME NEW r \in Run PROVE RunOwns(r)'
  <2>1. RunOwns(r)
    BY DEF OwnInv
  <2>2. PICK o : o = mail[r].origin
    OBVIOUS
  <2>3. HotOf(o)' = HotOf(o)
    BY <1>6
  <2>4. HotOf(mail[r].origin)' = HotOf(o)' /\ HotOf(mail[r].origin) = HotOf(o)
    BY <1>2, <2>2 DEF HotOf, CommsOf, Hot
  <2> QED
    BY <1>2, <2>1, <2>3, <2>4 DEF RunOwns, Busy
<1>11. ASSUME NEW t \in Tool PROVE ToolOwns(t)'
  <2>1. ToolOwns(t)
    BY DEF OwnInv
  <2>2. PICK o : o = mail[t].origin
    OBVIOUS
  <2>3. CommsOf(o)' = CommsOf(o)
    BY <1>5
  <2>4. CommsOf(mail[t].origin)' = CommsOf(o)' /\ CommsOf(mail[t].origin) = CommsOf(o)
    BY <1>2, <2>2 DEF CommsOf
  <2> QED
    BY <1>2, <2>1, <2>3, <2>4 DEF ToolOwns, Busy
<1>12. \A i \in Invoice, j \in Step : StepOwned(i, j)'
  BY <1>2, <1>6 DEF OwnInv, StepOwned
<1>13. \A c \in Call : CallOwned(c)'
  BY <1>2, <1>5 DEF OwnInv, CallOwned
<1>14. MailOK'
  BY <1>2 DEF TypeInv, MailOK, MailWith, Origin, Step
<1> QED
  BY <1>1, <1>7, <1>8, <1>9, <1>10, <1>11, <1>12, <1>13, <1>14 DEF OwnInv, Step, Owned

LEMMA EventsKeepOwners ==
  ASSUME TypeInv, OwnInv, EventsNext, UNCHANGED <<cadenceVars, voiceVars>>
  PROVE  Owned
<1>1. UNCHANGED <<progress, run, tool, calls>>
  BY DEF cadenceVars, voiceVars
<1>2. CASE PostEvent
  <2>1. UNCHANGED <<mail, comms>>
    BY <1>2 DEF PostEvent, stepVars
  <2>2. events \in Seq(EventRecord) /\ EventsOK /\ CommsOK
    BY DEF TypeInv, EventsOK
  <2>3. Len(events) \in Nat /\ DOMAIN events = 1..Len(events)
    BY <2>2
  <2>4. ActiveHasId'
    BY <1>2, <2>1, <2>2, <2>3, EventPosted DEF OwnInv, ActiveHasId
  <2> QED
    BY <1>1, <2>1, <2>4, OwnersStay DEF Owned
<1>3. ASSUME NEW e \in DOMAIN events,
             FindCommunication(e) \/ SetContactOptOutEmail(e) \/ LoadAttention(e)
               \/ SetAttention(e) \/ EventFails(e)
      PROVE  Owned
  <2>1. UNCHANGED <<mail, comms>>
    BY <1>3 DEF FindCommunication, SetContactOptOutEmail, LoadAttention,
                SetAttention, EventFails, stepVars
  <2>2. ActiveHasId'
    BY <1>3, <2>1, EventEffect
  <2> QED
    BY <1>1, <2>1, <2>2, OwnersStay DEF Owned
<1>4. ASSUME NEW e \in DOMAIN events, UpdateCommunicationActivity(e) PROVE Owned
  BY <1>4, SeenKeepsOwners
<1> QED
  BY <1>2, <1>3, <1>4 DEF EventsNext

(***************************************************************************)
(* A stamp stands.                                                         *)
(***************************************************************************)
StillToWrite(q, k) == mail[q].at \in {"recorded", "settled"} /\ mail[q].comm = k

(* What no step does to a stamp: it takes back no call, it gives nobody    *)
(* else's communication to a send step, and it fails none that its sender  *)
(* is done with.                                                           *)
StampFrame ==
  /\ \A c \in Call : calls[c].placed => calls'[c].placed
  /\ \A q \in Sender, k \in DOMAIN comms :
       StillToWrite(q, k)' => StillToWrite(q, k)
  /\ \A k \in DOMAIN comms :
       \/ \E q \in Sender : StillToWrite(q, k)
       \/ /\ k \in DOMAIN comms' /\ comms'[k].taken = comms[k].taken
          /\ comms'[k].invoice = comms[k].invoice
          /\ comms'[k].origin = comms[k].origin
          /\ comms'[k].status = "failed" => comms[k].status = "failed"

LEMMA StampStays ==
  ASSUME NEW i \in Invoice, StampStands(i), StampFrame, started'[i] = started[i]
  PROVE  StampStands(i)'
<1>1. CASE \E c \in Call \ TestCall : started[i] = c /\ calls[c].placed
  BY <1>1 DEF StampStands, StampFrame
<1>2. CASE StampedMail(i, started[i])
  <2>1. PICK k : k = started[i]
    OBVIOUS
  <2>2. /\ k \in DOMAIN comms /\ comms[k].taken /\ comms[k].status # "failed"
        /\ comms[k].invoice = i /\ \A c \in TestCall : comms[k].origin # <<c>>
        /\ \A q \in Sender : ~StillToWrite(q, k)
    BY <1>2, <2>1 DEF StampedMail, StillToWrite
  <2>3. /\ k \in DOMAIN comms' /\ comms'[k].taken /\ comms'[k].status # "failed"
        /\ comms'[k].invoice = i /\ \A c \in TestCall : comms'[k].origin # <<c>>
        /\ \A q \in Sender : ~StillToWrite(q, k)'
    BY <2>2 DEF StampFrame
  <2>4. StampedMail(i, k)'
    BY <2>3 DEF StampedMail, StillToWrite
  <2> QED
    BY <2>1, <2>4 DEF StampStands, StampedMail
<1> QED
  BY <1>1, <1>2 DEF StampStands

(* A send step keeps every stamp but the one it may make.                  *)
LEMMA SendFrame ==
  ASSUME TypeInv, OwnInv, NEW p \in Sender, SendEmailStep(p),
         UNCHANGED <<contactVars, cadenceVars, eventVars, voiceVars>>
  PROVE  StampFrame
<1>1. MailOK /\ CommsOK /\ Holds(p) /\ Files(p)
  BY DEF TypeInv, OwnInv
<1>2. \A c \in Call : calls[c].placed => calls'[c].placed
  BY DEF voiceVars
<1>3. ASSUME Others(p), NEW k, CommsMove(p, k),
             k \in DOMAIN comms => StillToWrite(p, k),
             mail'[p].at \in {"recorded", "settled"} => mail'[p].comm = k
      PROVE  StampFrame
  <2>1. \A q \in Sender, j \in DOMAIN comms : StillToWrite(q, j)' => StillToWrite(q, j)
    BY <1>3 DEF StillToWrite, Others
  <2>2. \A j \in DOMAIN comms : j # k => j \in DOMAIN comms' /\ comms'[j] = comms[j]
    BY <1>3 DEF CommsMove
  <2> QED
    BY <1>2, <1>3, <2>1, <2>2 DEF StampFrame
<1>4. ASSUME Others(p), UNCHANGED comms,
             mail'[p].at \notin {"recorded", "settled"}
      PROVE  StampFrame
  <2>1. \A q \in Sender, j \in DOMAIN comms : StillToWrite(q, j)' => StillToWrite(q, j)
    BY <1>4 DEF StillToWrite, Others
  <2> QED
    BY <1>2, <1>4, <2>1 DEF StampFrame
<1>5. CASE PickAndGate(p)
  BY <1>1, <1>4, <1>5, PickEffect DEF PickAndGate, Writes
<1>6. CASE InsertPendingCommunication(p)
  BY <1>1, <1>3, <1>4, <1>6, InsertEffect DEF Writes
<1>7. CASE Dispatch(p)
  BY <1>1, <1>3, <1>7, DispatchEffect DEF Writes, StillToWrite
<1>8. CASE StampAndFinalize(p)
  BY <1>1, <1>3, <1>8, FinalizeEffect DEF Writes, StillToWrite
<1>9. CASE InsertRecoveryAttempt(p)
  BY <1>1, <1>4, <1>9, AttemptEffect DEF InsertRecoveryAttempt, Writes
<1> QED
  BY <1>5, <1>6, <1>7, <1>8, <1>9 DEF SendEmailStep

(* The stamp of a send step names its own mail, which MailerSend took and  *)
(* which is finalized as sent, or left as it was recorded.                 *)
LEMMA FreshStamp ==
  ASSUME TypeInv, OwnInv, NEW p \in Sender, StampAndFinalize(p), Stamps(p)
  PROVE  StampedMail(mail[p].invoice, mail[p].comm)'
<1> DEFINE k == mail[p].comm
<1>1. MailOK /\ CommsOK /\ Holds(p) /\ Files(p)
  BY DEF TypeInv, OwnInv
<1>2. /\ Others(p) /\ Kept(p) /\ mail[p].at = "settled"
      /\ CommsMove(p, k) /\ DOMAIN comms' = DOMAIN comms /\ k \in DOMAIN comms
      /\ comms'[k].taken = comms[k].taken
      /\ comms'[k].status = FinalStatus(p) \/ UNCHANGED comms
      /\ mail'[p].comm = k /\ mail'[p].at \in {"finalized", "returned"}
  BY <1>1, FinalizeEffect DEF Writes
<1>3. /\ mail[p].outcome = "sent" /\ ~mail[p].quiet /\ Busy(p)
      /\ comms[k].taken /\ comms[k].status = "pending"
      /\ comms[k].invoice = mail[p].invoice /\ comms[k].origin = mail[p].origin
  BY <1>1, <1>2 DEF Stamps, Files, Holds, Busy
<1>4. comms'[k].taken /\ comms'[k].status # "failed"
  BY <1>2, <1>3 DEF FinalStatus
<1>5. comms'[k].invoice = mail[p].invoice /\ comms'[k].origin = mail[p].origin
  BY <1>2, <1>3 DEF CommsMove
<1>6. \A c \in TestCall : mail[p].origin # <<c>>
  BY <1>1, <1>3 DEF Holds
<1>7. ASSUME NEW q \in Sender, mail'[q].at \in {"recorded", "settled"},
             mail'[q].comm = k
      PROVE  FALSE
  <2>1. q # p /\ mail'[q] = mail[q]
    BY <1>2, <1>7 DEF Others
  <2>2. Files(q) /\ Holds(q) /\ Busy(q)
    BY <1>7, <2>1 DEF OwnInv, Busy
  <2>3. comms[k].origin = mail[q].origin
    BY <1>7, <2>1, <2>2 DEF Files, Holds
  <2> QED
    BY <1>3, <2>1, <2>2, <2>3 DEF OwnInv, OneOwner
<1> HIDE DEF k
<1>8. mail'[p].comm = k /\ mail'[p].invoice = mail[p].invoice
  BY <1>2 DEF Kept
<1> QED
  BY <1>2, <1>4, <1>5, <1>6, <1>7, <1>8 DEF StampedMail

LEMMA SendStamps ==
  ASSUME TypeInv, OwnInv, StampInv, NEW p \in Sender, SendEmailStep(p),
         UNCHANGED <<contactVars, cadenceVars, eventVars, voiceVars>>
  PROVE  StampInv' /\ started' \in [Invoice -> Nat \cup Call]
<1>1. StampFrame
  BY SendFrame
<1>2. CASE UNCHANGED started
  <2>1. \A i \in Invoice : StampStands(i)'
    BY <1>1, <1>2, StampStays DEF StampInv
  <2> QED
    BY <1>2, <2>1 DEF StampInv, TypeInv
<1>3. CASE started' # started
  <2>1. StampAndFinalize(p) /\ Stamps(p)
        /\ started' = MarkOutreachStarted(mail[p].invoice, mail[p].comm)
    BY <1>3 DEF SendEmailStep, PickAndGate, InsertPendingCommunication, Dispatch,
                StampAndFinalize, InsertRecoveryAttempt
  <2>2. started' = [started EXCEPT ![mail[p].invoice] = mail[p].comm]
    BY <1>3, <2>1 DEF MarkOutreachStarted
  <2>3. StampedMail(mail[p].invoice, mail[p].comm)'
    BY <2>1, FreshStamp
  <2>4. mail[p].invoice \in Invoice /\ mail[p].comm \in Nat
    BY <2>1 DEF TypeInv, OwnInv, Holds, Busy, MailOK, MailWith, StampAndFinalize, At
  <2>5. mail'[p].invoice = mail[p].invoice /\ mail'[p].comm = mail[p].comm
    <3>1. MailOK /\ CommsOK /\ Holds(p) /\ Files(p)
      BY DEF TypeInv, OwnInv
    <3> QED
      BY <2>1, <3>1, FinalizeEffect DEF Writes, Kept
  <2>6. started' \in [Invoice -> Nat \cup Call]
    BY <2>2, <2>4 DEF TypeInv
  <2>7. ASSUME NEW i \in Invoice PROVE StampStands(i)'
    <3>1. CASE i = mail[p].invoice
      <4>1. started'[i] = mail'[p].comm
        BY <2>2, <2>4, <2>5, <3>1 DEF TypeInv
      <4>2. StampedMail(i, started[i])'
        BY <2>3, <2>5, <3>1, <4>1 DEF StampedMail
      <4> QED
        BY <4>2 DEF StampStands
    <3>2. CASE i # mail[p].invoice
      <4>1. started'[i] = started[i] /\ StampStands(i)
        BY <2>2, <3>2 DEF TypeInv, StampInv
      <4> QED
        BY <1>1, <4>1, StampStays
    <3> QED
      BY <3>1, <3>2
  <2> QED
    BY <2>6, <2>7 DEF StampInv
<1> QED
  BY <1>2, <1>3

(* Nobody else stamps a mail: where a send step begins or ends, its state  *)
(* is replaced by one that has no communication to write to.               *)
LEMMA StampsHeld ==
  ASSUME MailOK, UNCHANGED comms, \A c \in Call : calls[c].placed => calls'[c].placed,
         \A q \in Sender : mail'[q] = mail[q] \/ mail'[q].at \in {"idle", "picking"}
  PROVE  StampFrame
<1>1. \A q \in Sender, k \in DOMAIN comms : StillToWrite(q, k)' => StillToWrite(q, k)
  BY DEF StillToWrite
<1> QED
  BY <1>1 DEF StampFrame

LEMMA StampsKept ==
  ASSUME StampFrame, TypeInv, StampInv, UNCHANGED started
  PROVE  StampInv' /\ started' \in [Invoice -> Nat \cup Call]
<1>1. \A i \in Invoice : StampStands(i)'
  BY StampStays DEF StampInv
<1> QED
  BY <1>1 DEF StampInv, TypeInv

LEMMA CadenceStamps ==
  ASSUME TypeInv, StampInv, CadenceNext, UNCHANGED <<contactVars, eventVars, voiceVars>>
  PROVE  StampInv' /\ started' \in [Invoice -> Nat \cup Call]
<1>1. MailOK /\ UNCHANGED calls
  BY DEF TypeInv, voiceVars
<1>2. DOMAIN mail = Sender
  BY <1>1 DEF MailOK
<1>3. UNCHANGED <<comms, started>>
  BY DEF CadenceNext, StartRun, ChooseStep, ClaimStep, SettleClaim, EndRun, RunDies,
         InvoiceSettled, NextDay, stepVars
<1>4. \/ UNCHANGED mail
      \/ \E r \in Run : ClaimStep(r)
      \/ \E r \in Run : mail' = [mail EXCEPT ![r] = IdleMail]
  BY DEF CadenceNext, StartRun, ChooseStep, ClaimStep, SettleClaim, EndRun, RunDies,
         InvoiceSettled, NextDay, stepVars
<1>5. \A q \in Sender : mail'[q] = mail[q] \/ mail'[q].at \in {"idle", "picking"}
  <2>1. CASE \E r \in Run : ClaimStep(r)
    <3>1. PICK r \in Run : ClaimStep(r)
      BY <2>1
    <3>2. \/ mail' = [mail EXCEPT ![r] =
                Request(<<run[r].invoice, run[r].step>>, run[r].invoice,
                        [by |-> "default"], run[r].mode, FALSE)]
          \/ mail' = mail
      BY <3>1 DEF ClaimStep
    <3> QED
      BY <1>2, <3>2 DEF Request, IdleMail
  <2>2. CASE \E r \in Run : mail' = [mail EXCEPT ![r] = IdleMail]
    BY <1>2, <2>2 DEF IdleMail
  <2> QED
    BY <1>4, <2>1, <2>2
<1>6. StampFrame
  BY <1>1, <1>3, <1>5, StampsHeld
<1> QED
  BY <1>3, <1>6, StampsKept

LEMMA VoiceStamps ==
  ASSUME TypeInv, StampInv, VoiceNext, UNCHANGED <<cadenceVars, eventVars>>
  PROVE  StampInv' /\ started' \in [Invoice -> Nat \cup Call]
<1>1. MailOK /\ CallsOK /\ ToolOK
  BY DEF TypeInv
<1>2. DOMAIN mail = Sender /\ DOMAIN calls = Call /\ DOMAIN tool = Tool
      /\ \A c \in Call : calls[c] \in CallRecord /\ Dialed(calls[c])
  BY <1>1 DEF MailOK, CallsOK, ToolOK
<1>3. UNCHANGED comms
  BY DEF VoiceNext, PlaceCall, Dial, RecordDialed, StampCall, ApplyReport, CallDies,
         AskForEmail, ClaimCall, FinishEmail, ToolDies, stepVars
<1>4. \A q \in Sender : mail'[q] = mail[q] \/ mail'[q].at \in {"idle", "picking"}
  <2>1. \/ UNCHANGED mail
        \/ \E t \in Tool : ClaimCall(t)
        \/ \E t \in Tool : mail' = [mail EXCEPT ![t] = IdleMail]
    BY DEF VoiceNext, PlaceCall, Dial, RecordDialed, StampCall, ApplyReport, CallDies,
           AskForEmail, ClaimCall, FinishEmail, ToolDies, stepVars
  <2>2. CASE \E t \in Tool : ClaimCall(t)
    <3>1. PICK t \in Tool : ClaimCall(t)
      BY <2>2
    <3>2. \/ mail' = [mail EXCEPT ![t] =
                Request(<<tool[t].call>>, CallInvoice[tool[t].call],
                        tool[t].choice, HandoffMode, tool[t].call \in TestCall)]
          \/ mail' = mail
      BY <3>1 DEF ClaimCall
    <3> QED
      BY <1>2, <3>2 DEF Request, IdleMail
  <2>3. CASE \E t \in Tool : mail' = [mail EXCEPT ![t] = IdleMail]
    BY <1>2, <2>3 DEF IdleMail
  <2> QED
    BY <2>1, <2>2, <2>3
<1>5. \A c \in Call : calls[c].placed => calls'[c].placed
  <2>1. ASSUME NEW c \in Call, PlaceCall(c) \/ Dial(c) \/ RecordDialed(c)
                 \/ StampCall(c) \/ ApplyReport(c) \/ CallDies(c)
        PROVE  \A d \in Call : calls[d].placed => calls'[d].placed
    <3>1. \A d \in Call : d # c => calls'[d] = calls[d]
      BY <1>2, <2>1 DEF PlaceCall, Dial, RecordDialed, StampCall, ApplyReport, CallDies
    <3>2. CASE Dial(c)
      <4>1. ~calls[c].placed
        BY <1>2, <3>2 DEF Dial, Dialed
      <4> QED
        BY <3>1, <4>1
    <3>3. CASE PlaceCall(c) \/ RecordDialed(c) \/ StampCall(c) \/ ApplyReport(c)
                 \/ CallDies(c)
      <4>1. calls'[c].placed = calls[c].placed
        BY <1>2, <3>3 DEF PlaceCall, RecordDialed, StampCall, ApplyReport, CallDies,
                          CallRecord
      <4> QED
        BY <3>1, <4>1
    <3> QED
      BY <2>1, <3>2, <3>3
  <2>2. ASSUME NEW t \in Tool, AskForEmail(t) \/ ClaimCall(t) \/ FinishEmail(t)
                 \/ ToolDies(t)
        PROVE  \A d \in Call : calls'[d].placed = calls[d].placed
    BY <1>2, <2>2 DEF AskForEmail, ClaimCall, FinishEmail, ToolDies, CallRecord
  <2> QED
    BY <2>1, <2>2 DEF VoiceNext
<1>6. StampFrame
  BY <1>1, <1>3, <1>4, <1>5, StampsHeld
<1>7. CASE UNCHANGED started
  BY <1>6, <1>7, StampsKept
<1>8. ASSUME NEW c \in Call, StampCall(c), started' # started
      PROVE  StampInv' /\ started' \in [Invoice -> Nat \cup Call]
  <2>1. /\ c \notin TestCall /\ calls[c].at = "ringing"
        /\ started' = [started EXCEPT ![CallInvoice[c]] = c]
    BY <1>8 DEF StampCall, MarkOutreachStarted
  <2>2. calls[c].placed
    BY <1>2, <2>1 DEF Dialed
  <2>3. started \in [Invoice -> Nat \cup Call] /\ CallInvoice[c] \in Invoice
    BY VoiceAssumption DEF VoiceAssumption, TypeInv
  <2>4. started' \in [Invoice -> Nat \cup Call]
    BY <2>1, <2>3
  <2>5. ASSUME NEW i \in Invoice PROVE StampStands(i)'
    <3>1. CASE i = CallInvoice[c]
      <4>1. started'[i] = c /\ calls'[c].placed
        BY <1>5, <2>1, <2>2, <2>3, <3>1
      <4> QED
        BY <2>1, <4>1 DEF StampStands
    <3>2. CASE i # CallInvoice[c]
      <4>1. started'[i] = started[i] /\ StampStands(i)
        BY <2>1, <2>3, <3>2 DEF StampInv
      <4> QED
        BY <1>6, <4>1, StampStays
    <3> QED
      BY <3>1, <3>2
  <2> QED
    BY <2>4, <2>5 DEF StampInv
<1>9. UNCHANGED started \/ \E c \in Call : StampCall(c)
  BY DEF VoiceNext, PlaceCall, Dial, RecordDialed, ApplyReport, CallDies,
         AskForEmail, ClaimCall, FinishEmail, ToolDies, stepVars
<1> QED
  BY <1>7, <1>8, <1>9

LEMMA EventsStamps ==
  ASSUME TypeInv, OwnInv, StampInv, EventsNext, UNCHANGED <<cadenceVars, voiceVars>>
  PROVE  StampInv' /\ started' \in [Invoice -> Nat \cup Call]
<1>1. UNCHANGED <<mail, started, calls>>
  BY DEF EventsNext, PostEvent, FindCommunication, UpdateCommunicationActivity,
         SetContactOptOutEmail, LoadAttention, SetAttention, EventFails, stepVars,
         voiceVars
<1>2. UNCHANGED comms => StampFrame
  BY <1>1, StampsHeld DEF TypeInv
<1>3. ASSUME NEW e \in DOMAIN events, UpdateCommunicationActivity(e)
      PROVE  StampFrame
  <2>1. PICK k \in DOMAIN comms :
          /\ DOMAIN comms' = DOMAIN comms
          /\ \A j \in DOMAIN comms : j # k => comms'[j] = comms[j]
          /\ comms'[k].origin = comms[k].origin
          /\ comms'[k].invoice = comms[k].invoice
          /\ comms'[k].taken = comms[k].taken /\ comms'[k].status = "seen"
    BY <1>3, SeenEffect
  <2>2. \A q \in Sender, j \in DOMAIN comms : StillToWrite(q, j)' => StillToWrite(q, j)
    BY <1>1 DEF StillToWrite
  <2> QED
    BY <1>1, <2>1, <2>2 DEF StampFrame
<1>4. UNCHANGED comms \/ \E e \in DOMAIN events : UpdateCommunicationActivity(e)
  BY DEF EventsNext, PostEvent, FindCommunication, SetContactOptOutEmail,
         LoadAttention, SetAttention, EventFails, stepVars
<1> QED
  BY <1>1, <1>2, <1>3, <1>4, StampsKept

LEMMA ContactsStamps ==
  ASSUME TypeInv, StampInv, UNCHANGED <<stepVars, cadenceVars, eventVars, voiceVars>>
  PROVE  StampInv' /\ started' \in [Invoice -> Nat \cup Call]
<1>1. UNCHANGED <<mail, comms, started, calls>>
  BY DEF stepVars, voiceVars
<1> QED
  BY <1>1, StampsHeld, StampsKept DEF TypeInv

(***************************************************************************)
(* Who unsubscribed is left alone.                                         *)
(***************************************************************************)

(* How an edit or a sync may change a row.                                 *)
RowMoves(c) ==
  \/ contacts'[c] = contacts[c]
  \/ /\ contacts[c] = Absent /\ contacts'[c] # Absent
     /\ contacts'[c].kind = "poc" => contacts'[c].primary
  \/ contacts[c].kind = "dunning" /\ contacts'[c].kind \in {"dunning", "deleted"}
  \/ /\ contacts[c].kind = "poc" /\ contacts'[c].kind = "poc"
     /\ contacts'[c].primary = contacts[c].primary
     /\ contacts[c].out => contacts'[c].out

LEMMA EditsMoveRows ==
  ASSUME ContactsOK, SyncKnowsPoc, ContactsNext
  PROVE  \A c \in Contact : RowMoves(c)
<1>1. DOMAIN contacts = Contact /\ sync.poc \subseteq Contact
      /\ sync.email \in Address \cup {NoAddress}
  BY DEF ContactsOK
<1>2. ASSUME NEW c \in Contact, NEW new, contacts' = [contacts EXCEPT ![c] = new],
             \/ /\ contacts[c] = Absent /\ new # Absent
                /\ new.kind = "poc" => new.primary
             \/ contacts[c].kind = "dunning" /\ new.kind \in {"dunning", "deleted"}
      PROVE  \A d \in Contact : RowMoves(d)
  <2>1. contacts'[c] = new /\ \A d \in Contact : d # c => contacts'[d] = contacts[d]
    BY <1>1, <1>2
  <2> QED
    BY <1>2, <2>1 DEF RowMoves
<1>3. CASE CreateContact
  <2>1. PICK c \in NewId, a \in Address, r \in Rank :
          contacts' = [contacts EXCEPT ![c] = Dunning(a, r, FALSE)]
    BY <1>3 DEF CreateContact, EditRow
  <2>2. Dunning(a, r, FALSE) # Absent /\ Dunning(a, r, FALSE).kind = "dunning"
    BY DEF Dunning, Absent
  <2>3. c \in Contact /\ contacts[c] = Absent
    BY DEF NewId
  <2> QED
    BY <1>2, <2>1, <2>2, <2>3
<1>4. CASE UpdateContact
  <2>1. PICK c \in OnFile, a \in Address, r \in Rank, o \in BOOLEAN :
          /\ contacts[c].kind = "dunning"
          /\ contacts' = [contacts EXCEPT ![c] = Dunning(a, r, o)]
    BY <1>4 DEF UpdateContact, EditRow
  <2>2. Dunning(a, r, o).kind = "dunning" /\ c \in Contact
    BY DEF Dunning, OnFile
  <2> QED
    BY <1>2, <2>1, <2>2
<1>5. CASE DeleteContact
  <2>1. PICK c \in OnFile : /\ contacts[c].kind = "dunning"
                            /\ contacts' = [contacts EXCEPT ![c] = Deleted]
    BY <1>5 DEF DeleteContact, EditRow
  <2>2. Deleted.kind = "deleted" /\ c \in Contact
    BY RowTypes DEF OnFile
  <2> QED
    BY <1>2, <2>1, <2>2
<1>6. CASE SyncClient \/ SyncReadsPoc
  BY <1>6 DEF SyncClient, SyncReadsPoc, RowMoves
<1>7. CASE PlanPocReconcile
  <2>1. CASE contacts' = [c \in Contact |->
               IF c \in sync.poc THEN Reconciled(contacts[c], sync.email)
                                 ELSE contacts[c]]
    <3>1. ASSUME NEW c \in Contact, c \in sync.poc PROVE RowMoves(c)
      <4>1. contacts'[c] = Reconciled(contacts[c], sync.email)
        BY <2>1, <3>1
      <4>2. contacts[c].kind = "poc" /\ contacts[c] \in Row
        BY <3>1, RowTypes DEF SyncKnowsPoc, ContactsOK
      <4>3. /\ contacts'[c].kind = "poc"
            /\ contacts'[c].primary = contacts[c].primary
            /\ contacts'[c].out = contacts[c].out
        BY <4>1, <4>2 DEF Reconciled, Row
      <4> QED
        BY <4>2, <4>3 DEF RowMoves
    <3>2. ASSUME NEW c \in Contact, c \notin sync.poc PROVE RowMoves(c)
      <4>1. contacts'[c] = contacts[c]
        BY <2>1, <3>2
      <4> QED
        BY <4>1 DEF RowMoves
    <3> QED
      BY <3>1, <3>2
  <2>2. ASSUME NEW c \in NewId, sync.email # NoAddress,
               contacts' = IF Fits(c, PocRow(sync.email))
                             THEN [contacts EXCEPT ![c] = PocRow(sync.email)]
                             ELSE contacts
        PROVE  \A d \in Contact : RowMoves(d)
    <3>1. PocRow(sync.email) # Absent /\ PocRow(sync.email).primary
      BY DEF PocRow, Absent
    <3>2. c \in Contact /\ contacts[c] = Absent
      BY DEF NewId
    <3>3. CASE contacts' = [contacts EXCEPT ![c] = PocRow(sync.email)]
      BY <1>2, <3>1, <3>2, <3>3
    <3>4. CASE contacts' = contacts
      BY <3>4 DEF RowMoves
    <3> QED
      BY <2>2, <3>3, <3>4
  <2>3. CASE UNCHANGED contacts
    BY <2>3 DEF RowMoves
  <2> QED
    BY <1>7, <2>1, <2>2, <2>3 DEF PlanPocReconcile
<1> QED
  BY <1>3, <1>4, <1>5, <1>6, <1>7 DEF ContactsNext

LEMMA ContactsLeave ==
  ASSUME TypeInv, LeftInv, ContactsNext,
         UNCHANGED <<stepVars, cadenceVars, eventVars, voiceVars>>
  PROVE  LeftInv'
<1>1. UNCHANGED <<mail, comms, events>>
  BY DEF stepVars, eventVars
<1>2. ContactsOK /\ SyncKnowsPoc /\ MailedOnFile
  BY DEF TypeInv, LeftInv
<1>3. \A c \in Contact : RowMoves(c)
  BY <1>2, EditsMoveRows
<1>4. \A c : HasLeft(c)' <=> HasLeft(c)
  BY <1>1 DEF HasLeft
<1>5. \A c \in Contact : HasLeft(c) => contacts[c] # Absent
  BY <1>2 DEF HasLeft, MailedOnFile, TypeInv, EventsOK
<1>6. ASSUME NEW c \in Contact PROVE PocLeft(c)'
  <2>1. PocLeft(c) /\ RowMoves(c) /\ (HasLeft(c) => contacts[c] # Absent)
    BY <1>3, <1>5 DEF LeftInv
  <2> QED
    BY <1>4, <2>1 DEF PocLeft, RowMoves
<1>7. \A c \in Contact : contacts[c] # Absent => contacts'[c] # Absent
  BY <1>3, RowTypes DEF RowMoves
<1>8. MailedOnFile'
  BY <1>1, <1>2, <1>7 DEF MailedOnFile
<1>9. \A c \in Contact : contacts[c].kind = "poc" => contacts'[c].kind = "poc"
  BY <1>3, RowTypes DEF RowMoves
<1>10. SyncKnowsPoc'
  <2>1. CASE SyncReadsPoc
    <3>1. sync'.poc = {c \in OnFile : contacts[c].kind = "poc"} /\ UNCHANGED contacts
      <4> DEFINE poc == {c \in OnFile : contacts[c].kind = "poc"}
      <4>1. sync' = [sync EXCEPT !.at = "read", !.poc = poc]
        BY <2>1 DEF SyncReadsPoc
      <4> HIDE DEF poc
      <4>2. sync \in [at : {"idle", "client", "read"},
                      email : Address \cup {NoAddress}, poc : SUBSET Contact]
        BY <1>2 DEF ContactsOK
      <4>3. sync'.poc = poc
        BY <4>1, <4>2
      <4> QED
        BY <2>1, <4>3 DEF SyncReadsPoc, poc
    <3> QED
      BY <3>1 DEF SyncKnowsPoc
  <2>2. CASE SyncClient \/ PlanPocReconcile
    <3>1. sync' = IdleSync \/
            \E email : sync' = [IdleSync EXCEPT !.at = "client", !.email = email]
      <4>1. CASE SyncClient
        BY <4>1 DEF SyncClient
      <4>2. CASE PlanPocReconcile
        BY <4>2 DEF PlanPocReconcile
      <4> QED
        BY <2>2, <4>1, <4>2
    <3>2. sync'.poc = {}
      <4>1. IdleSync.poc = {}
        BY DEF IdleSync
      <4>2. \A email : [IdleSync EXCEPT !.at = "client", !.email = email].poc = IdleSync.poc
        BY DEF IdleSync
      <4> QED
        BY <3>1, <4>1, <4>2
    <3> QED
      BY <3>2 DEF SyncKnowsPoc
  <2>3. CASE CreateContact \/ UpdateContact \/ DeleteContact
    <3>1. UNCHANGED sync
      BY <2>3 DEF CreateContact, UpdateContact, DeleteContact, EditRow
    <3>2. sync.poc \subseteq Contact
      BY <1>2 DEF ContactsOK
    <3> QED
      BY <1>2, <1>9, <3>1, <3>2 DEF SyncKnowsPoc
  <2> QED
    BY <2>1, <2>2, <2>3 DEF ContactsNext
<1> QED
  BY <1>6, <1>8, <1>10 DEF LeftInv

(* Nothing that a send step, a run or a route does reaches a contact or an *)
(* event: what they mail to is on file, and an event knows its mail.       *)
LEMMA LeftStays ==
  ASSUME TypeInv, LeftInv, UNCHANGED <<contacts, sync, events>>,
         \A k \in DOMAIN comms : k \in DOMAIN comms' /\ comms'[k].to = comms[k].to,
         \A k \in DOMAIN comms' \ DOMAIN comms :
           \E p \in Sender : comms'[k].to = mail[p].to,
         \A p \in Sender : \/ mail'[p].to = mail[p].to
                           \/ mail'[p].to \in OnFile \cup {Stranger}
  PROVE  LeftInv'
<1>1. \A e \in DOMAIN events : events[e].comm \in DOMAIN comms
  BY DEF TypeInv, EventsOK
<1>2. \A c : HasLeft(c)' <=> HasLeft(c)
  BY <1>1 DEF HasLeft
<1>3. \A c \in Contact : PocLeft(c)'
  BY <1>2 DEF LeftInv, PocLeft
<1>4. \A c \in OnFile : contacts[c] # Absent
  BY RowTypes DEF OnFile
<1>5. Stranger \notin Contact /\ MailedOnFile
  BY ContactsAssumption DEF ContactsAssumption, LeftInv
<1>6. MailedOnFile'
  BY <1>4, <1>5 DEF MailedOnFile
<1>7. SyncKnowsPoc'
  BY DEF LeftInv, SyncKnowsPoc
<1> QED
  BY <1>3, <1>6, <1>7 DEF LeftInv

LEMMA SendLeaves ==
  ASSUME TypeInv, OwnInv, LeftInv, NEW p \in Sender, SendEmailStep(p),
         UNCHANGED <<contactVars, cadenceVars, eventVars, voiceVars>>
  PROVE  LeftInv'
<1>1. MailOK /\ CommsOK /\ Holds(p) /\ Files(p)
  BY DEF TypeInv, OwnInv
<1>2. SendKept(p)
  BY SendStepKeepsOwners
<1>3. PICK k : CommsMove(p, k)
  BY <1>2 DEF SendKept, SendMoves
<1>4. \A j \in DOMAIN comms : j \in DOMAIN comms' /\ comms'[j].to = comms[j].to
  BY <1>3 DEF CommsMove
<1>5. \A j \in DOMAIN comms' \ DOMAIN comms : comms'[j].to = mail[p].to
  BY <1>3 DEF CommsMove
<1>6. mail'[p].to = mail[p].to \/ mail'[p].to \in OnFile \cup {Stranger}
  <2>1. CASE PickAndGate(p)
    <3>1. \A c \in PickRecipient(mail[p].choice) : c \in OnFile \cup {Stranger}
      BY <1>1, PickedMayBeMailed DEF MailOK, MailWith
    <3> QED
      BY <1>1, <2>1, <3>1, PickEffect DEF Writes
  <2>2. CASE InsertPendingCommunication(p)
    BY <1>1, <2>2, InsertEffect DEF Writes
  <2>3. CASE Dispatch(p)
    BY <1>1, <2>3, DispatchEffect DEF Writes
  <2>4. CASE StampAndFinalize(p)
    BY <1>1, <2>4, FinalizeEffect DEF Writes
  <2>5. CASE InsertRecoveryAttempt(p)
    BY <1>1, <2>5, AttemptEffect DEF Writes
  <2> QED
    BY <2>1, <2>2, <2>3, <2>4, <2>5 DEF SendEmailStep
<1>7. \A q \in Sender : \/ mail'[q].to = mail[q].to
                        \/ mail'[q].to \in OnFile \cup {Stranger}
  BY <1>2, <1>6 DEF SendKept, Others
<1>8. UNCHANGED <<contacts, sync, events>>
  BY DEF contactVars, eventVars
<1> QED
  BY <1>4, <1>5, <1>7, <1>8, LeftStays

LEMMA CadenceLeaves ==
  ASSUME TypeInv, LeftInv, CadenceNext, UNCHANGED <<contactVars, eventVars, voiceVars>>
  PROVE  LeftInv'
<1>1. UNCHANGED <<contacts, sync, events>>
  BY DEF contactVars, eventVars
<1>2. DOMAIN mail = Sender
  BY DEF TypeInv, MailOK
<1>3. UNCHANGED comms
  BY DEF CadenceNext, StartRun, ChooseStep, ClaimStep, SettleClaim, EndRun, RunDies,
         InvoiceSettled, NextDay, stepVars
<1>4. \/ UNCHANGED mail
      \/ \E r \in Run : ClaimStep(r)
      \/ \E r \in Run : mail' = [mail EXCEPT ![r] = IdleMail]
  BY DEF CadenceNext, StartRun, ChooseStep, ClaimStep, SettleClaim, EndRun, RunDies,
         InvoiceSettled, NextDay, stepVars
<1>5. \A q \in Sender : mail'[q].to = mail[q].to \/ mail'[q].to = Stranger
  <2>1. CASE \E r \in Run : ClaimStep(r)
    <3>1. PICK r \in Run : ClaimStep(r)
      BY <2>1
    <3>2. \/ mail' = [mail EXCEPT ![r] =
                Request(<<run[r].invoice, run[r].step>>, run[r].invoice,
                        [by |-> "default"], run[r].mode, FALSE)]
          \/ mail' = mail
      BY <3>1 DEF ClaimStep
    <3> QED
      BY <1>2, <3>2 DEF Request, IdleMail
  <2>2. CASE \E r \in Run : mail' = [mail EXCEPT ![r] = IdleMail]
    BY <1>2, <2>2 DEF IdleMail
  <2> QED
    BY <1>4, <2>1, <2>2
<1> QED
  BY <1>1, <1>3, <1>5, LeftStays

LEMMA VoiceLeaves ==
  ASSUME TypeInv, LeftInv, VoiceNext, UNCHANGED <<cadenceVars, eventVars>>
  PROVE  LeftInv'
<1>1. DOMAIN mail = Sender
  BY DEF TypeInv, MailOK
<1>2. UNCHANGED <<comms, contacts, sync, events>>
  BY DEF VoiceNext, PlaceCall, Dial, RecordDialed, StampCall, ApplyReport, CallDies,
         AskForEmail, ClaimCall, FinishEmail, ToolDies, stepVars, contactVars,
         eventVars
<1>3. \A q \in Sender : mail'[q].to = mail[q].to \/ mail'[q].to = Stranger
  <2>1. \/ UNCHANGED mail
        \/ \E t \in Tool : ClaimCall(t)
        \/ \E t \in Tool : mail' = [mail EXCEPT ![t] = IdleMail]
    BY DEF VoiceNext, PlaceCall, Dial, RecordDialed, StampCall, ApplyReport, CallDies,
           AskForEmail, ClaimCall, FinishEmail, ToolDies, stepVars
  <2>2. CASE \E t \in Tool : ClaimCall(t)
    <3>1. PICK t \in Tool : ClaimCall(t)
      BY <2>2
    <3>2. \/ mail' = [mail EXCEPT ![t] =
                Request(<<tool[t].call>>, CallInvoice[tool[t].call],
                        tool[t].choice, HandoffMode, tool[t].call \in TestCall)]
          \/ mail' = mail
      BY <3>1 DEF ClaimCall
    <3> QED
      BY <1>1, <3>2 DEF Request, IdleMail
  <2>3. CASE \E t \in Tool : mail' = [mail EXCEPT ![t] = IdleMail]
    BY <1>1, <2>3 DEF IdleMail
  <2> QED
    BY <2>1, <2>2, <2>3
<1> QED
  BY <1>2, <1>3, LeftStays

LEMMA EventsLeave ==
  ASSUME TypeInv, OwnInv, LeftInv, EventsNext, UNCHANGED <<cadenceVars, voiceVars>>
  PROVE  LeftInv'
<1>1. MailedOnFile /\ SyncKnowsPoc /\ ContactsOK /\ EventsOK /\ CommsOK
  BY DEF LeftInv, TypeInv
<1>2. \A e \in DOMAIN events : events[e].comm \in DOMAIN comms
  BY <1>1 DEF EventsOK
<1>3. /\ UNCHANGED <<mail, sync>> /\ DOMAIN comms' = DOMAIN comms
      /\ \A k \in DOMAIN comms : comms'[k].to = comms[k].to
  <2>1. UNCHANGED comms \/ \E e \in DOMAIN events : UpdateCommunicationActivity(e)
    BY DEF EventsNext, PostEvent, FindCommunication, SetContactOptOutEmail,
           LoadAttention, SetAttention, EventFails, stepVars
  <2>2. ASSUME NEW e \in DOMAIN events, UpdateCommunicationActivity(e)
        PROVE  /\ DOMAIN comms' = DOMAIN comms
               /\ \A k \in DOMAIN comms : comms'[k].to = comms[k].to
    BY <2>2, SeenEffect
  <2>3. UNCHANGED <<mail, sync>>
    BY DEF EventsNext, PostEvent, FindCommunication, UpdateCommunicationActivity,
           SetContactOptOutEmail, LoadAttention, SetAttention, EventFails, stepVars,
           contactVars
  <2> QED
    BY <2>1, <2>2, <2>3
<1>4. ASSUME NEW e \in DOMAIN events, NEW step, EventMoves(e, step), NEW c,
             step \in {"opted", "read", "handled"} =>
               \/ events[e].at \in {"opted", "read", "handled"}
               \/ ~OptsOut(events[e].kind)
      PROVE  HasLeft(c)' => HasLeft(c)
  BY <1>2, <1>3, <1>4 DEF HasLeft, EventMoves, OptsOut
<1>5. ASSUME UNCHANGED contacts, \A c \in Contact : HasLeft(c)' => HasLeft(c)
      PROVE  LeftInv'
  <2>1. \A c \in Contact : PocLeft(c)'
    BY <1>5 DEF LeftInv, PocLeft
  <2>2. MailedOnFile' /\ SyncKnowsPoc'
    BY <1>1, <1>3, <1>5 DEF MailedOnFile, SyncKnowsPoc
  <2> QED
    BY <2>1, <2>2 DEF LeftInv
<1>6. CASE PostEvent
  <2>1. Len(events) \in Nat /\ DOMAIN events = 1..Len(events)
    BY <1>1 DEF EventsOK
  <2>2. \A c : HasLeft(c)' => HasLeft(c)
    BY <1>1, <1>2, <1>3, <1>6, <2>1, EventPosted DEF HasLeft
  <2> QED
    BY <1>5, <1>6, <2>2 DEF PostEvent, contactVars
<1>7. ASSUME NEW e \in DOMAIN events, UpdateCommunicationActivity(e) PROVE LeftInv'
  <2>1. EventMoves(e, "handled") /\ ~NeedsAttention(events[e].kind)
    BY <1>7, SeenEffect
  <2>2. ~OptsOut(events[e].kind)
    BY <2>1 DEF OptsOut, NeedsAttention
  <2>3. \A c : HasLeft(c)' => HasLeft(c)
    BY <1>4, <2>1, <2>2
  <2> QED
    BY <1>5, <1>7, <2>3 DEF UpdateCommunicationActivity, contactVars
<1>8. ASSUME NEW e \in DOMAIN events,
             LoadAttention(e) \/ SetAttention(e) \/ EventFails(e) \/ FindCommunication(e)
      PROVE  LeftInv'
  <2>1. UNCHANGED <<comms, contacts>>
    BY <1>8 DEF LoadAttention, SetAttention, EventFails, FindCommunication, stepVars,
                contactVars
  <2>2. \E step : /\ EventMoves(e, step)
                  /\ step \in {"opted", "read", "handled"} =>
                       events[e].at \in {"opted", "read", "handled"}
    <3>1. CASE LoadAttention(e) \/ SetAttention(e)
      <4>1. events[e].at \in {"opted", "read"}
        BY <3>1 DEF LoadAttention, SetAttention
      <4> QED
        BY <2>1, <3>1, <4>1, EventEffect
    <3>2. CASE EventFails(e)
      <4>1. events' = [events EXCEPT ![e].at = "dropped", ![e].current = "none"]
            /\ attention' \in Reason /\ "none" \in Reason
        BY <1>1, <3>2 DEF EventFails, EventsOK, Reason
      <4>2. EventMoves(e, "dropped")
        BY <1>1, <2>1, <4>1, EventAt
      <4> QED
        BY <4>2
    <3>3. CASE FindCommunication(e)
      <4>1. PICK step \in {"dropped", "found", "active"} :
              events' = [events EXCEPT ![e].at = step]
        BY <3>3 DEF FindCommunication, EventGoes
      <4>2. attention' \in Reason /\ "none" \in Reason
        BY <1>1, <3>3 DEF FindCommunication, EventsOK, Reason
      <4>3. EventMoves(e, step)
        BY <1>1, <2>1, <4>1, <4>2, EventAt
      <4> QED
        BY <4>1, <4>3
    <3> QED
      BY <1>8, <3>1, <3>2, <3>3
  <2>3. \A c : HasLeft(c)' => HasLeft(c)
    BY <1>4, <2>2
  <2> QED
    BY <1>5, <2>1, <2>3
<1>9. ASSUME NEW e \in DOMAIN events, SetContactOptOutEmail(e) PROVE LeftInv'
  <2>1. /\ UNCHANGED comms
        /\ contacts' = [c \in Contact |->
             IF c \in Primary /\ OptsOut(events[e].kind)
               THEN [contacts[c] EXCEPT !.out = TRUE] ELSE contacts[c]]
    BY <1>9 DEF SetContactOptOutEmail, stepVars
  <2>2. \A c \in Contact :
          /\ contacts'[c].kind = contacts[c].kind
          /\ contacts'[c].primary = contacts[c].primary
          /\ contacts[c].out => contacts'[c].out
          /\ c \in Primary /\ OptsOut(events[e].kind) => contacts'[c].out
    <3>1. ASSUME NEW c \in Contact
          PROVE  /\ contacts'[c].kind = contacts[c].kind
                 /\ contacts'[c].primary = contacts[c].primary
                 /\ contacts[c].out => contacts'[c].out
                 /\ c \in Primary /\ OptsOut(events[e].kind) => contacts'[c].out
      <4>1. CASE c \in Primary /\ OptsOut(events[e].kind)
        <5>1. contacts'[c] = [contacts[c] EXCEPT !.out = TRUE]
          BY <2>1, <4>1
        <5>2. contacts[c] \in Row
          BY <1>1, <4>1, RowTypes DEF Primary, OnFile, ContactsOK
        <5> QED
          BY <5>1, <5>2 DEF Row
      <4>2. CASE ~(c \in Primary /\ OptsOut(events[e].kind))
        <5>1. contacts'[c] = contacts[c]
          BY <2>1, <4>2
        <5> QED
          BY <4>2, <5>1
      <4> QED
        BY <4>1, <4>2
    <3> QED
      BY <3>1
  <2>3. PICK step : EventMoves(e, step)
    BY <1>9, <2>1, EventEffect
  <2>4. ASSUME NEW c \in Contact PROVE PocLeft(c)'
    <3>1. CASE contacts[c].kind = "poc" /\ HasLeft(c)' /\ ~HasLeft(c)
      <4>1. OptsOut(events[e].kind)
        BY <1>2, <1>3, <2>3, <3>1 DEF HasLeft, EventMoves, OptsOut
      <4>2. c \in Primary
        BY <3>1 DEF LeftInv, PocLeft, Primary, OnFile
      <4> QED
        BY <2>2, <4>1, <4>2 DEF LeftInv, PocLeft
    <3>2. CASE contacts[c].kind # "poc" \/ (HasLeft(c)' => HasLeft(c))
      BY <2>2, <3>2 DEF LeftInv, PocLeft
    <3> QED
      BY <3>1, <3>2
  <2>5. \A c \in Contact : contacts[c] # Absent => contacts'[c] # Absent
    <3>1. ASSUME NEW c \in Contact, contacts[c] # Absent PROVE contacts'[c] # Absent
      <4>1. contacts[c].kind # "none"
        BY <1>1, <3>1 DEF ContactsOK, Row, Absent, Deleted
      <4> QED
        BY <2>2, <4>1, RowTypes
    <3> QED
      BY <3>1
  <2>6. MailedOnFile' /\ SyncKnowsPoc'
    <3>1. sync.poc \subseteq Contact
      BY <1>1 DEF ContactsOK
    <3> QED
      BY <1>1, <1>3, <2>2, <2>5, <3>1 DEF MailedOnFile, SyncKnowsPoc
  <2> QED
    BY <2>4, <2>6 DEF LeftInv
<1> QED
  BY <1>6, <1>7, <1>8, <1>9 DEF EventsNext

(***************************************************************************)
(* The invariant of Outreach.                                              *)
(***************************************************************************)
LEMMA OutreachInitially == OutreachInit => OutreachInv
<1> SUFFICES ASSUME OutreachInit PROVE OutreachInv
  OBVIOUS
<1> USE DEF OutreachInit
<1>1. /\ mail = [p \in Sender |-> IdleMail] /\ comms = <<>>
      /\ started = [i \in Invoice |-> None]
  BY DEF StepInit
<1>2. /\ run = [r \in Run |-> IdleRun] /\ day = FirstDay
      /\ progress = [i \in Invoice |-> [k \in Step |-> "none"]]
  BY DEF CadenceInit
<1>3. events = <<>> /\ attention = "none"
  BY DEF EventsInit
<1>4. calls = [c \in Call |-> NoCall] /\ tool = [t \in Tool |-> IdleTool]
  BY DEF VoiceInit
<1>5. sync = IdleSync
  BY DEF ContactsInit
<1>6. DOMAIN comms = {} /\ DOMAIN events = {}
  BY <1>1, <1>3
<1>7. TypeInv
  <2>1. MailOK
    BY <1>1, IdleMailOK DEF MailOK, MailWith
  <2>2. CommsOK
    BY <1>1 DEF CommsOK
  <2>3. ContactsOK
    <3>1. 1 \in Rank /\ Absent \in Row \cup {Absent, Deleted}
      BY ContactsAssumption DEF ContactsAssumption, Rank, NoRank
    <3>2. \A a \in Address, o \in BOOLEAN : [PocRow(a) EXCEPT !.out = o] \in Row
      BY <3>1 DEF PocRow, Row
    <3>3. contacts \in [Contact -> Row \cup {Absent, Deleted}]
      BY ZenonT(60), <3>1, <3>2, RowTypes DEF ContactsInit
    <3>4. client \in [email : Address \cup {NoAddress}, out : BOOLEAN]
      <4>1. \E a \in Address \cup {NoAddress}, o \in BOOLEAN :
              client = [email |-> a, out |-> o]
        BY DEF ContactsInit
      <4> QED
        BY <4>1
    <3> QED
      BY <1>5, <3>3, <3>4 DEF ContactsOK, IdleSync
  <2>4. RunOK
    BY <1>2, CadenceAssumption DEF CadenceAssumption, RunOK, RunRecord, IdleRun, Modes
  <2>5. ProgressOK
    BY <1>2 DEF ProgressOK
  <2>6. CallsOK
    BY <1>4 DEF CallsOK, CallRecord, NoCall, Dialed
  <2>7. ToolOK
    BY <1>4 DEF ToolOK, ToolRecord, IdleTool, Choices
  <2>8. EventsOK
    BY <1>3, <1>6 DEF EventsOK, Reason
  <2>9. started \in [Invoice -> Nat \cup Call]
    BY <1>1 DEF None
  <2> QED
    BY <2>1, <2>2, <2>3, <2>4, <2>5, <2>6, <2>7, <2>8, <2>9 DEF TypeInv
<1>8. OwnInv
  <2>1. \A p \in Sender : mail[p] = IdleMail /\ ~Busy(p)
    BY <1>1, IdleMailOK DEF Busy
  <2>2. \A p \in Sender : Holds(p) /\ Files(p)
    BY <2>1, IdleMailOK DEF Holds, Files
  <2>3. OneOwner /\ IdMeansTaken /\ ActiveHasId
    BY <1>6, <2>1 DEF OneOwner, IdMeansTaken, ActiveHasId
  <2>4. \A o : CommsOf(o) = {} /\ HotOf(o) = {}
    BY <1>6 DEF CommsOf, HotOf
  <2>5. \A r \in Run : RunOwns(r)
    BY <1>2, <2>1, RunsAndTools DEF RunOwns, IdleRun
  <2>6. \A t \in Tool : ToolOwns(t)
    BY <1>4, <2>1, RunsAndTools DEF ToolOwns, IdleTool
  <2>7. \A i \in Invoice, k \in Step : StepOwned(i, k)
    BY <2>4 DEF StepOwned
  <2>8. \A c \in Call : CallOwned(c)
    BY <2>4 DEF CallOwned
  <2> QED
    BY <2>2, <2>3, <2>5, <2>6, <2>7, <2>8 DEF OwnInv
<1>9. StampInv
  BY <1>1 DEF StampInv, StampStands
<1>10. LeftInv
  <2>1. \A c \in Contact : contacts[c].kind = "poc" => contacts[c].primary
    BY ZenonT(60), RowTypes DEF ContactsInit, PocRow, Dunning, Absent
  <2>2. \A c \in Contact : PocLeft(c)
    BY <1>6, <2>1 DEF PocLeft, HasLeft
  <2>3. MailedOnFile /\ SyncKnowsPoc
    BY <1>1, <1>5, <1>6, IdleMailOK, ContactsAssumption
    DEF MailedOnFile, SyncKnowsPoc, IdleSync, ContactsAssumption
  <2> QED
    BY <2>2, <2>3 DEF LeftInv
<1> QED
  BY <1>7, <1>8, <1>9, <1>10 DEF OutreachInv

(* Every step of Outreach is one of these. *)
LEMMA OutreachMoves ==
  ASSUME OutreachInv, OutreachNext
  PROVE  OutreachInv'
<1> TypeInv /\ OwnInv /\ StampInv /\ LeftInv
  BY DEF OutreachInv
<1> MailOK /\ CommsOK /\ ContactsOK /\ RunOK /\ ProgressOK /\ CallsOK /\ ToolOK
      /\ EventsOK /\ SyncKnowsPoc
  BY DEF TypeInv, LeftInv
<1>1. CASE ContactsNext /\ UNCHANGED <<stepVars, cadenceVars, eventVars, voiceVars>>
  <2>1. Owned /\ LeftInv' /\ ContactsOK'
    BY <1>1, ContactsKeepOwners, ContactsLeave, ContactsTypes
  <2>2. StampInv' /\ started' \in [Invoice -> Nat \cup Call]
    BY <1>1, ContactsStamps
  <2>3. RunOK' /\ ProgressOK' /\ CallsOK' /\ ToolOK' /\ EventsOK'
    BY <1>1 DEF cadenceVars, voiceVars, eventVars, stepVars, RunOK, RunRecord, Step,
      ProgressOK, CallsOK, CallRecord, Dialed, ToolOK, ToolRecord, Choices, EventsOK,
      EventRecord, Reason, EventKind
  <2> QED
    BY <2>1, <2>2, <2>3 DEF OutreachInv, TypeInv, Owned
<1>2. ASSUME NEW p \in Sender, SendEmailStep(p),
             UNCHANGED <<contactVars, cadenceVars, eventVars, voiceVars>>
      PROVE  OutreachInv'
  <2>1. SendKept(p) /\ LeftInv'
    BY <1>2, SendStepKeepsOwners, SendLeaves
  <2>2. StampInv' /\ started' \in [Invoice -> Nat \cup Call]
    BY <1>2, SendStamps
  <2>3. DOMAIN comms \subseteq DOMAIN comms'
    BY <2>1 DEF SendKept, SendMoves, CommsMove
  <2>4. RunOK' /\ ProgressOK' /\ CallsOK' /\ ToolOK' /\ ContactsOK'
    BY <1>2 DEF cadenceVars, voiceVars, contactVars, RunOK, RunRecord, Step, ProgressOK,
      CallsOK, CallRecord, Dialed, ToolOK, ToolRecord, Choices, ContactsOK
  <2>5. EventsOK'
    BY <1>2, <2>3 DEF eventVars, EventsOK, EventRecord, Reason, EventKind
  <2> QED
    BY <2>1, <2>2, <2>4, <2>5 DEF OutreachInv, TypeInv, SendKept
<1>3. CASE CadenceNext /\ UNCHANGED <<contactVars, eventVars, voiceVars>>
  <2>1. Owned /\ LeftInv' /\ RunOK' /\ ProgressOK'
    BY <1>3, CadenceKeepsOwners, CadenceLeaves, CadenceTypes
  <2>2. StampInv' /\ started' \in [Invoice -> Nat \cup Call]
    BY <1>3, CadenceStamps
  <2>3. CallsOK' /\ ToolOK' /\ ContactsOK'
    BY <1>3 DEF voiceVars, contactVars, CallsOK, CallRecord, Dialed, ToolOK, ToolRecord,
      Choices, ContactsOK
  <2>4. UNCHANGED comms
    BY <1>3 DEF CadenceNext, StartRun, ChooseStep, ClaimStep, SettleClaim, EndRun,
      RunDies, InvoiceSettled, NextDay, stepVars
  <2>5. EventsOK'
    BY <1>3, <2>4 DEF eventVars, EventsOK, EventRecord, Reason, EventKind
  <2> QED
    BY <2>1, <2>2, <2>3, <2>5 DEF OutreachInv, TypeInv, Owned
<1>4. CASE EventsNext /\ UNCHANGED <<cadenceVars, voiceVars>>
  <2>1. Owned /\ LeftInv'
    BY <1>4, EventsKeepOwners, EventsLeave
  <2>2. StampInv' /\ started' \in [Invoice -> Nat \cup Call]
    BY <1>4, EventsStamps
  <2>3. RunOK' /\ ProgressOK' /\ CallsOK' /\ ToolOK'
    BY <1>4 DEF cadenceVars, voiceVars, RunOK, RunRecord, Step, ProgressOK, CallsOK,
      CallRecord, Dialed, ToolOK, ToolRecord, Choices
  <2>4. ContactsOK'
    <3>1. \/ UNCHANGED <<contacts, client, sync>>
          \/ \E e : SetContactOptOutEmail(e)
      BY <1>4 DEF EventsNext, PostEvent, FindCommunication,
        UpdateCommunicationActivity, LoadAttention, SetAttention, EventFails, contactVars
    <3> QED
      BY <3>1, OptOutTypes DEF ContactsOK
  <2>5. DOMAIN comms \subseteq DOMAIN comms'
    <3>1. UNCHANGED comms \/ \E e \in DOMAIN events : UpdateCommunicationActivity(e)
      BY <1>4 DEF EventsNext, PostEvent, FindCommunication, SetContactOptOutEmail,
        LoadAttention, SetAttention, EventFails, stepVars
    <3>2. ASSUME NEW e \in DOMAIN events, UpdateCommunicationActivity(e)
          PROVE  DOMAIN comms' = DOMAIN comms
      BY <3>2, SeenEffect
    <3> QED
      BY <3>1, <3>2
  <2>6. EventsOK'
    BY <1>4, <2>5, EventsTypes
  <2> QED
    BY <2>1, <2>2, <2>3, <2>4, <2>6 DEF OutreachInv, TypeInv, Owned
<1>5. CASE VoiceNext /\ UNCHANGED <<cadenceVars, eventVars>>
  <2>1. Owned /\ LeftInv' /\ CallsOK' /\ ToolOK'
    BY <1>5, VoiceKeepsOwners, VoiceLeaves, CallTypes, ToolTypes
  <2>2. StampInv' /\ started' \in [Invoice -> Nat \cup Call]
    BY <1>5, VoiceStamps
  <2>3. UNCHANGED <<contacts, client, sync, comms>>
    BY <1>5 DEF VoiceNext, PlaceCall, Dial, RecordDialed, StampCall, ApplyReport,
      CallDies, AskForEmail, ClaimCall, FinishEmail, ToolDies, stepVars, contactVars
  <2>4. RunOK' /\ ProgressOK' /\ ContactsOK' /\ EventsOK'
    BY <1>5, <2>3 DEF cadenceVars, eventVars, RunOK, RunRecord, Step, ProgressOK,
      ContactsOK, EventsOK, EventRecord, Reason, EventKind
  <2> QED
    BY <2>1, <2>2, <2>4 DEF OutreachInv, TypeInv, Owned
<1> QED
  BY <1>1, <1>2, <1>3, <1>4, <1>5 DEF OutreachNext

(***************************************************************************)
(* The rows of recovery_attempts refer to communications.                  *)
(***************************************************************************)
AttemptsOK ==
  /\ \E S : attempts \in Seq(S)
  /\ \A k \in DOMAIN attempts : attempts[k].comm \in DOMAIN comms

LEMMA AttemptsMove ==
  ASSUME OutreachInv, OutreachInv', AttemptsOK, OutreachNext
  PROVE  AttemptsOK'
<1>1. DOMAIN comms \subseteq DOMAIN comms'
  <2>1. TypeInv /\ OwnInv
    BY DEF OutreachInv
  <2>2. ASSUME NEW p \in Sender, SendEmailStep(p),
               UNCHANGED <<contactVars, cadenceVars, eventVars, voiceVars>>
        PROVE  DOMAIN comms \subseteq DOMAIN comms'
    BY <2>1, <2>2, SendStepKeepsOwners DEF SendKept, SendMoves, CommsMove
  <2>3. ASSUME NEW e \in DOMAIN events, UpdateCommunicationActivity(e)
        PROVE  DOMAIN comms' = DOMAIN comms
    BY <2>1, <2>3, SeenEffect
  <2>4. CASE ContactsNext /\ UNCHANGED stepVars
    BY <2>4 DEF stepVars
  <2>5. CASE CadenceNext
    BY <2>5 DEF CadenceNext, StartRun, ChooseStep, ClaimStep, SettleClaim, EndRun,
      RunDies, InvoiceSettled, NextDay, stepVars
  <2>6. CASE EventsNext
    BY <2>3, <2>6 DEF EventsNext, PostEvent, FindCommunication, SetContactOptOutEmail,
      LoadAttention, SetAttention, EventFails, stepVars
  <2>7. CASE VoiceNext
    BY <2>7 DEF VoiceNext, PlaceCall, Dial, RecordDialed, StampCall, ApplyReport,
      CallDies, AskForEmail, ClaimCall, FinishEmail, ToolDies, stepVars
  <2> QED
    BY <2>2, <2>4, <2>5, <2>6, <2>7 DEF OutreachNext
<1>2. UNCHANGED attempts \/ \E p \in Sender : InsertRecoveryAttempt(p)
  <2>1. CASE ContactsNext /\ UNCHANGED stepVars
    BY <2>1 DEF stepVars
  <2>2. CASE \E p \in Sender : SendEmailStep(p)
    BY <2>2 DEF SendEmailStep, PickAndGate, InsertPendingCommunication, Dispatch,
      StampAndFinalize
  <2>3. CASE CadenceNext
    BY <2>3 DEF CadenceNext, StartRun, ChooseStep, ClaimStep, SettleClaim, EndRun,
      RunDies, InvoiceSettled, NextDay, stepVars
  <2>4. CASE EventsNext
    BY <2>4 DEF EventsNext, PostEvent, FindCommunication, UpdateCommunicationActivity,
      SetContactOptOutEmail, LoadAttention, SetAttention, EventFails, stepVars
  <2>5. CASE VoiceNext
    BY <2>5 DEF VoiceNext, PlaceCall, Dial, RecordDialed, StampCall, ApplyReport,
      CallDies, AskForEmail, ClaimCall, FinishEmail, ToolDies, stepVars
  <2> QED
    BY <2>1, <2>2, <2>3, <2>4, <2>5 DEF OutreachNext
<1>3. CASE UNCHANGED attempts
  BY <1>1, <1>3 DEF AttemptsOK
<1>4. ASSUME NEW p \in Sender, InsertRecoveryAttempt(p), attempts' # attempts
      PROVE  AttemptsOK'
  <2> DEFINE new == [invoice |-> mail[p].invoice, comm |-> mail[p].comm,
                     number |-> mail[p].number,
                     counted |-> mail[p].outcome # "send_failed"]
  <2>1. attempts' = Append(attempts, new)
    BY <1>4 DEF InsertRecoveryAttempt
  <2>2. Holds(p) /\ Files(p) /\ mail[p].at = "finalized"
    BY <1>4 DEF OutreachInv, OwnInv, InsertRecoveryAttempt, At
  <2>3. new.comm \in DOMAIN comms
    BY <2>2 DEF Holds, Files
  <2> HIDE DEF new
  <2>4. PICK S : attempts \in Seq(S)
    BY DEF AttemptsOK
  <2>5. attempts \in Seq(S \cup {new})
    BY <2>4
  <2>6. /\ attempts' \in Seq(S \cup {new}) /\ Len(attempts') = Len(attempts) + 1
        /\ \A k \in 1..Len(attempts) : attempts'[k] = attempts[k]
        /\ attempts'[Len(attempts) + 1] = new
    BY <2>1, <2>5, AppendProperties
  <2>7. Len(attempts) \in Nat /\ DOMAIN attempts = 1..Len(attempts)
        /\ DOMAIN attempts' = 1..(Len(attempts) + 1)
    BY <2>5, <2>6
  <2>8. \A k \in DOMAIN attempts' : attempts'[k].comm \in DOMAIN comms
    BY <2>3, <2>6, <2>7 DEF AttemptsOK
  <2> QED
    BY <1>1, <2>6, <2>8 DEF AttemptsOK
<1> QED
  BY <1>2, <1>3, <1>4

(***************************************************************************)
(* The theorems.                                                           *)
(***************************************************************************)

(* Ownership, types, stamps and opt-outs hold in every reachable state of  *)
(* outreach, whatever its constants.                                       *)
THEOREM OutreachInvariant == OutreachSpec => [](OutreachInv /\ AttemptsOK)
<1>1. OutreachInit => OutreachInv /\ AttemptsOK
  <2>1. OutreachInit => attempts = <<>>
    BY DEF OutreachInit, StepInit
  <2>2. attempts = <<>> => AttemptsOK
    BY DEF AttemptsOK
  <2> QED
    BY <2>1, <2>2, OutreachInitially
<1>2. OutreachInv /\ AttemptsOK /\ [OutreachNext]_outreachVars
        => (OutreachInv /\ AttemptsOK)'
  <2>1. ASSUME OutreachInv, AttemptsOK, OutreachNext
        PROVE  OutreachInv' /\ AttemptsOK'
    BY <2>1, OutreachMoves, AttemptsMove
  <2>2. ASSUME OutreachInv, AttemptsOK, UNCHANGED outreachVars
        PROVE  OutreachInv' /\ AttemptsOK'
    <3>1. UNCHANGED <<stepVars, cadenceVars, eventVars, voiceVars, contactVars>>
      BY <2>2 DEF outreachVars
    <3>2. Owned
      BY <2>2, <3>1, ContactsKeepOwners DEF OutreachInv
    <3>3. StampInv' /\ started' \in [Invoice -> Nat \cup Call]
      BY <2>2, <3>1, ContactsStamps DEF OutreachInv
    <3>4. UNCHANGED <<contacts, client, sync, mail, comms, attempts, events>>
      BY <3>1 DEF contactVars, stepVars, eventVars
    <3>5. LeftInv'
      BY <2>2, <3>4, LeftStays DEF OutreachInv
    <3>6. RunOK' /\ ProgressOK' /\ CallsOK' /\ ToolOK' /\ EventsOK' /\ ContactsOK'
      BY <2>2, <3>1 DEF OutreachInv, TypeInv, cadenceVars, voiceVars, eventVars,
        stepVars, contactVars, RunOK, RunRecord, Step, ProgressOK, CallsOK, CallRecord,
        Dialed, ToolOK, ToolRecord, Choices, EventsOK, EventRecord, Reason, EventKind,
        ContactsOK
    <3>7. AttemptsOK'
      BY <2>2, <3>4 DEF AttemptsOK
    <3> QED
      BY <3>2, <3>3, <3>5, <3>6, <3>7 DEF OutreachInv, TypeInv, Owned
  <2> QED
    BY <2>1, <2>2
<1> QED
  BY <1>1, <1>2, PTL DEF OutreachSpec

(* The columns of every table of outreach hold what they may: a stamp      *)
(* names a call or a recorded communication, an attempt is one of a        *)
(* recorded communication, and a message id is stored only with a sent one.*)
THEOREM OutreachTypeCorrect == OutreachSpec => []OutreachTypeOK
<1>1. OutreachInv /\ AttemptsOK => OutreachTypeOK
  <2> SUFFICES ASSUME OutreachInv, AttemptsOK PROVE OutreachTypeOK
    OBVIOUS
  <2>1. TypeInv /\ IdMeansTaken /\ StampInv
    BY DEF OutreachInv, OwnInv
  <2>2. contacts \in [Contact -> Row \cup {Absent, Deleted}]
    BY <2>1 DEF TypeInv, ContactsOK
  <2>3. started \in [Invoice -> Call \cup {None} \cup DOMAIN comms]
    <3>1. \A i \in Invoice : started[i] \in Call \cup {None} \cup DOMAIN comms
      BY <2>1 DEF StampInv, StampStands, StampedMail
    <3> QED
      BY <2>1, <3>1 DEF TypeInv
  <2>4. \A k \in DOMAIN comms : /\ comms[k].status \in CommStatus
                                /\ comms[k].id => comms[k].status \in {"sent", "seen"}
    <3>1. \A k \in DOMAIN comms : comms[k] \in Communication
      BY <2>1, CommsDomain DEF TypeInv
    <3> QED
      BY <2>1, <3>1 DEF IdMeansTaken, Communication
  <2>5. \A c \in Call :
          calls[c].handoff \in {"null", "claimed", "would_send", "sent", "failed"}
    BY <2>1 DEF TypeInv, CallsOK, CallRecord
  <2> QED
    BY <2>1, <2>2, <2>3, <2>4, <2>5 DEF OutreachTypeOK, AttemptsOK, TypeInv, ProgressOK
<1> QED
  BY <1>1, OutreachInvariant, PTL

LEMMA AtMostOne ==
  ASSUME NEW S, \A m, n \in S : m = n
  PROVE  Cardinality(S) <= 1
<1>1. CASE S = {}
  BY <1>1, FS_EmptySet
<1>2. CASE S # {}
  <2>1. PICK x : S = {x}
    BY <1>2
  <2> QED
    BY <2>1, FS_Singleton
<1> QED
  BY <1>1, <1>2

(* However runs of the cadence overlap, die or fail to read, a step of an  *)
(* invoice goes out at most once: claimStep's unique index is the owner of *)
(* what is sent under it.                                                  *)
THEOREM StepsAreMailedOnce == OutreachSpec => []StepMailedOnce
<1>1. OutreachInv => StepMailedOnce
  <2> SUFFICES ASSUME OutreachInv, NEW i \in Invoice, NEW k \in Step
               PROVE  Cardinality({n \in CommsOf(<<i, k>>) :
                        /\ comms[n].taken \/ comms[n].status = "would_send"
                        /\ comms[n].status # "failed"}) <= 1
    BY DEF StepMailedOnce
  <2>1. HotOf(<<i, k>>) = {n \in CommsOf(<<i, k>>) :
                        /\ comms[n].taken \/ comms[n].status = "would_send"
                        /\ comms[n].status # "failed"}
    BY DEF HotOf, Hot
  <2>2. \A m, n \in HotOf(<<i, k>>) : m = n
    BY DEF OutreachInv, OwnInv, StepOwned
  <2> QED
    BY <2>1, <2>2, AtMostOne
<1> QED
  BY <1>1, OutreachInvariant, PTL

(* A voice call sends at most one payment email, whatever is asked for     *)
(* side by side (sendPaymentEmailForCall.ts).                              *)
THEOREM CallsMailOnce == OutreachSpec => []OneMailPerCall
<1>1. OutreachInv => OneMailPerCall
  <2> SUFFICES ASSUME OutreachInv, NEW c \in Call
               PROVE  Cardinality(Taken(<<c>>)) <= 1
    BY DEF OneMailPerCall, Taken
  <2>1. \A m, n \in Taken(<<c>>) : m = n
    BY DEF OutreachInv, OwnInv, CallOwned, Taken
  <2> QED
    BY <2>1, AtMostOne
<1> QED
  BY <1>1, OutreachInvariant, PTL

(* A call that may still be asked for its mail has recorded none that went *)
(* out: the claim of handoff_email_status is given up at the gates only.   *)
THEOREM AskableCallsAreUnsent == OutreachSpec => []NullMeansUnsent
<1>1. OutreachInv => NullMeansUnsent
  BY DEF OutreachInv, OwnInv, NullMeansUnsent, CallOwned
<1> QED
  BY <1>1, OutreachInvariant, PTL

(* What makes a payment billable is a real contact: markOutreachStarted is *)
(* only ever called for a mail or a call that the provider took, and what  *)
(* it names is never failed afterwards.                                    *)
THEOREM StampsAreContacts == OutreachSpec => []StampIsContact
<1>1. OutreachInv => StampIsContact
  BY DEF OutreachInv, StampInv, StampStands, StampedMail, StampIsContact
<1> QED
  BY <1>1, OutreachInvariant, PTL

(* The point of contact that unsubscribed is not picked again, by a run or *)
(* a tool request, whatever the subscriber edits and QuickBooks syncs: the *)
(* sync keeps the opt-out of the row it reconciles.                        *)
THEOREM UnsubscribedPocLeftAlone == OutreachSpec => UnsubscribedPocIsLeftAlone
<1>1. ASSUME OutreachInv, [OutreachNext]_outreachVars,
             NEW p \in Sender, NEW c \in Contact, Picks(p, c), contacts[c].kind = "poc"
      PROVE  ~HasLeft(c)
  <2>1. TypeInv /\ OwnInv /\ MailOK /\ LeftInv
    BY <1>1 DEF OutreachInv, TypeInv
  <2>2. mail[p].at = "picking" /\ mail'[p].at = "picked" /\ mail'[p].to = c
    BY <1>1 DEF Picks, At
  <2>3. PickAndGate(p) => ~contacts[c].out
    <3>1. PickAndGate(p) => c \in PickRecipient(mail[p].choice)
      BY <2>1, <2>2, PickEffect DEF Writes
    <3>2. mail[p].choice \in Choices /\ c # Stranger
      BY <2>1, ContactsAssumption DEF MailOK, MailWith, ContactsAssumption
    <3> QED
      BY <3>1, <3>2, PickedMayBeMailed
  <2>4. PickAndGate(p)
    <3>1. ASSUME NEW q \in Sender, SendEmailStep(q),
                 UNCHANGED <<contactVars, cadenceVars, eventVars, voiceVars>>
          PROVE  PickAndGate(p)
      <4>1. Others(q)
        BY <2>1, <3>1, SendStepKeepsOwners DEF SendKept
      <4>2. q = p
        BY <2>2, <4>1 DEF Others
      <4> QED
        BY <2>2, <3>1, <4>2 DEF SendEmailStep, InsertPendingCommunication, Dispatch,
          StampAndFinalize, InsertRecoveryAttempt, At
    <3>2. mail'[p] # mail[p]
      BY <2>2
    <3>3. ~UNCHANGED outreachVars
      BY <3>2 DEF outreachVars, stepVars
    <3>4. ~(ContactsNext /\ UNCHANGED stepVars)
      BY <3>2 DEF stepVars
    <3>5. DOMAIN mail = Sender
      BY <2>1 DEF MailOK
    <3>6. ~CadenceNext
      <4>1. ASSUME NEW r \in Run, ClaimStep(r) PROVE FALSE
        <5>1. \/ mail' = [mail EXCEPT ![r] =
                    Request(<<run[r].invoice, run[r].step>>, run[r].invoice,
                            [by |-> "default"], run[r].mode, FALSE)]
              \/ mail' = mail
          BY <4>1 DEF ClaimStep
        <5> QED
          BY <2>2, <3>5, <5>1 DEF Request, IdleMail
      <4>2. ASSUME NEW r, mail' = [mail EXCEPT ![r] = IdleMail] PROVE FALSE
        BY <2>2, <3>5, <4>2 DEF IdleMail
      <4> QED
        BY <3>2, <4>1, <4>2 DEF CadenceNext, StartRun, ChooseStep, SettleClaim, EndRun,
          RunDies, InvoiceSettled, NextDay, stepVars
    <3>7. ~EventsNext
      BY <3>2 DEF EventsNext, PostEvent, FindCommunication, UpdateCommunicationActivity,
        SetContactOptOutEmail, LoadAttention, SetAttention, EventFails, stepVars
    <3>8. ~VoiceNext
      <4>1. ASSUME NEW t \in Tool, ClaimCall(t) PROVE FALSE
        <5>1. \/ mail' = [mail EXCEPT ![t] =
                    Request(<<tool[t].call>>, CallInvoice[tool[t].call],
                            tool[t].choice, HandoffMode, tool[t].call \in TestCall)]
              \/ mail' = mail
          BY <4>1 DEF ClaimCall
        <5> QED
          BY <2>2, <3>5, <5>1 DEF Request, IdleMail
      <4>2. ASSUME NEW t, mail' = [mail EXCEPT ![t] = IdleMail] PROVE FALSE
        BY <2>2, <3>5, <4>2 DEF IdleMail
      <4> QED
        BY <3>2, <4>1, <4>2 DEF VoiceNext, PlaceCall, Dial, RecordDialed, StampCall,
          ApplyReport, CallDies, AskForEmail, FinishEmail, ToolDies, stepVars
    <3> QED
      BY <1>1, <3>1, <3>3, <3>4, <3>6, <3>7, <3>8 DEF OutreachNext
  <2> QED
    BY <1>1, <2>1, <2>3, <2>4 DEF LeftInv, PocLeft
<1>2. OutreachInv /\ [OutreachNext]_outreachVars =>
        \A p \in Sender, c \in Contact :
          Picks(p, c) /\ contacts[c].kind = "poc" => ~HasLeft(c)
  BY <1>1
<1> QED
  BY <1>2, OutreachInvariant, PTL DEF OutreachSpec, UnsubscribedPocIsLeftAlone

=============================================================================
