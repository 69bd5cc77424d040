----------------------------- MODULE VoiceCalls -----------------------------
(***************************************************************************)
(* Voice calls and the email an agent sends from inside one.               *)
(*                                                                         *)
(*   - api/voice/call records a queued row, dials through Vapi and stamps  *)
(*     the invoice's first contact;                                        *)
(*   - api/voice/webhook applies Vapi's status updates and end-of-call     *)
(*     reports to the row, in whatever order they come;                    *)
(*   - api/voice/tools, send_payment_email, checks the agent's target,     *)
(*     claims the call (handoff_email_status, from NULL only) and runs the *)
(*     send step; get_account only reads.                                  *)
(***************************************************************************)
EXTENDS Cadence

CONSTANTS
  Call,             \* voice_calls rows
  Tool,             \* tool requests in flight, a subset of Sender
  MaxTools,         \* bound: tool requests handled
  CallInvoice,      \* CallInvoice[c]: the invoice call c is about
  TestCall,         \* the calls placed in test mode
  HandoffMode,      \* VOICE_HANDOFF_EMAIL_MODE: "off", "dry_run" or "live"
  Fenced            \* calls of clients VOICE_HANDOFF_EMAIL_CLIENT_ID excludes

ASSUME VoiceAssumption ==
  /\ Tool \subseteq Sender /\ Run \cap Tool = {}
  /\ CallInvoice \in [Call -> Invoice]
  /\ TestCall \subseteq Call /\ Fenced \subseteq Call
  /\ HandoffMode \in {"off", "dry_run", "live"}

VARIABLES
  calls,            \* calls[c]: the row and where its route is
  tool,             \* tool[t]: the tool request being handled
  tools             \* tool requests so far

voiceVars == <<calls, tool, tools>>

(* at: the route; status, outcome and handoff: columns of the row; placed: *)
(* Vapi took the call, whatever the route learned of it.                   *)
NoCall == [at |-> "new", status |-> "none", outcome |-> "none",
           handoff |-> "null", placed |-> FALSE]
IdleTool == [at |-> "idle", call |-> None, choice |-> [by |-> "default"]]

VoiceInit ==
  /\ calls = [c \in Call |-> NoCall]
  /\ tool = [t \in Tool |-> IdleTool]
  /\ tools = 0

-----------------------------------------------------------------------------
(* api/voice/call.  The row is the record of intent, before the dial. *)
PlaceCall(c) ==
  /\ calls[c].at = "new"
  /\ calls' = [calls EXCEPT ![c].at = "dial", ![c].status = "queued"]
  /\ UNCHANGED <<tool, tools, contactVars, stepVars>>

(* Vapi takes the call, refuses it, or cannot be heard, having taken it or *)
(* not; the last two leave a 'failed' row.                                 *)
Dial(c) ==
  /\ calls[c].at = "dial"
  /\ \/ calls' = [calls EXCEPT ![c].at = "dialed", ![c].placed = TRUE]
     \/ \E placed \in {FALSE, AnswersLost} :
          calls' = [calls EXCEPT ![c].at = "done", ![c].status = "failed",
                                 ![c].placed = placed]
  /\ UNCHANGED <<tool, tools, contactVars, stepVars>>

(* The row flips to 'ringing', whatever Vapi has reported meanwhile; an    *)
(* update that fails is logged.                                            *)
RecordDialed(c) ==
  /\ calls[c].at = "dialed"
  /\ \E status \in {"ringing", calls[c].status} :
       calls' = [calls EXCEPT ![c].at = "ringing", ![c].status = status]
  /\ UNCHANGED <<tool, tools, contactVars, stepVars>>

(* A call of the production assistant is a first contact; one that cannot  *)
(* be stamped is only logged.                                              *)
StampCall(c) ==
  /\ calls[c].at = "ringing"
  /\ started' \in IF c \in TestCall THEN {started}
                    ELSE {started, MarkOutreachStarted(CallInvoice[c], c)}
  /\ calls' = [calls EXCEPT ![c].at = "done"]
  /\ UNCHANGED <<tool, tools, mail, comms, attempts, contactVars>>

(* A report or a tool request finds its row by the id that the dial handed *)
(* to Vapi, wherever in the message Vapi repeats it.                       *)
ResolveVoiceCall == {c \in Call : calls[c].placed}

(* api/voice/webhook: the last report to come wins. *)
ApplyReport(c) ==
  /\ c \in ResolveVoiceCall
  /\ \/ calls' = [calls EXCEPT ![c].status = "in-progress"]
     \/ calls' = [calls EXCEPT ![c].status = "ended", ![c].outcome = "ended"]
  /\ UNCHANGED <<tool, tools, contactVars, stepVars>>

-----------------------------------------------------------------------------
(* send_payment_email.  Nothing is written while the mode is off, the      *)
(* invoice has nothing outstanding, the client is fenced off, the call has *)
(* had its email, or the target is bad: an opted-out client or contact, an *)
(* unknown contact, a contact without an address.                          *)
Choices ==
  [by : {"default"}] \cup [by : {"contact"}, contact : Contact]
    \cup [by : {"address"}, address : Address]

(* The default is passed on as the contact it names. *)
ResolveTarget(choice) ==
  IF choice.by = "default"
    THEN [by : {"contact"}, contact : PickRecipient(choice)]
    ELSE IF PickRecipient(choice) # {} THEN {choice} ELSE {}

AskForEmail(t) ==
  /\ tool[t].at = "idle"
  /\ tools < MaxTools
  /\ HandoffMode # "off"
  /\ \E c \in ResolveVoiceCall \ Fenced, choice \in Choices :
       /\ owed[CallInvoice[c]]
       /\ calls[c].handoff = "null"
       /\ \E target \in ResolveTarget(choice) :
            tool' = [tool EXCEPT ![t] =
                       [at |-> "claim", call |-> c, choice |-> target]]
  /\ tools' = tools + 1
  /\ UNCHANGED <<calls, contactVars, stepVars>>

(* Mutant: the claim trusts the read before it. *)
CanAlwaysClaim(c) == TRUE

(* The claim moves the call off NULL; whoever does not is a duplicate.     *)
CanClaim(c) == calls[c].handoff = "null"

ClaimCall(t) ==
  /\ tool[t].at = "claim"
  /\ LET c == tool[t].call IN
       \/ /\ CanClaim(c)
          /\ calls' = [calls EXCEPT ![c].handoff = "claimed"]
          /\ tool' = [tool EXCEPT ![t].at = "send"]
          /\ mail' = [mail EXCEPT ![t] = Request(<<c>>, CallInvoice[c],
                        tool[t].choice, HandoffMode, c \in TestCall)]
       \/ /\ ~CanClaim(c)
          /\ tool' = [tool EXCEPT ![t] = IdleTool]
          /\ UNCHANGED <<calls, mail>>
  /\ UNCHANGED <<tools, comms, attempts, started, contactVars>>

(* Mutant: a failed send releases the call for another try. *)
ReleasesFailed(outcome) == outcome \in {"gated", "send_failed"}

(* Only an outcome of the gates, before any record, releases the call; a   *)
(* failed send and a step that throws are terminal, for the mail may have  *)
(* left.                                                                   *)
Releasable(outcome) == outcome = "gated"

HandoffAfter(outcome) ==
  IF Releasable(outcome) THEN "null"
    ELSE IF outcome \in {"sent", "would_send"} THEN outcome ELSE "failed"

FinishEmail(t) ==
  /\ tool[t].at = "send" /\ At(t, "returned")
  /\ calls' = [calls EXCEPT ![tool[t].call].handoff =
       IF @ = "claimed" THEN HandoffAfter(mail[t].outcome) ELSE @]
  /\ tool' = [tool EXCEPT ![t] = IdleTool]
  /\ mail' = [mail EXCEPT ![t] = IdleMail]
  /\ UNCHANGED <<tools, comms, attempts, started, contactVars>>

(* The invocation is cut off or a write of its claim fails: the call stays *)
(* claimed, and its route may end between two steps as well.               *)
ToolDies(t) ==
  /\ tool[t].at # "idle"
  /\ tool' = [tool EXCEPT ![t] = IdleTool]
  /\ mail' = [mail EXCEPT ![t] = IdleMail]
  /\ UNCHANGED <<calls, tools, comms, attempts, started, contactVars>>

CallDies(c) ==
  /\ calls[c].at \in {"dial", "dialed", "ringing"}
  /\ calls' = [calls EXCEPT ![c].at = "done"]
  /\ UNCHANGED <<tool, tools, contactVars, stepVars>>

VoiceNext ==
  \/ \E c \in Call : \/ PlaceCall(c) \/ Dial(c) \/ RecordDialed(c)
                     \/ StampCall(c) \/ ApplyReport(c) \/ CallDies(c)
  \/ \E t \in Tool : \/ AskForEmail(t) \/ ClaimCall(t) \/ FinishEmail(t)
                     \/ ToolDies(t)

=============================================================================
