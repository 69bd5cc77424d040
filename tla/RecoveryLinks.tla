--------------------------- MODULE RecoveryLinks ----------------------------
(***************************************************************************)
(* The pay links of one overdue invoice, from the subscriber's request to  *)
(* the Checkout Session that the invoice's debtor opens.  A link is voided *)
(* by a newer one, by a disconnect or by age; a session, once minted,      *)
(* stays payable whatever becomes of its link.  The amount is always the   *)
(* face value: nothing in the program writes the invoice_payments that     *)
(* getRemainingBalance subtracts.                                          *)
(***************************************************************************)
EXTENDS PayoutAccount

CONSTANTS
  Link,           \* rows of recovery_links; a link is known by its token
  NoLink,
  Session,        \* Checkout Sessions; a session stands for its payment too
  NoSession,      \* stripe_checkout_session_id is NULL
  Issue,          \* concurrent POST /api/connect/payment-link
  Visit,          \* concurrent views of /pay/[token]
  Gates,          \* what the subscriber's pay gate asks: "number", "zip"
  OnFile,         \* which of them the invoice and the client record
  Qualifies       \* the face value reaches the revenue-share floor

VARIABLES
  links,          \* recovery_links: status and session
  sessions,       \* Stripe's sessions: state, link in the metadata, payee
  issuing,        \* where each link request is
  visiting        \* where each view of the pay page is

linkVars == <<links, sessions, issuing, visiting>>

ASSUME LinkAssumption ==
  /\ NoLink \notin Link /\ NoSession \notin Session
  /\ Gates \subseteq {"number", "zip"} /\ OnFile \subseteq {"number", "zip"}
  /\ Qualifies \in BOOLEAN

(* "lapsed" is an 'active' row past its link_expires_at.                   *)
LinkRow ==
  [status : {"none", "active", "lapsed", "expired", "paid"},
   session : Session \cup {NoSession}]

CheckoutSession ==
  [state : {"none", "open", "collected", "expired"},
   link : Link \cup {NoLink}, account : Account \cup {NoAccount}]

IdleVisit == [pc |-> "idle", link |-> NoLink, session |-> NoSession]

LinkTypeOK ==
  /\ links \in [Link -> LinkRow]
  /\ sessions \in [Session -> CheckoutSession]
  /\ issuing \in [Issue -> {"idle", "void", "insert"}]
  /\ visiting \in [Visit -> [pc : {"idle", "challenge", "mint", "save"},
                             link : Link \cup {NoLink},
                             session : Session \cup {NoSession}]]

LinkInit ==
  /\ links = [l \in Link |-> [status |-> "none", session |-> NoSession]]
  /\ sessions = [s \in Session |-> [state |-> "none", link |-> NoLink,
                                    account |-> NoAccount]]
  /\ issuing = [g \in Issue |-> "idle"]
  /\ visiting = [v \in Visit |-> IdleVisit]

(* Mutant: the update filters on the invoice alone.                        *)
AnyToExpired(row) ==
  IF row.status # "none" THEN [row EXCEPT !.status = "expired"] ELSE row

(* Mutant: the table's constraint knows no 'voided'.                       *)
ActiveToVoided(row) ==
  IF row.status = "active" THEN [row EXCEPT !.status = "voided"] ELSE row

ActiveToExpired(row) ==
  IF row.status \in {"active", "lapsed"}
  THEN [row EXCEPT !.status = "expired"] ELSE row

ExpireActive(table) == [l \in Link |-> ActiveToExpired(table[l])]

(* New names are taken in one fixed order.                                 *)
Fresh(unused) == CHOOSE x \in unused : TRUE

-----------------------------------------------------------------------------
(* POST /api/connect/payment-link.                                         *)

(* The invoice is the subscriber's own and has its full balance; the       *)
(* account must be complete now, and is not looked at again here.          *)
RequestLink(g) ==
  /\ issuing[g] = "idle"
  /\ payout.status = "complete"
  /\ issuing' = [issuing EXCEPT ![g] = "void"]
  /\ UNCHANGED <<payoutVars, links, sessions, visiting>>

(* An error of the update ends the request.                                *)
VoidActiveLinks(g) ==
  /\ issuing[g] = "void"
  /\ \/ links' = ExpireActive(links) /\ issuing' = [issuing EXCEPT ![g] = "insert"]
     \/ UNCHANGED links /\ issuing' = [issuing EXCEPT ![g] = "idle"]
  /\ UNCHANGED <<payoutVars, sessions, visiting>>

(* The insert, the audit entry and the answer.                             *)
InsertLink(g) ==
  LET unused == {l \in Link : links[l].status = "none"} IN
  /\ issuing[g] = "insert"
  /\ unused # {}
  /\ links' = [links EXCEPT ![Fresh(unused)].status = "active"]
  /\ issuing' = [issuing EXCEPT ![g] = "idle"]
  /\ UNCHANGED <<payoutVars, sessions, visiting>>

(* Thirty days have passed; the row is not written.                        *)
LinkLapses(l) ==
  /\ links[l].status = "active"
  /\ links' = [links EXCEPT ![l].status = "lapsed"]
  /\ UNCHANGED <<payoutVars, sessions, issuing, visiting>>

-----------------------------------------------------------------------------
(* /pay/[token].                                                           *)

Payable(l) == links[l].status = "active"

(* What a visitor must answer: a ZIP code that is not on file is dropped,  *)
(* an invoice number that is not on file can never be answered.            *)
Challenge == (Gates \cap {"number"}) \cup (Gates \cap OnFile)

OpenPayPage(v, l) ==
  /\ visiting[v].pc = "idle"
  /\ Payable(l)
  /\ visiting' = [visiting EXCEPT ![v] =
       [pc |-> IF Challenge = {} THEN "mint" ELSE "challenge",
        link |-> l, session |-> NoSession]]
  /\ UNCHANGED <<payoutVars, links, sessions, issuing>>

(* verifyChallenge reads everything again.  One wrong answer, or a link    *)
(* that is no longer payable, sends the visitor back to the form.          *)
AnswerChallenge(v) ==
  /\ visiting[v].pc = "challenge"
  /\ \E answered \in SUBSET OnFile :
       visiting' = [visiting EXCEPT ![v] =
         IF Payable(visiting[v].link) /\ Challenge \subseteq answered
         THEN [@ EXCEPT !.pc = "mint"] ELSE IdleVisit]
  /\ UNCHANGED <<payoutVars, links, sessions, issuing>>

CanReceive == payout.status = "complete" /\ payout.account # NoAccount

(* createRecoveryCheckoutSession: below the floor nothing is minted.  The  *)
(* call has no idempotency key, so that every view opens a session more.   *)
MintSession(v) ==
  LET unused == {s \in Session : sessions[s].state = "none"} IN
  /\ visiting[v].pc = "mint"
  /\ IF CanReceive /\ Qualifies /\ unused # {}
     THEN /\ sessions' = [sessions EXCEPT ![Fresh(unused)] =
               [state |-> "open", link |-> visiting[v].link,
                account |-> payout.account]]
          /\ visiting' = [visiting EXCEPT ![v].pc = "save",
                                          ![v].session = Fresh(unused)]
     ELSE visiting' = [visiting EXCEPT ![v] = IdleVisit] /\ UNCHANGED sessions
  /\ UNCHANGED <<payoutVars, links, issuing>>

(* The session id is written back by token; a failure is only logged.      *)
SaveSession(v) ==
  /\ visiting[v].pc = "save"
  /\ links' \in {links, [links EXCEPT ![visiting[v].link].session =
                                        visiting[v].session]}
  /\ visiting' = [visiting EXCEPT ![v] = IdleVisit]
  /\ UNCHANGED <<payoutVars, sessions, issuing>>

(* The debtor pays at Stripe, or never does.                               *)
DebtorPays(s) ==
  /\ sessions[s].state = "open"
  /\ sessions' = [sessions EXCEPT ![s].state = "collected"]
  /\ UNCHANGED <<payoutVars, links, issuing, visiting>>

SessionExpires(s) ==
  /\ sessions[s].state = "open"
  /\ sessions' = [sessions EXCEPT ![s].state = "expired"]
  /\ UNCHANGED <<payoutVars, links, issuing, visiting>>

-----------------------------------------------------------------------------
(* POST /api/connect/disconnect and /api/connect/expire-links.  The second *)
(* of their two updates may fail; the first has been kept by then.         *)

Disconnect(choice) ==
  /\ payout.account # NoAccount
  /\ payout' = [payout EXCEPT !.status = "disconnected", !.disposition = choice]
  /\ IF choice = "void" THEN links' \in {links, ExpireActive(links)}
                        ELSE UNCHANGED links
  /\ UNCHANGED <<express, onboarding, checking, payoutHistory, sessions, issuing,
                 visiting>>

ExpireLinks ==
  /\ payout.disposition = "keep"
  /\ links' = ExpireActive(links)
  /\ payout' \in {payout, [payout EXCEPT !.disposition = "null"]}
  /\ UNCHANGED <<express, onboarding, checking, payoutHistory, sessions, issuing,
                 visiting>>

LinkNext ==
  \/ \E g \in Issue : RequestLink(g) \/ VoidActiveLinks(g) \/ InsertLink(g)
  \/ \E l \in Link : LinkLapses(l)
  \/ \E v \in Visit : \/ \E l \in Link : OpenPayPage(v, l)
                      \/ AnswerChallenge(v) \/ MintSession(v) \/ SaveSession(v)
  \/ \E s \in Session : DebtorPays(s) \/ SessionExpires(s)
  \/ \E choice \in {"void", "keep"} : Disconnect(choice)
  \/ ExpireLinks
  \/ PayoutNext /\ UNCHANGED linkVars

=============================================================================
