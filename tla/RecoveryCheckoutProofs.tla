----------------------- MODULE RecoveryCheckoutProofs -----------------------
(***************************************************************************)
(* What holds of RecoveryCheckout for every number of accounts, links,     *)
(* sessions, requests and deliveries: a fee stands only for a paid link, a *)
(* session pays an account Stripe has enabled, and a payment is posted     *)
(* once.                                                                   *)
(***************************************************************************)
EXTENDS RecoveryCheckout, TLAPS

(***************************************************************************)
(* Types.                                                                  *)
(***************************************************************************)
LEMMA PayoutTypes ==
  ASSUME PayoutTypeOK, PayoutNext
  PROVE  PayoutTypeOK'
<1> USE DEF payoutHistory
<1>1. ASSUME NEW o \in Onboarding, OnboardReads(o)
      PROVE  PayoutTypeOK'
  BY <1>1 DEF OnboardReads, PayoutTypeOK, Request
<1>2. ASSUME NEW o \in Onboarding, OnboardResets(o)
      PROVE  PayoutTypeOK'
  <2>1. payout' \in PayoutRow
    BY <1>2 DEF OnboardResets, PayoutTypeOK, PayoutRow
  <2>2. onboarding' \in [Onboarding -> Request]
    BY <1>2 DEF OnboardResets, PayoutTypeOK, Request, IdleRequest
  <2>3. QED
    BY <2>1, <2>2, <1>2 DEF OnboardResets, PayoutTypeOK
<1>3. ASSUME NEW o \in Onboarding, CreateExpressAccount(o)
      PROVE  PayoutTypeOK'
  <2>1. express' \in [Account -> ExpressState]
    BY <1>3 DEF CreateExpressAccount, StripeCreates, PayoutTypeOK, ExpressState
  <2>2. onboarding' \in [Onboarding -> Request]
    BY <1>3 DEF CreateExpressAccount, PayoutTypeOK, Request, IdleRequest
  <2>3. QED
    BY <2>1, <2>2, <1>3 DEF CreateExpressAccount, PayoutTypeOK
<1>4. ASSUME NEW o \in Onboarding, PersistAccount(o)
      PROVE  PayoutTypeOK'
  <2>1. onboarding[o].account \in Account \cup {NoAccount}
    BY DEF PayoutTypeOK, Request
  <2>2. payout' \in PayoutRow
    BY <1>4, <2>1 DEF PersistAccount, PayoutTypeOK, PayoutRow
  <2>3. onboarding' \in [Onboarding -> Request]
    BY <1>4 DEF PersistAccount, PayoutTypeOK, Request, IdleRequest
  <2>4. QED
    BY <2>2, <2>3, <1>4 DEF PersistAccount, PayoutTypeOK
<1>5. ASSUME NEW q \in StatusCheck, StatusReads(q)
      PROVE  PayoutTypeOK'
  <2>1. payout.account \in Account \cup {NoAccount}
        /\ payout.status \in {"not_started", "pending", "complete", "restricted",
                              "disconnected"}
    BY DEF PayoutTypeOK, PayoutRow
  <2>2. QED
    BY <1>5, <2>1 DEF StatusReads, PayoutTypeOK, Request
<1>6. ASSUME NEW q \in StatusCheck, RetrieveAccount(q)
      PROVE  PayoutTypeOK'
  <2>1. Standing(express[checking[q].account]) \in {"pending", "complete", "restricted"}
    BY DEF Standing
  <2>2. QED
    BY <1>6, <2>1 DEF RetrieveAccount, PayoutTypeOK, Request, IdleRequest
<1>7. ASSUME NEW q \in StatusCheck, PersistStatus(q)
      PROVE  PayoutTypeOK'
  <2>1. checking[q].status \in {"not_started", "pending", "complete", "restricted",
                                "disconnected"}
    BY DEF PayoutTypeOK, Request
  <2>2. payout' \in PayoutRow
    BY <1>7, <2>1 DEF PersistStatus, PayoutTypeOK, PayoutRow
  <2>3. checking' \in [StatusCheck -> Request]
    BY <1>7 DEF PersistStatus, PayoutTypeOK, Request, IdleRequest
  <2>4. misjudged' \subseteq Account \cup {NoAccount}
    BY <1>7 DEF PersistStatus, PayoutTypeOK, PayoutRow
  <2>5. QED
    BY <2>2, <2>3, <2>4, <1>7 DEF PersistStatus, PayoutTypeOK
<1>8. ASSUME NEW a \in Account, StripeReviews(a)
      PROVE  PayoutTypeOK'
  BY <1>8 DEF StripeReviews, PayoutTypeOK, ExpressState
<1>9. QED
  BY <1>1, <1>2, <1>3, <1>4, <1>5, <1>6, <1>7, <1>8 DEF PayoutNext

(* A session or link is known to whoever holds it.                         *)
LEMMA ExpireActiveTypes ==
  ASSUME links \in [Link -> LinkRow]
  PROVE  /\ ExpireActive(links) \in [Link -> LinkRow]
         /\ \A l \in Link : /\ ExpireActive(links)[l].session = links[l].session
                            /\ ExpireActive(links)[l].status = "paid"
                                 <=> links[l].status = "paid"
<1> SUFFICES ASSUME NEW l \in Link
             PROVE  /\ ActiveToExpired(links[l]) \in LinkRow
                    /\ ActiveToExpired(links[l]).session = links[l].session
                    /\ ActiveToExpired(links[l]).status = "paid"
                         <=> links[l].status = "paid"
  BY DEF ExpireActive
<1>1. links[l] \in LinkRow
  OBVIOUS
<1>2. QED
  BY <1>1 DEF ActiveToExpired, LinkRow

LEMMA FreshIsUnused == ASSUME NEW S, S # {} PROVE Fresh(S) \in S
BY DEF Fresh

-----------------------------------------------------------------------------
(* What a step of the links may do, whoever takes it.                      *)

LinkActions ==
  \/ \E g \in Issue : RequestLink(g) \/ VoidActiveLinks(g) \/ InsertLink(g)
  \/ \E l \in Link : LinkLapses(l)
  \/ \E v \in Visit : \/ \E l \in Link : OpenPayPage(v, l)
                      \/ AnswerChallenge(v) \/ MintSession(v) \/ SaveSession(v)
  \/ \E s \in Session : DebtorPays(s) \/ SessionExpires(s)
  \/ \E choice \in {"void", "keep"} : Disconnect(choice)
  \/ ExpireLinks

LinkTypes0 ==
  /\ links \in [Link -> LinkRow]
  /\ sessions \in [Session -> CheckoutSession]
  /\ visiting \in [Visit -> [pc : {"idle", "challenge", "mint", "save"},
                             link : Link \cup {NoLink},
                             session : Session \cup {NoSession}]]

(* A session that exists is for a link; the session on a link's row, and   *)
(* the one that a view is about to save, are sessions for that link.       *)
SessionsHaveLinks ==
  \A s \in Session : sessions[s].state # "none" => sessions[s].link \in Link

RowsHoldOwnSession ==
  \A l \in Link : links[l].session # NoSession =>
    /\ sessions[links[l].session].state # "none"
    /\ sessions[links[l].session].link = l

VisitsHoldOwnSession ==
  \A v \in Visit :
    /\ visiting[v].pc # "idle" => visiting[v].link \in Link
    /\ visiting[v].pc = "save" =>
         /\ visiting[v].session \in Session
         /\ sessions[visiting[v].session].state # "none"
         /\ sessions[visiting[v].session].link = visiting[v].link

LinkInv ==
  LinkTypes0 /\ SessionsHaveLinks /\ RowsHoldOwnSession /\ VisitsHoldOwnSession

(* What no step takes back: a paid link, a session's link and account, and *)
(* that it is collected.                                                   *)
NothingTakenBack ==
  /\ \A l \in Link : links[l].status = "paid" => links'[l].status = "paid"
  /\ \A s \in Session : sessions[s].state # "none" =>
       /\ sessions'[s].state # "none"
       /\ sessions'[s].link = sessions[s].link
       /\ sessions'[s].account = sessions[s].account
       /\ sessions[s].state = "collected" => sessions'[s].state = "collected"

LEMMA LinksOnly ==
  ASSUME LinkInv, links' \in [Link -> LinkRow],
         \A l \in Link : /\ links'[l].session = links[l].session
                         /\ links[l].status = "paid" => links'[l].status = "paid",
         UNCHANGED <<sessions, visiting>>
  PROVE  LinkInv' /\ NothingTakenBack
<1>1. LinkTypes0' /\ SessionsHaveLinks' /\ VisitsHoldOwnSession'
  BY DEF LinkInv, LinkTypes0, SessionsHaveLinks, VisitsHoldOwnSession
<1>2. RowsHoldOwnSession'
  BY DEF LinkInv, RowsHoldOwnSession
<1>3. QED
  BY <1>1, <1>2 DEF LinkInv, NothingTakenBack

LEMMA VoidingLinks ==
  ASSUME LinkInv, links' \in {links, ExpireActive(links)},
         UNCHANGED <<sessions, visiting>>
  PROVE  LinkInv' /\ NothingTakenBack
<1>1. links \in [Link -> LinkRow]
  BY DEF LinkInv, LinkTypes0
<1>2. links' \in [Link -> LinkRow]
  BY <1>1, ExpireActiveTypes
<1>3. \A l \in Link : /\ links'[l].session = links[l].session
                      /\ links[l].status = "paid" => links'[l].status = "paid"
  BY <1>1, ExpireActiveTypes
<1>4. QED
  BY <1>2, <1>3, LinksOnly

LEMMA VisitsOnly ==
  ASSUME LinkInv, NEW v \in Visit,
         \/ UNCHANGED visiting
         \/ \E l \in Link, pc \in {"challenge", "mint"} :
              visiting' = [visiting EXCEPT ![v] =
                             [pc |-> pc, link |-> l, session |-> NoSession]]
         \/ visiting' = [visiting EXCEPT ![v].pc = "mint"] /\ visiting[v].pc # "idle"
         \/ visiting' = [visiting EXCEPT ![v] = IdleVisit],
         UNCHANGED <<sessions, links>>
  PROVE  LinkInv' /\ NothingTakenBack
<1>1. LinkTypes0'
  BY DEF LinkInv, LinkTypes0, IdleVisit
<1>2. SessionsHaveLinks' /\ RowsHoldOwnSession'
  BY DEF LinkInv, SessionsHaveLinks, RowsHoldOwnSession
<1>3. VisitsHoldOwnSession'
  BY DEF LinkInv, LinkTypes0, VisitsHoldOwnSession, IdleVisit
<1>4. QED
  BY <1>1, <1>2, <1>3 DEF LinkInv, NothingTakenBack

LEMMA LinkStep ==
  ASSUME PayoutTypeOK, LinkInv, LinkActions
  PROVE  LinkInv' /\ NothingTakenBack
<1>1. ASSUME NEW g \in Issue, RequestLink(g)
      PROVE  LinkInv' /\ NothingTakenBack
  <2>1. links' \in {links, ExpireActive(links)} /\ UNCHANGED <<sessions, visiting>>
    BY <1>1 DEF RequestLink
  <2>2. QED
    BY <2>1, VoidingLinks
<1>2. ASSUME NEW g \in Issue, VoidActiveLinks(g)
      PROVE  LinkInv' /\ NothingTakenBack
  <2>1. links' \in {links, ExpireActive(links)} /\ UNCHANGED <<sessions, visiting>>
    BY <1>2 DEF VoidActiveLinks
  <2>2. QED
    BY <2>1, VoidingLinks
<1>3. ASSUME NEW g \in Issue, InsertLink(g)
      PROVE  LinkInv' /\ NothingTakenBack
  <2> DEFINE unused == {l \in Link : links[l].status = "none"}
  <2>1. PICK k \in Link : links[k].status = "none"
                          /\ links' = [links EXCEPT ![k].status = "active"]
    <3>1. unused # {} /\ links' = [links EXCEPT ![Fresh(unused)].status = "active"]
      BY <1>3 DEF InsertLink
    <3>2. Fresh(unused) \in unused
      BY <3>1, FreshIsUnused
    <3>3. QED
      BY <3>1, <3>2
  <2>2. links' \in [Link -> LinkRow]
    BY <2>1 DEF LinkInv, LinkTypes0, LinkRow
  <2>3. \A l \in Link : /\ links'[l].session = links[l].session
                        /\ links[l].status = "paid" => links'[l].status = "paid"
    BY <2>1 DEF LinkInv, LinkTypes0, LinkRow
  <2>4. QED
    BY <1>3, <2>2, <2>3, LinksOnly DEF InsertLink
<1>4. ASSUME NEW k \in Link, LinkLapses(k)
      PROVE  LinkInv' /\ NothingTakenBack
  <2>1. links' \in [Link -> LinkRow]
    BY <1>4 DEF LinkLapses, LinkInv, LinkTypes0, LinkRow
  <2>2. \A l \in Link : /\ links'[l].session = links[l].session
                        /\ links[l].status = "paid" => links'[l].status = "paid"
    BY <1>4 DEF LinkLapses, LinkInv, LinkTypes0, LinkRow
  <2>3. QED
    BY <1>4, <2>1, <2>2, LinksOnly DEF LinkLapses
<1>5. ASSUME NEW v \in Visit, NEW l \in Link, OpenPayPage(v, l)
      PROVE  LinkInv' /\ NothingTakenBack
  <2>1. \E k \in Link, pc \in {"challenge", "mint"} :
          visiting' = [visiting EXCEPT ![v] =
                         [pc |-> pc, link |-> k, session |-> NoSession]]
    BY <1>5 DEF OpenPayPage
  <2>2. QED
    BY <1>5, <2>1, VisitsOnly DEF OpenPayPage
<1>6. ASSUME NEW v \in Visit, AnswerChallenge(v)
      PROVE  LinkInv' /\ NothingTakenBack
  <2>1. \/ visiting' = [visiting EXCEPT ![v].pc = "mint"] /\ visiting[v].pc # "idle"
        \/ visiting' = [visiting EXCEPT ![v] = IdleVisit]
    BY <1>6 DEF AnswerChallenge
  <2>2. QED
    BY <1>6, <2>1, VisitsOnly DEF AnswerChallenge
<1>7. ASSUME NEW v \in Visit, MintSession(v)
      PROVE  LinkInv' /\ NothingTakenBack
  <2>1. CASE visiting' = [visiting EXCEPT ![v] = IdleVisit] /\ UNCHANGED sessions
    BY <1>7, <2>1, VisitsOnly DEF MintSession
  <2>2. CASE ~(visiting' = [visiting EXCEPT ![v] = IdleVisit] /\ UNCHANGED sessions)
    <3>1. CanReceive /\ UNCHANGED <<links, payout>>
      BY <1>7, <2>2 DEF MintSession, payoutVars
    <3>2. PICK t \in Session :
            /\ sessions[t].state = "none"
            /\ sessions' = [sessions EXCEPT ![t] =
                 [state |-> "open", link |-> visiting[v].link,
                  account |-> payout.account]]
            /\ visiting' = [visiting EXCEPT ![v].pc = "save", ![v].session = t]
      <4> DEFINE unused == {s \in Session : sessions[s].state = "none"}
      <4>1. /\ unused # {}
            /\ sessions' = [sessions EXCEPT ![Fresh(unused)] =
                 [state |-> "open", link |-> visiting[v].link,
                  account |-> payout.account]]
            /\ visiting' = [visiting EXCEPT ![v].pc = "save",
                                            ![v].session = Fresh(unused)]
        BY <1>7, <2>2 DEF MintSession
      <4>2. Fresh(unused) \in unused
        BY <4>1, FreshIsUnused
      <4>3. QED
        BY <4>1, <4>2
    <3>3. visiting[v].link \in Link
      BY <1>7 DEF MintSession, LinkInv, VisitsHoldOwnSession
    <3>4. LinkTypes0'
      <4>1. payout.account \in Account \cup {NoAccount}
        BY DEF PayoutTypeOK, PayoutRow
      <4>2. [state |-> "open", link |-> visiting[v].link, account |-> payout.account]
              \in CheckoutSession
        BY <3>3, <4>1 DEF CheckoutSession
      <4>3. sessions' \in [Session -> CheckoutSession]
        BY <3>2, <4>2 DEF LinkInv, LinkTypes0
      <4>4. visiting' \in [Visit -> [pc : {"idle", "challenge", "mint", "save"},
                                     link : Link \cup {NoLink},
                                     session : Session \cup {NoSession}]]
        BY <3>2 DEF LinkInv, LinkTypes0
      <4>5. QED
        BY <3>1, <4>3, <4>4 DEF LinkInv, LinkTypes0
    <3>5. SessionsHaveLinks'
      BY <3>1, <3>2, <3>3 DEF LinkInv, LinkTypes0, SessionsHaveLinks
    <3>6. RowsHoldOwnSession'
      BY <3>1, <3>2, <3>3 DEF LinkInv, LinkTypes0, LinkRow, RowsHoldOwnSession
    <3>7. VisitsHoldOwnSession'
      BY <3>1, <3>2, <3>3 DEF LinkInv, LinkTypes0, VisitsHoldOwnSession
    <3>8. NothingTakenBack
      BY <3>1, <3>2 DEF LinkInv, LinkTypes0, NothingTakenBack
    <3>9. QED
      BY <3>4, <3>5, <3>6, <3>7, <3>8 DEF LinkInv
  <2>3. QED
    BY <2>1, <2>2
<1>8. ASSUME NEW v \in Visit, SaveSession(v)
      PROVE  LinkInv' /\ NothingTakenBack
  <2>1. visiting[v].link \in Link /\ visiting[v].session \in Session
    BY <1>8 DEF SaveSession, LinkInv, VisitsHoldOwnSession
  <2>2. LinkTypes0'
    BY <1>8, <2>1 DEF SaveSession, IdleVisit, LinkInv, LinkTypes0, LinkRow
  <2>3. RowsHoldOwnSession'
    BY <1>8, <2>1 DEF SaveSession, LinkInv, LinkTypes0, LinkRow, RowsHoldOwnSession,
                      VisitsHoldOwnSession
  <2>4. SessionsHaveLinks' /\ VisitsHoldOwnSession'
    BY <1>8 DEF SaveSession, IdleVisit, LinkInv, LinkTypes0, SessionsHaveLinks,
                VisitsHoldOwnSession
  <2>5. NothingTakenBack
    BY <1>8, <2>1 DEF SaveSession, LinkInv, LinkTypes0, LinkRow, NothingTakenBack
  <2>6. QED
    BY <2>2, <2>3, <2>4, <2>5 DEF LinkInv
<1>9. ASSUME NEW s \in Session, DebtorPays(s) \/ SessionExpires(s)
      PROVE  LinkInv' /\ NothingTakenBack
  <2>1. PICK x \in {"collected", "expired"} :
          sessions[s].state = "open"
          /\ sessions' = [sessions EXCEPT ![s].state = x]
          /\ UNCHANGED <<links, visiting>>
    BY <1>9 DEF DebtorPays, SessionExpires
  <2>2. LinkTypes0' /\ SessionsHaveLinks'
    BY <2>1 DEF LinkInv, LinkTypes0, CheckoutSession, SessionsHaveLinks
  <2>3. RowsHoldOwnSession'
    BY <2>1 DEF LinkInv, LinkTypes0, LinkRow, CheckoutSession, RowsHoldOwnSession
  <2>4. VisitsHoldOwnSession'
    BY <2>1 DEF LinkInv, LinkTypes0, CheckoutSession, VisitsHoldOwnSession
  <2>5. NothingTakenBack
    BY <2>1 DEF LinkInv, LinkTypes0, CheckoutSession, NothingTakenBack
  <2>6. QED
    BY <2>2, <2>3, <2>4, <2>5 DEF LinkInv
<1>10. ASSUME NEW choice \in {"void", "keep"}, Disconnect(choice)
       PROVE  LinkInv' /\ NothingTakenBack
  <2>1. links' \in {links, ExpireActive(links)} /\ UNCHANGED <<sessions, visiting>>
    BY <1>10 DEF Disconnect
  <2>2. QED
    BY <2>1, VoidingLinks
<1>11. ASSUME ExpireLinks
       PROVE  LinkInv' /\ NothingTakenBack
  <2>1. links' \in {links, ExpireActive(links)} /\ UNCHANGED <<sessions, visiting>>
    BY <1>11 DEF ExpireLinks
  <2>2. QED
    BY <2>1, VoidingLinks
<1>12. QED
  BY <1>1, <1>2, <1>3, <1>4, <1>5, <1>6, <1>7, <1>8, <1>9, <1>10, <1>11
  DEF LinkActions

-----------------------------------------------------------------------------
(* Payout steps leave the links alone, and the links' own steps write at   *)
(* most the status and the disposition of the payout row.                  *)

LEMMA LinkNextSplits ==
  ASSUME LinkNext
  PROVE  LinkActions \/ (PayoutNext /\ UNCHANGED linkVars)
BY DEF LinkNext, LinkActions

LEMMA PayoutOfLinkActions ==
  ASSUME LinkActions
  PROVE  /\ UNCHANGED <<express, onboarding, checking, payoutHistory>>
         /\ \/ UNCHANGED payout
            \/ /\ payout.account # NoAccount
               /\ \E choice \in {"void", "keep"} :
                    payout' = [payout EXCEPT !.status = "disconnected",
                                             !.disposition = choice]
            \/ payout' = [payout EXCEPT !.disposition = "null"]
<1>1. ASSUME NEW choice \in {"void", "keep"}, Disconnect(choice)
      PROVE  /\ UNCHANGED <<express, onboarding, checking, payoutHistory>>
             /\ payout.account # NoAccount
             /\ payout' = [payout EXCEPT !.status = "disconnected",
                                         !.disposition = choice]
  BY <1>1 DEF Disconnect
<1>2. ASSUME ExpireLinks
      PROVE  /\ UNCHANGED <<express, onboarding, checking, payoutHistory>>
             /\ payout' \in {payout, [payout EXCEPT !.disposition = "null"]}
  BY <1>2 DEF ExpireLinks
<1>3. ASSUME NEW g \in Issue, RequestLink(g) \/ VoidActiveLinks(g) \/ InsertLink(g)
      PROVE  UNCHANGED payoutVars
  BY <1>3 DEF RequestLink, VoidActiveLinks, InsertLink
<1>4. ASSUME NEW v \in Visit,
             \/ \E l \in Link : OpenPayPage(v, l)
             \/ AnswerChallenge(v) \/ MintSession(v) \/ SaveSession(v)
      PROVE  UNCHANGED payoutVars
  BY <1>4 DEF OpenPayPage, AnswerChallenge, MintSession, SaveSession
<1>5. ASSUME NEW l \in Link, LinkLapses(l)
      PROVE  UNCHANGED payoutVars
  BY <1>5 DEF LinkLapses
<1>6. ASSUME NEW s \in Session, DebtorPays(s) \/ SessionExpires(s)
      PROVE  UNCHANGED payoutVars
  BY <1>6 DEF DebtorPays, SessionExpires
<1>7. QED
  BY <1>1, <1>2, <1>3, <1>4, <1>5, <1>6 DEF LinkActions, payoutVars

LEMMA PayoutTypesOfLinks ==
  ASSUME PayoutTypeOK, LinkActions
  PROVE  PayoutTypeOK'
<1>1. payout' \in PayoutRow
  BY PayoutOfLinkActions DEF PayoutTypeOK, PayoutRow
<1>2. QED
  BY <1>1, PayoutOfLinkActions DEF PayoutTypeOK, payoutHistory

(* What LinkNext does, as far as the payment that follows is concerned.    *)
LEMMA LinkNextStep ==
  ASSUME PayoutTypeOK, LinkInv, LinkNext
  PROVE  PayoutTypeOK' /\ LinkInv' /\ NothingTakenBack
<1>1. CASE LinkActions
  BY <1>1, LinkStep, PayoutTypesOfLinks
<1>2. CASE PayoutNext /\ UNCHANGED linkVars
  <2>1. PayoutTypeOK'
    BY <1>2, PayoutTypes
  <2>2. LinkInv' /\ NothingTakenBack
    BY <1>2 DEF linkVars, LinkInv, LinkTypes0, SessionsHaveLinks, RowsHoldOwnSession,
                VisitsHoldOwnSession, NothingTakenBack
  <2>3. QED
    BY <2>1, <2>2
<1>3. QED
  BY <1>1, <1>2, LinkNextSplits

-----------------------------------------------------------------------------
(* The fee.                                                                *)

Deliveries ==
  [Delivery -> [pc : {"wait", "resolve", "flip", "lookup", "capture", "reflect"},
                session : Session \cup {NoSession}, link : Link \cup {NoLink}]]

(* A delivery is about a payment that was made, its link is the one that   *)
(* was paid for, and it says so before the fee is looked at.               *)
DeliveryIsPaid(d) ==
  delivery[d].pc # "wait" =>
    /\ delivery[d].session \in Session
    /\ sessions[delivery[d].session].state = "collected"
    /\ delivery[d].pc # "resolve" =>
         delivery[d].link = sessions[delivery[d].session].link
    /\ delivery[d].pc \in {"lookup", "capture", "reflect"} =>
         links[sessions[delivery[d].session].link].status = "paid"

DeliveriesArePaid == \A d \in Delivery : DeliveryIsPaid(d)

FeeInv ==
  /\ PayoutTypeOK /\ LinkInv /\ delivery \in Deliveries
  /\ DeliveriesArePaid /\ FeeOnlyForPaidLink

LEMMA FeeInit == ASSUME Init PROVE FeeInv
<1>1. PayoutTypeOK
  BY DEF Init, PayoutInit, PayoutTypeOK, PayoutRow, ExpressState, Request, IdleRequest
<1>2. LinkInv
  BY DEF Init, LinkInit, LinkInv, LinkTypes0, LinkRow, CheckoutSession, IdleVisit,
         SessionsHaveLinks, RowsHoldOwnSession, VisitsHoldOwnSession
<1>3. delivery \in Deliveries /\ DeliveriesArePaid /\ FeeOnlyForPaidLink
  BY DEF Init, Waiting, Deliveries, DeliveriesArePaid, DeliveryIsPaid, FeeOnlyForPaidLink
<1>4. QED
  BY <1>1, <1>2, <1>3 DEF FeeInv

(* The delivery resolves to the link that its session was opened for.      *)
LEMMA LinkOfSession ==
  ASSUME LinkInv, NEW s \in Session, sessions[s].state # "none"
  PROVE  LinkOf(s) = sessions[s].link /\ LinkOf(s) \in Link
<1> DEFINE bySession == {l \in Link : links[l].session = s}
<1>1. s # NoSession
  BY LinkAssumption DEF LinkAssumption
<1>2. \A l \in bySession : sessions[s].link = l
  BY <1>1 DEF LinkInv, RowsHoldOwnSession
<1>3. CASE bySession # {}
  <2>1. LinkOf(s) \in bySession
    BY <1>3 DEF LinkOf
  <2>2. QED
    BY <1>2, <2>1
<1>4. CASE bySession = {}
  BY <1>4 DEF LinkOf, LinkInv, SessionsHaveLinks
<1>5. QED
  BY <1>3, <1>4

(* What a step leaves to the invariant that takes nothing back.            *)
LEMMA PaidStaysPaid ==
  ASSUME LinkInv, NothingTakenBack, NEW s \in Session,
         sessions[s].state = "collected"
  PROVE  /\ sessions'[s].state = "collected" /\ sessions'[s].link = sessions[s].link
         /\ links[sessions[s].link].status = "paid" =>
              links'[sessions[s].link].status = "paid"
<1>1. sessions[s].link \in Link
  BY DEF LinkInv, SessionsHaveLinks
<1>2. QED
  BY <1>1 DEF NothingTakenBack

LEMMA DeliveryStaysPaid ==
  ASSUME LinkInv, NothingTakenBack, NEW d \in Delivery, DeliveryIsPaid(d),
         delivery'[d] = delivery[d]
  PROVE  DeliveryIsPaid(d)'
<1> SUFFICES ASSUME delivery[d].pc # "wait"
             PROVE  DeliveryIsPaid(d)'
  BY DEF DeliveryIsPaid
<1>1. PICK s \in Session : s = delivery[d].session /\ sessions[s].state = "collected"
  BY DEF DeliveryIsPaid
<1>2. /\ sessions'[s].state = "collected" /\ sessions'[s].link = sessions[s].link
      /\ links[sessions[s].link].status = "paid" =>
           links'[sessions[s].link].status = "paid"
  BY <1>1, PaidStaysPaid
<1>3. QED
  BY <1>1, <1>2 DEF DeliveryIsPaid

LEMMA FeesStayPaid ==
  ASSUME LinkInv, NothingTakenBack, FeeOnlyForPaidLink,
         \A s \in Session : <<"stripe_recovery", s>> \in feeRows' =>
           \/ <<"stripe_recovery", s>> \in feeRows
           \/ sessions[s].state = "collected" /\ links[sessions[s].link].status = "paid"
  PROVE  FeeOnlyForPaidLink'
<1> SUFFICES ASSUME NEW s \in Session, <<"stripe_recovery", s>> \in feeRows'
             PROVE  sessions'[s].state = "collected"
                    /\ links'[sessions'[s].link].status = "paid"
  BY DEF FeeOnlyForPaidLink
<1>1. sessions[s].state = "collected" /\ links[sessions[s].link].status = "paid"
  BY DEF FeeOnlyForPaidLink
<1>2. QED
  BY <1>1, PaidStaysPaid

(* What a step leaves to the invariant that takes nothing back: only the   *)
(* delivery that steps has to be looked at, and the rows it inserts.       *)
LEMMA FeesStay ==
  ASSUME FeeInv, PayoutTypeOK', LinkInv', NothingTakenBack,
         delivery' \in Deliveries,
         \A d \in Delivery : delivery'[d] = delivery[d] \/ DeliveryIsPaid(d)',
         \A s \in Session : <<"stripe_recovery", s>> \in feeRows' =>
           \/ <<"stripe_recovery", s>> \in feeRows
           \/ sessions[s].state = "collected" /\ links[sessions[s].link].status = "paid"
  PROVE  FeeInv'
<1>1. DeliveriesArePaid'
  BY DeliveryStaysPaid DEF FeeInv, DeliveriesArePaid
<1>2. FeeOnlyForPaidLink'
  BY FeesStayPaid DEF FeeInv
<1>3. QED
  BY <1>1, <1>2 DEF FeeInv

LEMMA NothingChangesLinks ==
  ASSUME PayoutTypeOK, LinkInv, UNCHANGED <<payoutVars, linkVars>>
  PROVE  PayoutTypeOK' /\ LinkInv' /\ NothingTakenBack
<1>1. PayoutTypeOK'
  BY DEF payoutVars, payoutHistory, PayoutTypeOK
<1>2. LinkInv' /\ NothingTakenBack
  BY DEF linkVars, LinkInv, LinkTypes0, SessionsHaveLinks, RowsHoldOwnSession,
         VisitsHoldOwnSession, NothingTakenBack
<1>3. QED
  BY <1>1, <1>2

LEMMA FlipTakesNothingBack ==
  ASSUME LinkInv, NEW l \in Link, UNCHANGED <<sessions, visiting>>,
         links' = [links EXCEPT ![l].status = "paid"]
  PROVE  LinkInv' /\ NothingTakenBack
<1>1. links' \in [Link -> LinkRow]
  BY DEF LinkInv, LinkTypes0, LinkRow
<1>2. \A k \in Link : /\ links'[k].session = links[k].session
                      /\ links[k].status = "paid" => links'[k].status = "paid"
  BY DEF LinkInv, LinkTypes0, LinkRow
<1>3. QED
  BY <1>1, <1>2, LinksOnly

LEMMA FeeStep ==
  ASSUME FeeInv, [Next]_checkoutVars
  PROVE  FeeInv'
<1> PayoutTypeOK /\ LinkInv /\ delivery \in Deliveries /\ DeliveriesArePaid
  BY DEF FeeInv
<1>1. CASE LinkNext /\ UNCHANGED <<captureVars, syncVars>>
  <2>1. delivery' \in Deliveries /\ feeRows' = feeRows
        /\ \A d \in Delivery : delivery'[d] = delivery[d]
    BY <1>1 DEF captureVars
  <2>2. PayoutTypeOK' /\ LinkInv' /\ NothingTakenBack
    BY <1>1, LinkNextStep
  <2>3. QED
    BY <2>1, <2>2, FeesStay
<1>2. ASSUME NEW d \in Delivery, NEW s \in Session, Deliver(d, s)
      PROVE  FeeInv'
  <2>1. PayoutTypeOK' /\ LinkInv' /\ NothingTakenBack
    BY <1>2, NothingChangesLinks DEF Deliver
  <2>2. delivery' \in Deliveries /\ feeRows' = feeRows
    BY <1>2 DEF Deliver, Deliveries
  <2>3. \A e \in Delivery : delivery'[e] = delivery[e] \/ DeliveryIsPaid(e)'
    BY <1>2 DEF Deliver, Deliveries, DeliveryIsPaid, linkVars
  <2>4. QED
    BY <2>1, <2>2, <2>3, FeesStay
<1>3. ASSUME NEW d \in Delivery, ResolveLink(d)
      PROVE  FeeInv'
  <2>1. PayoutTypeOK' /\ LinkInv' /\ NothingTakenBack
    BY <1>3, NothingChangesLinks DEF ResolveLink
  <2>2. PICK s \in Session : s = delivery[d].session
                             /\ sessions[s].state = "collected"
    BY <1>3 DEF ResolveLink, DeliveriesArePaid, DeliveryIsPaid
  <2>3. LinkOf(s) = sessions[s].link /\ LinkOf(s) \in Link
    BY <2>2, LinkOfSession
  <2>4. \/ delivery' = [delivery EXCEPT ![d].pc = "flip", ![d].link = sessions[s].link]
        \/ delivery' = [delivery EXCEPT ![d] = Waiting]
    BY <1>3, <2>2, <2>3 DEF ResolveLink
  <2>5. delivery' \in Deliveries /\ feeRows' = feeRows
    BY <1>3, <2>3, <2>4 DEF ResolveLink, Deliveries, Waiting
  <2>6. \A e \in Delivery : delivery'[e] = delivery[e] \/ DeliveryIsPaid(e)'
    <3>1. \A e \in Delivery : e # d => delivery'[e] = delivery[e]
      BY <2>4 DEF Deliveries
    <3>2. sessions' = sessions
      BY <1>3 DEF ResolveLink, linkVars
    <3>3. CASE delivery' = [delivery EXCEPT ![d].pc = "flip",
                                            ![d].link = sessions[s].link]
      <4>1. /\ delivery'[d].pc = "flip" /\ delivery'[d].session = s
            /\ delivery'[d].link = sessions[s].link
        BY <2>2, <3>3 DEF Deliveries
      <4>2. DeliveryIsPaid(d)'
        BY <2>2, <3>2, <4>1 DEF DeliveryIsPaid
      <4>3. QED
        BY <3>1, <4>2
    <3>4. CASE delivery' = [delivery EXCEPT ![d] = Waiting]
      <4>1. delivery'[d].pc = "wait"
        BY <3>4 DEF Deliveries, Waiting
      <4>2. DeliveryIsPaid(d)'
        BY <4>1 DEF DeliveryIsPaid
      <4>3. QED
        BY <3>1, <4>2
    <3>5. QED
      BY <2>4, <3>3, <3>4
  <2>7. QED
    BY <2>1, <2>5, <2>6, FeesStay
<1>4. ASSUME NEW d \in Delivery, FlipLink(d)
      PROVE  FeeInv'
  <2>1. PICK s \in Session : /\ s = delivery[d].session
                             /\ sessions[s].state = "collected"
                             /\ delivery[d].link = sessions[s].link
    BY <1>4 DEF FlipLink, DeliveriesArePaid, DeliveryIsPaid
  <2>2. sessions[s].link \in Link
    BY <2>1 DEF LinkInv, SessionsHaveLinks
  <2>3. PayoutTypeOK'
    BY <1>4 DEF FlipLink, payoutVars, payoutHistory, PayoutTypeOK
  <2>4. feeRows' = feeRows /\ UNCHANGED <<sessions, visiting>>
    BY <1>4 DEF FlipLink
  <2>5. CASE links' = [links EXCEPT ![delivery[d].link].status = "paid"]
             /\ delivery' = [delivery EXCEPT ![d].pc = "lookup"]
    <3>1. LinkInv' /\ NothingTakenBack
      BY <2>1, <2>2, <2>4, <2>5, FlipTakesNothingBack
    <3>2. delivery' \in Deliveries
      BY <2>5 DEF Deliveries
    <3>3. links'[sessions[s].link].status = "paid"
      BY <2>1, <2>2, <2>5 DEF LinkInv, LinkTypes0, LinkRow
    <3>4. \A e \in Delivery : delivery'[e] = delivery[e] \/ DeliveryIsPaid(e)'
      BY <1>4, <2>1, <2>4, <2>5, <3>3 DEF Deliveries, DeliveryIsPaid, FlipLink
    <3>5. QED
      BY <2>3, <2>4, <3>1, <3>2, <3>4, FeesStay
  <2>6. CASE UNCHANGED links /\ delivery' = [delivery EXCEPT ![d] = Waiting]
    <3>1. LinkInv' /\ NothingTakenBack
      BY <2>4, <2>6 DEF LinkInv, LinkTypes0, SessionsHaveLinks, RowsHoldOwnSession,
                        VisitsHoldOwnSession, NothingTakenBack
    <3>2. delivery' \in Deliveries
          /\ \A e \in Delivery : delivery'[e] = delivery[e] \/ DeliveryIsPaid(e)'
      BY <2>6 DEF Deliveries, Waiting, DeliveryIsPaid
    <3>3. QED
      BY <2>3, <2>4, <3>1, <3>2, FeesStay
  <2>7. QED
    BY <1>4, <2>5, <2>6 DEF FlipLink
<1>5. ASSUME NEW d \in Delivery, LookUpInvoice(d)
      PROVE  FeeInv'
  <2>1. PayoutTypeOK' /\ LinkInv' /\ NothingTakenBack
    BY <1>5, NothingChangesLinks DEF LookUpInvoice
  <2>2. \/ delivery' = [delivery EXCEPT ![d].pc = "capture"]
        \/ delivery' = [delivery EXCEPT ![d] = Waiting]
    BY <1>5 DEF LookUpInvoice
  <2>3. delivery' \in Deliveries /\ feeRows' = feeRows
    BY <1>5, <2>2 DEF LookUpInvoice, Deliveries, Waiting
  <2>4. \A e \in Delivery : delivery'[e] = delivery[e] \/ DeliveryIsPaid(e)'
    BY <1>5, <2>2 DEF LookUpInvoice, Deliveries, Waiting, DeliveriesArePaid,
                      DeliveryIsPaid, linkVars
  <2>5. QED
    BY <2>1, <2>3, <2>4, FeesStay
<1>6. ASSUME NEW d \in Delivery, CaptureFee(d)
      PROVE  FeeInv'
  <2>1. PayoutTypeOK' /\ LinkInv' /\ NothingTakenBack
    BY <1>6, NothingChangesLinks DEF CaptureFee
  <2>2. PICK s \in Session : /\ s = delivery[d].session
                             /\ sessions[s].state = "collected"
                             /\ links[sessions[s].link].status = "paid"
    BY <1>6 DEF CaptureFee, DeliveriesArePaid, DeliveryIsPaid
  <2>3. feeRows' \subseteq feeRows \cup {<<"stripe_recovery", s>>}
    BY <1>6, <2>2 DEF CaptureFee, Captured
  <2>4. \A t \in Session : <<"stripe_recovery", t>> \in feeRows' =>
                              <<"stripe_recovery", t>> \in feeRows \/ t = s
    BY <2>3
  <2>5. \/ delivery' = [delivery EXCEPT ![d].pc = "reflect"]
        \/ delivery' = [delivery EXCEPT ![d] = Waiting]
    BY <1>6 DEF CaptureFee
  <2>6. delivery' \in Deliveries
    BY <2>5 DEF Deliveries, Waiting
  <2>7. \A e \in Delivery : delivery'[e] = delivery[e] \/ DeliveryIsPaid(e)'
    BY <1>6, <2>5 DEF CaptureFee, Deliveries, Waiting, DeliveriesArePaid,
                      DeliveryIsPaid, linkVars
  <2>8. QED
    BY <2>1, <2>2, <2>3, <2>4, <2>6, <2>7, FeesStay
<1>7. ASSUME NEW d \in Delivery, Reflect(d) \/ DeliveryDies(d)
      PROVE  FeeInv'
  <2>1. PayoutTypeOK' /\ LinkInv' /\ NothingTakenBack
    BY <1>7, NothingChangesLinks DEF Reflect, DeliveryDies
  <2>2. delivery' = [delivery EXCEPT ![d] = Waiting] /\ feeRows' = feeRows
    BY <1>7 DEF Reflect, DeliveryDies
  <2>3. delivery' \in Deliveries
        /\ \A e \in Delivery : delivery'[e] = delivery[e] \/ DeliveryIsPaid(e)'
    BY <2>2 DEF Deliveries, Waiting, DeliveryIsPaid
  <2>4. QED
    BY <2>1, <2>2, <2>3, FeesStay
<1>8. ASSUME NEW d \in Delivery, ReflectGoesOn(d)
      PROVE  FeeInv'
  <2>1. PayoutTypeOK' /\ LinkInv' /\ NothingTakenBack
    BY <1>8, NothingChangesLinks DEF ReflectGoesOn
  <2>2. delivery' \in Deliveries /\ feeRows' = feeRows
        /\ \A e \in Delivery : delivery'[e] = delivery[e]
    BY <1>8 DEF ReflectGoesOn, captureVars
  <2>3. QED
    BY <2>1, <2>2, FeesStay
<1>9. ASSUME NEW t \in Session, QuickBooksReports(t)
      PROVE  FeeInv'
  <2>1. PayoutTypeOK' /\ LinkInv' /\ NothingTakenBack
    BY <1>9, NothingChangesLinks DEF QuickBooksReports
  <2>2. /\ delivery' \in Deliveries /\ feeRows' = feeRows \cup {<<"qbo", t>>}
        /\ \A e \in Delivery : delivery'[e] = delivery[e]
        /\ \A s \in Session : <<"stripe_recovery", s>> \notin {<<"qbo", t>>}
    BY <1>9 DEF QuickBooksReports, Captured
  <2>3. \A s \in Session : <<"stripe_recovery", s>> \in feeRows' =>
                              <<"stripe_recovery", s>> \in feeRows
    BY <2>2
  <2>4. QED
    BY <2>1, <2>2, <2>3, FeesStay
<1>10. CASE UNCHANGED checkoutVars
  <2>1. PayoutTypeOK' /\ LinkInv' /\ NothingTakenBack
    BY <1>10, NothingChangesLinks DEF checkoutVars
  <2>2. delivery' \in Deliveries /\ feeRows' = feeRows
        /\ \A e \in Delivery : delivery'[e] = delivery[e]
    BY <1>10 DEF checkoutVars, captureVars
  <2>3. QED
    BY <2>1, <2>2, FeesStay
<1>11. QED
  BY <1>1, <1>2, <1>3, <1>4, <1>5, <1>6, <1>7, <1>8, <1>9, <1>10 DEF Next, Handle

(* A fee of the recovery rail stands only against money that a debtor has  *)
(* paid for a link whose row says so, whatever runs at the same time:      *)
(* voids, disconnects, expiries, redeliveries and handlers that die.       *)
THEOREM FeesStandOnPaidLinks == Spec => []FeeOnlyForPaidLink
<1>1. Init => FeeInv
  BY FeeInit
<1>2. FeeInv /\ [Next]_checkoutVars => FeeInv'
  BY FeeStep
<1>3. FeeInv => FeeOnlyForPaidLink
  BY DEF FeeInv
<1>4. QED
  BY <1>1, <1>2, <1>3, PTL DEF Spec

-----------------------------------------------------------------------------
(* The account that is paid.                                               *)

(* An account is trusted that Stripe has enabled, or that got the status   *)
(* of another.                                                             *)
Trusted(a) == a \in approved \cup misjudged

(* What the payout row says of the account it names.                       *)
CompleteIsTrusted ==
  payout.status = "complete" /\ payout.account # NoAccount => Trusted(payout.account)

(* A status check is about the account it read, whatever the row names by  *)
(* now.                                                                    *)
ChecksAreTrue ==
  \A q \in StatusCheck :
    /\ checking[q].pc \in {"retrieve", "update"} => checking[q].account \in Account
    /\ checking[q].pc = "update" /\ checking[q].status = "complete" =>
         checking[q].account \in approved

EnabledAreApproved == \A a \in Account : express[a] = "enabled" => a \in approved

SessionsPayTrusted ==
  \A s \in Session : sessions[s].state # "none" => Trusted(sessions[s].account)

AccountInv ==
  /\ PayoutTypeOK /\ sessions \in [Session -> CheckoutSession]
  /\ CompleteIsTrusted /\ ChecksAreTrue /\ EnabledAreApproved /\ SessionsPayTrusted

LEMMA AccountInit == ASSUME Init PROVE AccountInv
<1>1. PayoutTypeOK
  BY FeeInit DEF FeeInv
<1>2. sessions \in [Session -> CheckoutSession]
  BY FeeInit DEF FeeInv, LinkInv, LinkTypes0
<1>3. CompleteIsTrusted /\ EnabledAreApproved
  BY DEF Init, PayoutInit, CompleteIsTrusted, EnabledAreApproved, Trusted
<1>4. ChecksAreTrue
  BY DEF Init, PayoutInit, IdleRequest, ChecksAreTrue
<1>5. SessionsPayTrusted
  BY DEF Init, LinkInit, SessionsPayTrusted
<1>6. QED
  BY <1>1, <1>2, <1>3, <1>4, <1>5 DEF AccountInv

LEMMA PayoutStep ==
  ASSUME AccountInv, PayoutNext, UNCHANGED sessions
  PROVE  AccountInv'
<1> USE DEF payoutHistory
<1> PayoutTypeOK /\ CompleteIsTrusted /\ ChecksAreTrue /\ EnabledAreApproved
    /\ SessionsPayTrusted
  BY DEF AccountInv
<1> DEFINE Kept == CompleteIsTrusted /\ ChecksAreTrue /\ EnabledAreApproved
<1>1. ASSUME NEW o \in Onboarding, OnboardReads(o)
      PROVE  Kept' /\ UNCHANGED payoutHistory
  BY <1>1 DEF OnboardReads, CompleteIsTrusted, ChecksAreTrue, EnabledAreApproved, Trusted
<1>2. ASSUME NEW o \in Onboarding, OnboardResets(o)
      PROVE  Kept' /\ UNCHANGED payoutHistory
  <2>1. CompleteIsTrusted'
    BY <1>2 DEF OnboardResets, PayoutTypeOK, PayoutRow, CompleteIsTrusted, Trusted
  <2>2. QED
    BY <1>2, <2>1 DEF OnboardResets, ChecksAreTrue, EnabledAreApproved
<1>3. ASSUME NEW o \in Onboarding, CreateExpressAccount(o)
      PROVE  Kept' /\ UNCHANGED payoutHistory
  <2>1. \A a \in Account : express'[a] = "enabled" => express[a] = "enabled"
    BY <1>3 DEF CreateExpressAccount, StripeCreates, PayoutTypeOK
  <2>2. UNCHANGED <<payout, checking, payoutHistory>>
    BY <1>3 DEF CreateExpressAccount
  <2>3. QED
    BY <2>1, <2>2 DEF CompleteIsTrusted, ChecksAreTrue, EnabledAreApproved, Trusted
<1>4. ASSUME NEW o \in Onboarding, PersistAccount(o)
      PROVE  Kept' /\ UNCHANGED payoutHistory
  <2>1. payout' = payout \/ payout'.status = "pending"
    BY <1>4 DEF PersistAccount, PayoutTypeOK, PayoutRow
  <2>2. UNCHANGED <<express, checking, payoutHistory>>
    BY <1>4 DEF PersistAccount
  <2>3. QED
    BY <2>1, <2>2 DEF CompleteIsTrusted, ChecksAreTrue, EnabledAreApproved, Trusted
<1>5. ASSUME NEW q \in StatusCheck, StatusReads(q)
      PROVE  Kept' /\ UNCHANGED payoutHistory
  <2>1. payout.account \in Account
    BY <1>5 DEF StatusReads, PayoutTypeOK, PayoutRow
  <2>2. ChecksAreTrue'
    BY <1>5, <2>1 DEF StatusReads, PayoutTypeOK, ChecksAreTrue
  <2>3. QED
    BY <1>5, <2>2 DEF StatusReads, CompleteIsTrusted, EnabledAreApproved, Trusted
<1>6. ASSUME NEW q \in StatusCheck, RetrieveAccount(q)
      PROVE  Kept' /\ UNCHANGED payoutHistory
  <2> DEFINE standing == Standing(express[checking[q].account])
  <2>1. checking[q].account \in Account
    BY <1>6 DEF RetrieveAccount, ChecksAreTrue
  <2>2. standing = "complete" => checking[q].account \in approved
    BY <2>1 DEF Standing, EnabledAreApproved
  <2>3. \/ checking' = [checking EXCEPT ![q] = IdleRequest]
        \/ checking' = [checking EXCEPT ![q] = [@ EXCEPT !.pc = "update", !.status = standing]]
    <3>1. CASE standing = checking[q].status
      BY <1>6, <3>1 DEF RetrieveAccount
    <3>2. CASE standing # checking[q].status
      BY <1>6, <3>2 DEF RetrieveAccount
    <3>3. QED
      BY <3>1, <3>2
  <2> HIDE DEF standing
  <2>4. ASSUME checking' = [checking EXCEPT ![q] = IdleRequest]
        PROVE  ChecksAreTrue'
    <3>1. /\ checking'[q].pc = "idle"
          /\ \A p \in StatusCheck : p # q => checking'[p] = checking[p]
      BY <2>4 DEF PayoutTypeOK, IdleRequest
    <3>2. UNCHANGED approved
      BY <1>6 DEF RetrieveAccount
    <3>3. QED
      BY <3>1, <3>2 DEF ChecksAreTrue
  <2>5. ASSUME checking' = [checking EXCEPT ![q] = [@ EXCEPT !.pc = "update", !.status = standing]]
        PROVE  ChecksAreTrue'
    <3>1. /\ checking'[q].account = checking[q].account
          /\ checking'[q].status = standing
          /\ \A p \in StatusCheck : p # q => checking'[p] = checking[p]
      BY <2>5 DEF PayoutTypeOK, Request
    <3>2. QED
      BY <1>6, <2>1, <2>2, <3>1 DEF RetrieveAccount, ChecksAreTrue
  <2>6. QED
    BY <1>6, <2>3, <2>4, <2>5
       DEF RetrieveAccount, CompleteIsTrusted, EnabledAreApproved, Trusted
<1>7. ASSUME NEW q \in StatusCheck, PersistStatus(q)
      PROVE  Kept' /\ UNCHANGED approved /\ misjudged \subseteq misjudged'
  <2>1. ChecksAreTrue'
    BY <1>7 DEF PersistStatus, PayoutTypeOK, IdleRequest, ChecksAreTrue
  <2>2. CompleteIsTrusted'
    <3>1. CASE UNCHANGED <<payout, misjudged>>
      BY <1>7, <3>1 DEF PersistStatus, CompleteIsTrusted, Trusted
    <3>2. CASE /\ payout' = [payout EXCEPT !.status = checking[q].status]
               /\ misjudged' = IF checking[q].account = payout.account THEN misjudged
                               ELSE misjudged \cup {payout.account}
      <4>1. payout'.account = payout.account /\ payout'.status = checking[q].status
        BY <3>2 DEF PayoutTypeOK, PayoutRow
      <4>2. checking[q].status = "complete" => checking[q].account \in approved
        BY <1>7 DEF PersistStatus, ChecksAreTrue
      <4>3. QED
        BY <1>7, <3>2, <4>1, <4>2 DEF PersistStatus, CompleteIsTrusted, Trusted
    <3>3. QED
      BY <1>7, <3>1, <3>2 DEF PersistStatus
  <2>3. QED
    BY <1>7, <2>1, <2>2 DEF PersistStatus, EnabledAreApproved
<1>8. ASSUME NEW a \in Account, StripeReviews(a)
      PROVE  Kept' /\ approved \subseteq approved' /\ UNCHANGED misjudged
  <2>1. EnabledAreApproved'
    BY <1>8 DEF StripeReviews, PayoutTypeOK, EnabledAreApproved
  <2>2. QED
    BY <1>8, <2>1 DEF StripeReviews, CompleteIsTrusted, ChecksAreTrue, Trusted
<1>9. Kept' /\ approved \subseteq approved' /\ misjudged \subseteq misjudged'
  BY <1>1, <1>2, <1>3, <1>4, <1>5, <1>6, <1>7, <1>8 DEF PayoutNext
<1>10. SessionsPayTrusted'
  BY <1>9 DEF SessionsPayTrusted, Trusted
<1>11. QED
  BY <1>9, <1>10, PayoutTypes DEF AccountInv

LEMMA AccountOfLinkActions ==
  ASSUME AccountInv, LinkActions
  PROVE  PayoutTypeOK' /\ CompleteIsTrusted' /\ ChecksAreTrue' /\ EnabledAreApproved'
<1>1. /\ UNCHANGED <<express, onboarding, checking, payoutHistory>>
      /\ payout'.account = payout.account
      /\ payout'.status = payout.status \/ payout'.status = "disconnected"
  BY PayoutOfLinkActions DEF AccountInv, PayoutTypeOK, PayoutRow
<1>2. CompleteIsTrusted' /\ ChecksAreTrue' /\ EnabledAreApproved'
  BY <1>1 DEF AccountInv, CompleteIsTrusted, ChecksAreTrue, EnabledAreApproved, Trusted,
              payoutHistory
<1>3. QED
  BY <1>2, PayoutTypesOfLinks DEF AccountInv

(* A session is opened only for an account that can receive.               *)
LEMMA MintedForTrusted ==
  ASSUME AccountInv, NEW v \in Visit, MintSession(v)
  PROVE  sessions' \in [Session -> CheckoutSession] => SessionsPayTrusted'
<1>1. UNCHANGED <<approved, misjudged>>
  BY DEF MintSession, payoutVars, payoutHistory
<1>2. CASE sessions' = sessions
  BY <1>1, <1>2 DEF AccountInv, SessionsPayTrusted, Trusted
<1>3. CASE sessions' # sessions
  <2> DEFINE unused == {s \in Session : sessions[s].state = "none"}
  <2>1. /\ CanReceive
        /\ sessions' = [sessions EXCEPT ![Fresh(unused)] =
             [state |-> "open", link |-> visiting[v].link,
              account |-> payout.account]]
    BY <1>3 DEF MintSession
  <2>2. Trusted(payout.account)
    BY <2>1 DEF CanReceive, AccountInv, CompleteIsTrusted
  <2>3. QED
    BY <1>1, <2>1, <2>2 DEF AccountInv, SessionsPayTrusted, Trusted
<1>4. QED
  BY <1>2, <1>3

LEMMA SessionsOfLinkActions ==
  ASSUME AccountInv, LinkInv, LinkActions
  PROVE  SessionsPayTrusted'
<1>1. ASSUME NEW v \in Visit, MintSession(v)
      PROVE  SessionsPayTrusted'
  <2>1. LinkInv'
    BY LinkStep DEF AccountInv
  <2>2. QED
    BY <1>1, <2>1, MintedForTrusted DEF LinkInv, LinkTypes0
<1>2. ASSUME NEW s \in Session, DebtorPays(s) \/ SessionExpires(s)
      PROVE  SessionsPayTrusted'
  <2>1. PICK x \in {"collected", "expired"} :
          /\ sessions[s].state = "open" /\ UNCHANGED <<approved, misjudged>>
          /\ sessions' = [sessions EXCEPT ![s].state = x]
    BY <1>2 DEF DebtorPays, SessionExpires, payoutVars, payoutHistory
  <2>2. QED
    BY <2>1 DEF AccountInv, CheckoutSession, SessionsPayTrusted, Trusted
<1>3. CASE UNCHANGED sessions
  BY <1>3, PayoutOfLinkActions DEF AccountInv, SessionsPayTrusted, Trusted, payoutHistory
<1>4. UNCHANGED sessions \/ (\E v \in Visit : MintSession(v))
        \/ (\E s \in Session : DebtorPays(s) \/ SessionExpires(s))
  BY DEF LinkActions, RequestLink, VoidActiveLinks, InsertLink, LinkLapses,
         OpenPayPage, AnswerChallenge, SaveSession, Disconnect, ExpireLinks
<1>5. QED
  BY <1>1, <1>2, <1>3, <1>4

LEMMA DeliveriesLeaveAccounts ==
  ASSUME Next
  PROVE  (LinkNext /\ UNCHANGED <<captureVars, syncVars>>)
         \/ UNCHANGED <<payoutVars, sessions>>
BY DEF Next, Handle, Deliver, ResolveLink, FlipLink, LookUpInvoice, CaptureFee,
       Reflect, ReflectGoesOn, DeliveryDies, QuickBooksReports, linkVars

(* However many onboardings, status checks and disconnects overlap, and    *)
(* whatever Stripe comes to think of an account, every session pays one    *)
(* whose charges Stripe has enabled, or one that a slow status check took  *)
(* for the account it had replaced.                                        *)
THEOREM SessionsPayReviewed == Spec => []SessionsPayReviewedAccount
<1>1. Init => FeeInv /\ AccountInv
  BY FeeInit, AccountInit
<1>2. ASSUME FeeInv, AccountInv, [Next]_checkoutVars
      PROVE  FeeInv' /\ AccountInv'
  <2>1. FeeInv'
    BY <1>2, FeeStep
  <2>2. sessions' \in [Session -> CheckoutSession]
    BY <2>1 DEF FeeInv, LinkInv, LinkTypes0
  <2>3. ASSUME LinkActions
        PROVE  AccountInv'
    <3>1. PayoutTypeOK' /\ CompleteIsTrusted' /\ ChecksAreTrue' /\ EnabledAreApproved'
      BY <1>2, <2>3, AccountOfLinkActions
    <3>2. SessionsPayTrusted'
      BY <1>2, <2>3, SessionsOfLinkActions DEF FeeInv
    <3>3. QED
      BY <2>2, <3>1, <3>2 DEF AccountInv
  <2>4. ASSUME PayoutNext, UNCHANGED linkVars
        PROVE  AccountInv'
    <3>1. UNCHANGED sessions
      BY <2>4 DEF linkVars
    <3>2. QED
      BY <1>2, <2>4, <3>1, PayoutStep
  <2>5. ASSUME UNCHANGED <<payoutVars, sessions>>
        PROVE  AccountInv'
    BY <1>2, <2>5 DEF payoutVars, payoutHistory, AccountInv, PayoutTypeOK,
                      CompleteIsTrusted, ChecksAreTrue, EnabledAreApproved,
                      SessionsPayTrusted, Trusted
  <2>6. \/ LinkActions
        \/ PayoutNext /\ UNCHANGED linkVars
        \/ UNCHANGED <<payoutVars, sessions>>
    BY <1>2, LinkNextSplits, DeliveriesLeaveAccounts DEF checkoutVars, linkVars
  <2>7. QED
    BY <2>1, <2>3, <2>4, <2>5, <2>6
<1>3. AccountInv => SessionsPayReviewedAccount
  BY DEF AccountInv, SessionsPayTrusted, Trusted, SessionsPayReviewedAccount
<1>4. QED
  BY <1>1, <1>2, <1>3, PTL DEF Spec

-----------------------------------------------------------------------------
(* The QuickBooks payment.                                                 *)

SyncTypes ==
  /\ syncRow \in [Session -> [status : {"none", "pending", "failed", "done", "dead"},
                              attempts : Nat]]
  /\ posted \in [Session -> Nat]
  /\ reflecting \in [Delivery ->
       [pc : {"rest", "upsert", "read", "bury", "count", "post", "done", "failed"},
        payment : Session \cup {NoSession}, attempts : Nat]]

BeforePost == {"upsert", "read", "bury", "count", "post"}

PaidFor(s) ==
  s \in Session /\ sessions[s].state = "collected"
  /\ links[sessions[s].link].status = "paid"

PostedIsPaid == \A s \in Session : posted[s] > 0 => PaidFor(s)

(* A delivery carries a payment from the moment it found the link unpaid   *)
(* until it rests.                                                         *)
FromFlip == {"flip", "lookup", "capture", "reflect"}
Carries(d, s) ==
  \/ delivery[d].pc \in FromFlip /\ delivery[d].session = s
  \/ reflecting[d].pc # "rest" /\ reflecting[d].payment = s

(* What is reflected is a payment whose link says 'paid': the next         *)
(* delivery of it stops there.                                             *)
ReflectsThePaid ==
  \A d \in Delivery :
    /\ delivery[d].pc # "wait" => reflecting[d].pc = "rest"
    /\ reflecting[d].pc # "rest" => PaidFor(reflecting[d].payment)

(* One delivery at most carries a payment, and it has not posted it before *)
(* it posts.                                                               *)
OneCarrier ==
  \A s \in Session \ overlapped, d, e \in Delivery :
    Carries(d, s) /\ Carries(e, s) => d = e
CarriesUnposted ==
  \A s \in Session \ overlapped, d \in Delivery :
    Carries(d, s) /\ reflecting[d].pc \in BeforePost \cup {"rest"} => posted[s] = 0

PostInv ==
  /\ SyncTypes /\ PostedIsPaid /\ ReflectsThePaid
  /\ OneCarrier /\ CarriesUnposted /\ PostedAtMostOnce

LEMMA CountedRecord ==
  ASSUME NEW P, NEW C, "post" \in C,
         NEW r \in [pc : C, payment : P, attempts : Nat],
         NEW n \in Nat
  PROVE  /\ [r EXCEPT !.pc = "post", !.attempts = n] \in
              [pc : C, payment : P, attempts : Nat]
         /\ [r EXCEPT !.pc = "post", !.attempts = n].pc = "post"
         /\ [r EXCEPT !.pc = "post", !.attempts = n].payment = r.payment
OBVIOUS

(* What one step of a reflector does to what it reflects.                  *)
LEMMA ReflectorStep ==
  ASSUME SyncTypes, NEW d \in Delivery, Sync!ReflectStep(d),
         reflecting[d].payment \in Session
  PROVE  /\ SyncTypes' /\ reflecting[d].pc # "rest"
         /\ \A e \in Delivery : e # d => reflecting'[e] = reflecting[e]
         /\ reflecting'[d].pc # "rest" =>
              reflecting'[d].payment = reflecting[d].payment
         /\ \/ posted' = posted
               /\ (reflecting'[d].pc \in BeforePost => reflecting[d].pc \in BeforePost)
            \/ /\ reflecting[d].pc = "post"
               /\ posted' = [posted EXCEPT ![reflecting[d].payment] = @ + 1]
               /\ reflecting'[d].pc \in {"done", "failed"}
<1> DEFINE Goal ==
         /\ SyncTypes' /\ reflecting[d].pc # "rest"
         /\ \A e \in Delivery : e # d => reflecting'[e] = reflecting[e]
         /\ reflecting'[d].pc # "rest" =>
              reflecting'[d].payment = reflecting[d].payment
         /\ \/ posted' = posted
               /\ (reflecting'[d].pc \in BeforePost => reflecting[d].pc \in BeforePost)
            \/ /\ reflecting[d].pc = "post"
               /\ posted' = [posted EXCEPT ![reflecting[d].payment] = @ + 1]
               /\ reflecting'[d].pc \in {"done", "failed"}
<1> SUFFICES Goal
  OBVIOUS
<1> USE DEF SyncTypes, Sync!Rest, Sync!AtRest, BeforePost
<1>1. CASE Sync!UpsertSyncRow(d)
  <2>1. reflecting[d].pc = "upsert" /\ posted' = posted
    BY <1>1 DEF Sync!UpsertSyncRow
  <2>2. \/ syncRow' = syncRow
        \/ syncRow' = [syncRow EXCEPT ![reflecting[d].payment].status = "pending"]
    BY <1>1 DEF Sync!UpsertSyncRow
  <2>3. \/ reflecting' = [reflecting EXCEPT ![d].pc = "read"]
        \/ reflecting' = [reflecting EXCEPT ![d] = Sync!AtRest]
    BY <1>1 DEF Sync!UpsertSyncRow
  <2>4. syncRow' \in [Session -> [status : {"none", "pending", "failed", "done", "dead"},
                                  attempts : Nat]]
    BY <2>2
  <2>5. reflecting' \in [Delivery ->
          [pc : {"rest", "upsert", "read", "bury", "count", "post", "done", "failed"},
           payment : Session \cup {NoSession}, attempts : Nat]]
    BY <2>3
  <2>6. QED
    BY <2>1, <2>3, <2>4, <2>5
<1>2. CASE Sync!ReadSyncRow(d)
  BY <1>2 DEF Sync!ReadSyncRow
<1>3. CASE Sync!BuryRow(d)
  BY <1>3 DEF Sync!BuryRow, Sync!SetStatus
<1>4. CASE Sync!CountAttempt(d)
  <2>1. /\ reflecting[d].pc = "count" /\ reflecting[d].attempts \in Nat
        /\ reflecting[d].payment \in Session /\ posted' = posted
    BY <1>4 DEF Sync!CountAttempt
  <2>2. PICK n : n = reflecting[d].attempts + 1
    OBVIOUS
  <2>3. /\ syncRow' \in {syncRow,
                         [syncRow EXCEPT ![reflecting[d].payment].attempts = n]}
        /\ reflecting' = [reflecting EXCEPT ![d].pc = "post", ![d].attempts = n]
    BY <1>4, <2>2 DEF Sync!CountAttempt
  <2>4. n \in Nat
    BY <2>1, <2>2
  <2>5. syncRow' \in [Session -> [status : {"none", "pending", "failed", "done", "dead"},
                                  attempts : Nat]]
    BY <2>1, <2>3, <2>4
  <2>6. reflecting' = [reflecting EXCEPT ![d] =
                         [reflecting[d] EXCEPT !.pc = "post", !.attempts = n]]
    BY <2>3
  <2>7. /\ reflecting'[d] \in
             [pc : {"rest", "upsert", "read", "bury", "count", "post", "done",
                    "failed"}, payment : Session \cup {NoSession}, attempts : Nat]
        /\ reflecting'[d].pc = "post"
        /\ reflecting'[d].payment = reflecting[d].payment
    BY <2>4, <2>6, CountedRecord
  <2>8. SyncTypes'
    BY <2>1, <2>5, <2>6, <2>7
  <2>9. QED
    BY <2>1, <2>6, <2>7, <2>8
<1>5. CASE Sync!PostPayment(d)
  BY SMTT(40), <1>5 DEF Sync!PostPayment, Sync!PostEntity
<1>6. CASE Sync!RecordDone(d)
  BY <1>6 DEF Sync!RecordDone, Sync!SetStatus
<1>7. CASE Sync!RecordFailure(d)
  BY <1>7 DEF Sync!RecordFailure, Sync!SetStatus
<1>8. QED
  BY <1>1, <1>2, <1>3, <1>4, <1>5, <1>6, <1>7 DEF Sync!ReflectStep

LEMMA PaidForStays ==
  ASSUME LinkInv, NothingTakenBack, NEW s, PaidFor(s)
  PROVE  PaidFor(s)'
BY PaidStaysPaid DEF PaidFor

LEMMA PostInit == ASSUME Init PROVE PostInv
<1>1. SyncTypes
  BY DEF Init, Sync!SyncInit, Sync!AtRest, SyncTypes
<1>2. \A d \in Delivery : delivery[d].pc = "wait" /\ reflecting[d].pc = "rest"
  BY DEF Init, Sync!SyncInit, Sync!AtRest, Waiting
<1>3. \A s \in Session : posted[s] = 0
  BY DEF Init, Sync!SyncInit
<1>4. QED
  BY <1>1, <1>2, <1>3 DEF PostInv, PostedIsPaid, ReflectsThePaid, OneCarrier,
     CarriesUnposted, Carries, FromFlip, PostedAtMostOnce

(* Steps that neither deliver nor reflect.                                 *)
LEMMA PostingRests ==
  ASSUME PostInv, LinkInv, NothingTakenBack, UNCHANGED <<delivery, overlapped, syncVars>>
  PROVE  PostInv'
<1>1. PostedIsPaid' /\ ReflectsThePaid'
  BY PaidForStays DEF PostInv, PostedIsPaid, ReflectsThePaid, syncVars
<1>2. OneCarrier' /\ CarriesUnposted'
  BY DEF PostInv, OneCarrier, CarriesUnposted, Carries, syncVars
<1>3. SyncTypes' /\ PostedAtMostOnce'
  BY DEF PostInv, SyncTypes, PostedAtMostOnce, syncVars
<1>4. QED
  BY <1>1, <1>2, <1>3 DEF PostInv

(* Steps that reflect nothing: the delivery that moves goes on with what   *)
(* it carries, or takes up what nobody carries and nobody has posted.      *)
LEMMA PostingStays ==
  ASSUME PostInv, LinkInv, NothingTakenBack, UNCHANGED syncVars,
         NEW d \in Delivery, \A e \in Delivery : e # d => delivery'[e] = delivery[e],
         overlapped \subseteq overlapped',
         delivery'[d].pc # "wait" => reflecting[d].pc = "rest",
         delivery'[d].pc \in FromFlip =>
           \/ delivery'[d].session \in overlapped'
           \/ delivery[d].pc \in FromFlip /\ delivery'[d].session = delivery[d].session
           \/ /\ posted[delivery'[d].session] = 0
              /\ \A e \in Delivery \ {d} : ~Carries(e, delivery'[d].session)
  PROVE  PostInv'
<1>1. PostedIsPaid'
  BY PaidForStays DEF PostInv, PostedIsPaid, syncVars
<1>2. ReflectsThePaid'
  <2>1. \A e \in Delivery : delivery'[e].pc # "wait" => reflecting[e].pc = "rest"
    BY DEF PostInv, ReflectsThePaid
  <2>2. \A e \in Delivery : reflecting[e].pc # "rest" => PaidFor(reflecting[e].payment)'
    BY PaidForStays DEF PostInv, ReflectsThePaid, syncVars
  <2>3. QED
    BY <2>1, <2>2 DEF ReflectsThePaid, syncVars
<1>3. \A s \in Session, e \in Delivery : e # d => (Carries(e, s)' <=> Carries(e, s))
  BY DEF Carries, syncVars
<1>4. ASSUME NEW s \in Session \ overlapped', Carries(d, s)'
      PROVE  \/ Carries(d, s)
             \/ posted[s] = 0 /\ \A e \in Delivery \ {d} : ~Carries(e, s)
  BY <1>4 DEF Carries, syncVars
<1>5. OneCarrier'
  <2> SUFFICES ASSUME NEW s \in Session \ overlapped', NEW e \in Delivery, NEW f \in Delivery,
                      Carries(e, s)', Carries(f, s)', e # f
               PROVE  FALSE
    BY DEF OneCarrier
  <2>1. CASE e # d /\ f # d
    BY <1>3, <2>1 DEF PostInv, OneCarrier
  <2>2. CASE e = d
    BY <1>3, <1>4, <2>2 DEF PostInv, OneCarrier
  <2>3. CASE f = d
    BY <1>3, <1>4, <2>3 DEF PostInv, OneCarrier
  <2>4. QED
    BY <2>1, <2>2, <2>3
<1>6. CarriesUnposted'
  <2> SUFFICES ASSUME NEW s \in Session \ overlapped', NEW e \in Delivery, Carries(e, s)',
                      reflecting[e].pc \in BeforePost \cup {"rest"}
               PROVE  posted[s] = 0
    BY DEF CarriesUnposted, syncVars
  <2>1. CASE e # d
    BY <1>3, <2>1 DEF PostInv, CarriesUnposted
  <2>2. CASE e = d
    BY <1>4, <2>2 DEF PostInv, CarriesUnposted
  <2>3. QED
    BY <2>1, <2>2
<1>7. SyncTypes' /\ PostedAtMostOnce'
  BY DEF PostInv, SyncTypes, PostedAtMostOnce, syncVars
<1>8. QED
  BY <1>1, <1>2, <1>5, <1>6, <1>7 DEF PostInv

(* A step of the reflector.                                                *)
LEMMA PostingStep ==
  ASSUME PostInv, LinkInv, NEW d \in Delivery,
         Sync!ReflectStep(d), UNCHANGED <<links, sessions, delivery, overlapped>>
  PROVE  PostInv'
<1>1. reflecting[d].pc # "rest"
  BY DEF Sync!ReflectStep, Sync!UpsertSyncRow, Sync!ReadSyncRow, Sync!BuryRow,
         Sync!CountAttempt, Sync!PostPayment, Sync!RecordDone, Sync!RecordFailure
<1>2. PICK s \in Session : s = reflecting[d].payment /\ PaidFor(s)
  BY <1>1 DEF PostInv, ReflectsThePaid, PaidFor
<1>3. /\ SyncTypes'
      /\ \A e \in Delivery : e # d => reflecting'[e] = reflecting[e]
      /\ reflecting'[d].pc # "rest" => reflecting'[d].payment = s
      /\ \/ posted' = posted
            /\ (reflecting'[d].pc \in BeforePost => reflecting[d].pc \in BeforePost)
         \/ /\ reflecting[d].pc = "post"
            /\ posted' = [posted EXCEPT ![s] = @ + 1]
            /\ reflecting'[d].pc \in {"done", "failed"}
  BY <1>2, ReflectorStep DEF PostInv
<1>4. delivery[d].pc = "wait" /\ delivery'[d].pc = "wait"
  BY <1>1 DEF PostInv, ReflectsThePaid
<1>5. \A t : PaidFor(t) <=> PaidFor(t)'
  BY DEF PaidFor
<1>6. ReflectsThePaid'
  BY <1>2, <1>3, <1>4, <1>5 DEF PostInv, ReflectsThePaid
<1>7. /\ Carries(d, s)
      /\ \A t \in Session : Carries(d, t)' => t = s /\ reflecting'[d].pc # "rest"
      /\ \A t \in Session, e \in Delivery : e # d => (Carries(e, t)' <=> Carries(e, t))
  BY <1>1, <1>2, <1>3, <1>4 DEF Carries, FromFlip
<1>8. OneCarrier'
  BY <1>7 DEF PostInv, OneCarrier
<1>9. CASE posted' = posted
           /\ (reflecting'[d].pc \in BeforePost => reflecting[d].pc \in BeforePost)
  <2>1. PostedIsPaid' /\ PostedAtMostOnce'
    BY <1>5, <1>9 DEF PostInv, PostedIsPaid, PostedAtMostOnce
  <2>2. CarriesUnposted'
    BY <1>3, <1>7, <1>9 DEF PostInv, CarriesUnposted
  <2>3. QED
    BY <1>3, <1>6, <1>8, <2>1, <2>2 DEF PostInv
<1>10. CASE /\ reflecting[d].pc = "post"
            /\ posted' = [posted EXCEPT ![s] = @ + 1]
            /\ reflecting'[d].pc \in {"done", "failed"}
  <2>1. s \notin overlapped => posted[s] = 0
    BY <1>7, <1>10 DEF PostInv, CarriesUnposted, BeforePost
  <2>2. /\ s \notin overlapped => posted'[s] = 1
        /\ \A t \in Session : t # s => posted'[t] = posted[t]
    BY <1>10, <2>1 DEF PostInv, SyncTypes
  <2>3. PostedIsPaid'
    BY <1>2, <1>5, <2>2 DEF PostInv, PostedIsPaid
  <2>4. PostedAtMostOnce'
    BY <2>2 DEF PostInv, PostedAtMostOnce
  <2>5. CarriesUnposted'
    <3> SUFFICES ASSUME NEW t \in Session \ overlapped, NEW e \in Delivery, Carries(e, t)',
                        reflecting'[e].pc \in BeforePost \cup {"rest"}
                 PROVE  posted'[t] = 0
      BY DEF CarriesUnposted
    <3>1. e # d
      BY <1>7, <1>10 DEF BeforePost
    <3>2. t # s
      BY <1>7, <3>1 DEF PostInv, OneCarrier
    <3>3. QED
      BY <1>3, <1>7, <2>2, <3>1, <3>2 DEF PostInv, CarriesUnposted
  <2>6. QED
    BY <1>3, <1>6, <1>8, <2>3, <2>4, <2>5 DEF PostInv
<1>11. QED
  BY <1>3, <1>9, <1>10

(* Who carries a payment whose link is unpaid is about to flip it.         *)
LEMMA UnpaidCarrierFlips ==
  ASSUME DeliveriesArePaid, PostInv, NEW s \in Session, NEW e \in Delivery,
         Carries(e, s), links[sessions[s].link].status # "paid"
  PROVE  delivery[e].pc = "flip" /\ delivery[e].session = s
<1>1. ~(reflecting[e].pc # "rest" /\ reflecting[e].payment = s)
  BY DEF PostInv, ReflectsThePaid, PaidFor
<1>2. delivery[e].pc \in FromFlip /\ delivery[e].session = s
  BY <1>1 DEF Carries
<1>3. QED
  BY <1>2 DEF DeliveriesArePaid, DeliveryIsPaid, FromFlip

LEMMA ResolvePosts ==
  ASSUME FeeInv, PostInv, NEW d \in Delivery, ResolveLink(d)
  PROVE  PostInv'
<1> LinkInv /\ PayoutTypeOK /\ delivery \in Deliveries /\ DeliveriesArePaid
  BY DEF FeeInv
<1>1. NothingTakenBack /\ UNCHANGED syncVars
  BY NothingChangesLinks DEF ResolveLink
<1>2. PICK s \in Session : s = delivery[d].session /\ sessions[s].state = "collected"
  BY DEF ResolveLink, DeliveriesArePaid, DeliveryIsPaid
<1>3. LinkOf(s) = sessions[s].link
  BY <1>2, LinkOfSession
<1>4. reflecting[d].pc = "rest"
  BY DEF ResolveLink, PostInv, ReflectsThePaid
<1>5. CASE /\ Unpaid(LinkOf(s))
           /\ delivery' = [delivery EXCEPT ![d].pc = "flip", ![d].link = LinkOf(s)]
           /\ overlapped' = IF IsOvertaking(d) THEN overlapped \cup {s} ELSE overlapped
  <2>1. /\ delivery'[d].pc = "flip" /\ delivery'[d].session = s
        /\ \A e \in Delivery : e # d => delivery'[e] = delivery[e]
    BY <1>2, <1>5 DEF Deliveries
  <2>2. links[sessions[s].link].status # "paid"
    BY <1>3, <1>5 DEF Unpaid
  <2>3. posted[s] = 0
    BY <2>2 DEF PostInv, SyncTypes, PostedIsPaid, PaidFor
  <2>4. s \in overlapped' \/ \A e \in Delivery \ {d} : ~Carries(e, s)
    BY <1>2, <1>5, <2>2, UnpaidCarrierFlips DEF IsOvertaking
  <2>5. overlapped \subseteq overlapped'
    BY <1>5
  <2>6. QED
    BY <1>1, <1>4, <2>1, <2>3, <2>4, <2>5, PostingStays
<1>6. CASE delivery' = [delivery EXCEPT ![d] = Waiting] /\ UNCHANGED overlapped
  <2>1. /\ delivery'[d].pc = "wait"
        /\ \A e \in Delivery : e # d => delivery'[e] = delivery[e]
    BY <1>6 DEF Deliveries, Waiting
  <2>2. QED
    BY <1>1, <1>6, <2>1, PostingStays DEF FromFlip
<1>7. QED
  BY <1>2, <1>5, <1>6 DEF ResolveLink

(* The delivery hands what it carries to the reflector, or drops it.       *)
LEMMA ReflectPosts ==
  ASSUME FeeInv, PostInv, NEW d \in Delivery, Reflect(d)
  PROVE  PostInv'
<1> LinkInv /\ delivery \in Deliveries /\ DeliveriesArePaid
  BY DEF FeeInv
<1>1. PICK s \in Session : s = delivery[d].session /\ PaidFor(s) /\ Carries(d, s)
  BY DEF Reflect, DeliveriesArePaid, DeliveryIsPaid, PaidFor, Carries, FromFlip
<1>2. /\ UNCHANGED <<syncRow, posted, links, sessions, overlapped>>
      /\ delivery'[d].pc = "wait" /\ reflecting[d].pc = "rest"
      /\ \A e \in Delivery : e # d => delivery'[e] = delivery[e]
  BY DEF Reflect, Sync!StartReflecting, Deliveries, Waiting, linkVars
<1>3. \/ reflecting' = reflecting
      \/ reflecting' = [reflecting EXCEPT ![d] =
                          [pc |-> "upsert", payment |-> s, attempts |-> 0]]
  BY <1>1 DEF Reflect, Sync!StartReflecting
<1>4. SyncTypes'
  BY <1>2, <1>3 DEF PostInv, SyncTypes
<1>5. /\ \/ reflecting'[d] = reflecting[d]
         \/ reflecting'[d].pc = "upsert" /\ reflecting'[d].payment = s
      /\ \A e \in Delivery : e # d => reflecting'[e] = reflecting[e]
  BY <1>3 DEF PostInv, SyncTypes
<1>6. PostedIsPaid' /\ PostedAtMostOnce'
  BY <1>2 DEF PostInv, PostedIsPaid, PostedAtMostOnce, PaidFor
<1>7. ReflectsThePaid'
  BY <1>1, <1>2, <1>5 DEF PostInv, ReflectsThePaid, PaidFor
<1>8. /\ \A t \in Session : Carries(d, t)' => t = s
      /\ \A t \in Session, e \in Delivery : e # d => (Carries(e, t)' <=> Carries(e, t))
  BY <1>2, <1>5 DEF Carries, FromFlip
<1>9. OneCarrier'
  BY <1>1, <1>2, <1>8 DEF PostInv, OneCarrier
<1>10. CarriesUnposted'
  BY <1>1, <1>2, <1>5, <1>8 DEF PostInv, CarriesUnposted
<1>11. QED
  BY <1>4, <1>6, <1>7, <1>9, <1>10 DEF PostInv

LEMMA DeathPosts ==
  ASSUME FeeInv, PostInv, NEW d \in Delivery, DeliveryDies(d)
  PROVE  PostInv'
<1> delivery \in Deliveries
  BY DEF FeeInv
<1>1. /\ UNCHANGED <<syncRow, posted, links, sessions, overlapped>>
      /\ delivery'[d].pc = "wait"
      /\ \A e \in Delivery : e # d => delivery'[e] = delivery[e]
      /\ reflecting' = [reflecting EXCEPT ![d] = Sync!AtRest]
  BY DEF DeliveryDies, Deliveries, Waiting, linkVars
<1>2. /\ reflecting'[d].pc = "rest"
      /\ \A e \in Delivery : e # d => reflecting'[e] = reflecting[e]
  BY <1>1 DEF PostInv, SyncTypes, Sync!AtRest
<1>3. SyncTypes'
  BY <1>1 DEF PostInv, SyncTypes, Sync!AtRest
<1>4. PostedIsPaid' /\ PostedAtMostOnce'
  BY <1>1 DEF PostInv, PostedIsPaid, PostedAtMostOnce, PaidFor
<1>5. ReflectsThePaid'
  BY <1>1, <1>2 DEF PostInv, ReflectsThePaid, PaidFor
<1>6. /\ \A t \in Session : ~Carries(d, t)'
      /\ \A t \in Session, e \in Delivery : e # d => (Carries(e, t)' <=> Carries(e, t))
  BY <1>1, <1>2 DEF Carries, FromFlip
<1>7. OneCarrier'
  BY <1>1, <1>6 DEF PostInv, OneCarrier
<1>8. CarriesUnposted'
  BY <1>1, <1>2, <1>6 DEF PostInv, CarriesUnposted
<1>9. QED
  BY <1>3, <1>4, <1>5, <1>7, <1>8 DEF PostInv

LEMMA PostStep ==
  ASSUME FeeInv, PostInv, [Next]_checkoutVars
  PROVE  PostInv'
<1> LinkInv /\ PayoutTypeOK /\ delivery \in Deliveries /\ DeliveriesArePaid
  BY DEF FeeInv
<1>1. ASSUME NothingTakenBack, UNCHANGED <<delivery, overlapped, syncVars>>
      PROVE  PostInv'
  BY <1>1, PostingRests
<1>2. CASE LinkNext /\ UNCHANGED <<captureVars, syncVars>>
  BY <1>1, <1>2, LinkNextStep DEF captureVars
<1>3. ASSUME NEW d \in Delivery, NEW s \in Session, Deliver(d, s)
      PROVE  PostInv'
  <2>1. NothingTakenBack /\ UNCHANGED <<overlapped, syncVars>>
    BY <1>3, NothingChangesLinks DEF Deliver
  <2>2. /\ reflecting[d].pc = "rest" /\ delivery'[d].pc = "resolve"
        /\ \A e \in Delivery : e # d => delivery'[e] = delivery[e]
    BY <1>3 DEF Deliver, Deliveries
  <2>3. QED
    BY <2>1, <2>2, PostingStays DEF FromFlip
<1>4. ASSUME NEW d \in Delivery, FlipLink(d)
      PROVE  PostInv'
  <2>1. delivery[d].link \in Link
    BY <1>4 DEF FlipLink, DeliveriesArePaid, DeliveryIsPaid, LinkInv, SessionsHaveLinks
  <2>2. reflecting[d].pc = "rest" /\ delivery[d].pc \in FromFlip
    BY <1>4 DEF FlipLink, PostInv, ReflectsThePaid, FromFlip
  <2>3. UNCHANGED <<sessions, visiting, overlapped, syncVars>>
    BY <1>4 DEF FlipLink
  <2>4. NothingTakenBack
    <3>1. CASE links' = [links EXCEPT ![delivery[d].link].status = "paid"]
      BY <2>1, <2>3, <3>1, FlipTakesNothingBack
    <3>2. CASE UNCHANGED links
      BY <2>3, <3>2 DEF NothingTakenBack
    <3>3. QED
      BY <1>4, <3>1, <3>2 DEF FlipLink
  <2>5. /\ delivery'[d].pc = "wait" \/ delivery'[d].session = delivery[d].session
        /\ \A e \in Delivery : e # d => delivery'[e] = delivery[e]
    BY <1>4 DEF FlipLink, Deliveries, Waiting
  <2>6. QED
    BY <2>2, <2>3, <2>4, <2>5, PostingStays DEF FromFlip
<1>5. ASSUME NEW d \in Delivery, LookUpInvoice(d) \/ CaptureFee(d)
      PROVE  PostInv'
  <2>1. NothingTakenBack /\ UNCHANGED <<overlapped, syncVars>>
    BY <1>5, NothingChangesLinks DEF LookUpInvoice, CaptureFee
  <2>2. reflecting[d].pc = "rest" /\ delivery[d].pc \in FromFlip
    BY <1>5 DEF LookUpInvoice, CaptureFee, PostInv, ReflectsThePaid, FromFlip
  <2>3. /\ delivery'[d].pc = "wait" \/ delivery'[d].session = delivery[d].session
        /\ \A e \in Delivery : e # d => delivery'[e] = delivery[e]
    BY <1>5 DEF LookUpInvoice, CaptureFee, Deliveries, Waiting
  <2>4. QED
    BY <2>1, <2>2, <2>3, PostingStays DEF FromFlip
<1>6. ASSUME NEW d \in Delivery, ReflectGoesOn(d)
      PROVE  PostInv'
  BY <1>6, PostingStep DEF ReflectGoesOn, captureVars, linkVars
<1>7. ASSUME NEW s \in Session, QuickBooksReports(s)
      PROVE  PostInv'
  BY <1>1, <1>7, NothingChangesLinks DEF QuickBooksReports
<1>8. CASE UNCHANGED checkoutVars
  BY <1>1, <1>8, NothingChangesLinks DEF checkoutVars, captureVars
<1>9. QED
  BY <1>2, <1>3, <1>4, <1>5, <1>6, <1>7, <1>8, ResolvePosts, ReflectPosts, DeathPosts
     DEF Next, Handle

(* However many deliveries of a payment there are, dying and repeated as   *)
(* they may, it is posted to QuickBooks at most once, unless two of them   *)
(* found the link unpaid before either flipped it: the link says 'paid'    *)
(* before anything is posted, and a paid link's payment is not handled     *)
(* again.  ledger_sync's own guards play no part in it.                    *)
THEOREM OnePostingPerPayment == Spec => []PostedAtMostOnce
<1>1. Init => FeeInv /\ PostInv
  BY FeeInit, PostInit
<1>2. ASSUME FeeInv, PostInv, [Next]_checkoutVars
      PROVE  FeeInv' /\ PostInv'
  BY <1>2, FeeStep, PostStep
<1>3. PostInv => PostedAtMostOnce
  BY DEF PostInv
<1>4. QED
  BY <1>1, <1>2, <1>3, PTL DEF Spec

=============================================================================
