--------------------------- MODULE PayoutAccount ----------------------------
(***************************************************************************)
(* The Stripe Express account that recovered money is paid out to: the     *)
(* one payout_accounts row of a subscriber, the accounts Stripe keeps, and *)
(* the routes that onboard, refresh and disconnect it.  Every route reads  *)
(* the row, calls Stripe and writes the row with no lock in between, so    *)
(* that requests of two browser tabs overlap.                              *)
(***************************************************************************)
EXTENDS Naturals, FiniteSets

CONSTANTS
  Account,        \* Express accounts that Stripe may create (acct_...)
  NoAccount,      \* provider_account_id is NULL, or there is no row
  Onboarding,     \* concurrent POST or GET /api/connect/onboard
  StatusCheck,    \* concurrent GET /api/connect/status
  AccountMoves    \* may Stripe change its mind about an enabled account

VARIABLES
  payout,         \* payout_accounts: account, status, disposition
  express,        \* what Stripe thinks of each account
  onboarding,     \* the local state of each onboarding request
  checking,       \* the local state of each status request
  approved,       \* history: accounts whose charges Stripe has enabled
  misjudged       \* history: accounts given the status read of another one

payoutHistory == <<approved, misjudged>>
payoutVars == <<payout, express, onboarding, checking, payoutHistory>>

ASSUME PayoutAssumption ==
  NoAccount \notin Account /\ IsFiniteSet(Account) /\ AccountMoves \in BOOLEAN

(* "new": no details yet.  "reviewed": details submitted, charges not yet  *)
(* enabled.  "disabled": Stripe gives a disabled_reason.                   *)
ExpressState == {"none", "new", "reviewed", "enabled", "disabled"}

PayoutRow ==
  [account : Account \cup {NoAccount},
   status : {"not_started", "pending", "complete", "restricted", "disconnected"},
   disposition : {"null", "void", "keep"}]

IdleRequest == [pc |-> "idle", account |-> NoAccount, status |-> "not_started"]
Request ==
  [pc : {"idle", "reset", "create", "persist", "retrieve", "update"},
   account : Account \cup {NoAccount}, status : {"not_started", "pending",
     "complete", "restricted", "disconnected"}]

PayoutTypeOK ==
  /\ payout \in PayoutRow
  /\ express \in [Account -> ExpressState]
  /\ onboarding \in [Onboarding -> Request]
  /\ checking \in [StatusCheck -> Request]
  /\ approved \subseteq Account /\ misjudged \subseteq Account \cup {NoAccount}

(* A subscriber who has no account yet, or who has finished onboarding.    *)
PayoutInit ==
  /\ \/ /\ payout = [account |-> NoAccount, status |-> "not_started",
                     disposition |-> "null"]
        /\ express = [a \in Account |-> "none"] /\ approved = {}
     \/ \E a \in Account :
          /\ payout = [account |-> a, status |-> "complete", disposition |-> "null"]
          /\ express = [b \in Account |-> IF b = a THEN "enabled" ELSE "none"]
          /\ approved = {a}
  /\ misjudged = {}
  /\ onboarding = [o \in Onboarding |-> IdleRequest]
  /\ checking = [q \in StatusCheck |-> IdleRequest]

-----------------------------------------------------------------------------
(* POST /api/connect/onboard, and GET when Stripe sends the browser back.  *)

OnboardReads(o) ==
  /\ onboarding[o].pc = "idle"
  /\ payout.status # "complete"
  /\ payout.status = "disconnected" \/ payout.account = NoAccount
  /\ onboarding' = [onboarding EXCEPT ![o].pc =
       IF payout.status = "disconnected" THEN "reset" ELSE "create"]
  /\ UNCHANGED <<payout, express, checking, payoutHistory>>

(* A reconnect is 'pending' until the status is refreshed; the disposition *)
(* of the links stays, for the warning it drives.  The row has an account. *)
OnboardResets(o) ==
  /\ onboarding[o].pc = "reset"
  /\ payout' \in {payout, [payout EXCEPT !.status = "pending"]}
  /\ onboarding' = [onboarding EXCEPT ![o] = IdleRequest]
  /\ UNCHANGED <<express, checking, payoutHistory>>

(* The call carries no idempotency key: one more call, one more account.   *)
StripeCreates(a) == express[a] = "none" /\ express' = [express EXCEPT ![a] = "new"]

(* It may also fail.                                                       *)
CreateExpressAccount(o) ==
  /\ onboarding[o].pc = "create"
  /\ \/ /\ onboarding' = [onboarding EXCEPT ![o] = IdleRequest]
        /\ UNCHANGED express
     \/ \E a \in Account :
          /\ StripeCreates(a)
          /\ onboarding' = [onboarding EXCEPT ![o].pc = "persist", ![o].account = a]
  /\ UNCHANGED <<payout, checking, payoutHistory>>

(* The upsert on (subscriber_id, provider), which may fail: the account is *)
(* then Stripe's alone.  The onboarding link is minted on the way out.     *)
PersistAccount(o) ==
  /\ onboarding[o].pc = "persist"
  /\ payout' \in {payout, [payout EXCEPT !.account = onboarding[o].account,
                                         !.status = "pending"]}
  /\ onboarding' = [onboarding EXCEPT ![o] = IdleRequest]
  /\ UNCHANGED <<express, checking, payoutHistory>>

(* The subscriber fills in Stripe's forms, and Stripe thinks again.        *)
StripeReviews(a) ==
  /\ express[a] # "none"
  /\ express[a] # "enabled" \/ AccountMoves
  /\ \E x \in {"reviewed", "enabled", "disabled"} :
       /\ express' = [express EXCEPT ![a] = x]
       /\ approved' = IF x = "enabled" THEN approved \cup {a} ELSE approved
  /\ UNCHANGED <<payout, onboarding, checking, misjudged>>

-----------------------------------------------------------------------------
(* GET /api/connect/status.                                                *)

(* Without an account, or once disconnected, Stripe is not asked.          *)
StatusReads(q) ==
  /\ checking[q].pc = "idle"
  /\ payout.account # NoAccount
  /\ payout.status # "disconnected"
  /\ checking' = [checking EXCEPT ![q] =
       [pc |-> "retrieve", account |-> payout.account, status |-> payout.status]]
  /\ UNCHANGED <<payout, express, onboarding, payoutHistory>>

(* Mutant: submitted details are taken for enabled charges.                *)
StandingBySubmission(x) ==
  CASE x \in {"enabled", "reviewed"} -> "complete"
    [] x = "disabled" -> "restricted"
    [] OTHER -> "pending"

Standing(x) ==
  CASE x = "enabled" -> "complete"
    [] x \in {"disabled", "reviewed"} -> "restricted"
    [] OTHER -> "pending"

(* retrieveAccount: the row is written only if what was read differs.      *)
RetrieveAccount(q) ==
  LET standing == Standing(express[checking[q].account]) IN
  /\ checking[q].pc = "retrieve"
  /\ checking' = [checking EXCEPT ![q] =
       IF standing = checking[q].status THEN IdleRequest
       ELSE [@ EXCEPT !.pc = "update", !.status = standing]]
  /\ UNCHANGED <<payout, express, onboarding, payoutHistory>>

(* By subscriber alone: whatever the row says by now, and whatever account *)
(* it names.  It may fail.                                                 *)
PersistStatus(q) ==
  /\ checking[q].pc = "update"
  /\ \/ /\ payout' = [payout EXCEPT !.status = checking[q].status]
        /\ misjudged' = IF checking[q].account = payout.account THEN misjudged
                        ELSE misjudged \cup {payout.account}
     \/ UNCHANGED <<payout, misjudged>>
  /\ checking' = [checking EXCEPT ![q] = IdleRequest]
  /\ UNCHANGED <<express, onboarding, approved>>

PayoutNext ==
  \/ \E o \in Onboarding : OnboardReads(o) \/ OnboardResets(o)
                             \/ CreateExpressAccount(o) \/ PersistAccount(o)
  \/ \E q \in StatusCheck : StatusReads(q) \/ RetrieveAccount(q) \/ PersistStatus(q)
  \/ \E a \in Account : StripeReviews(a)

=============================================================================
