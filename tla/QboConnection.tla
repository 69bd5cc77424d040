--------------------------- MODULE QboConnection ----------------------------
(***************************************************************************)
(* A subscriber's connection to QuickBooks: the OAuth consent with its     *)
(* sealed state cookie, the row of connected_accounts with its rotating    *)
(* refresh token, and the disconnect.  Every request reads the row, talks  *)
(* to Intuit and writes the row without a lock.  Two subscribers may use   *)
(* one browser in turn.  The name that QuickBooks suggests for a business  *)
(* is here too, because the callback writes it.                            *)
(***************************************************************************)
EXTENDS Naturals

CONSTANTS
  Subscriber,
  Realm,          \* QuickBooks companies
  NoRealm,        \* external_id is NULL
  Consent,        \* visits to Intuit's consent page, each with its state nonce
  NoConsent,
  Refresher,      \* requests that may refresh a token at the same time
  MaxGen          \* bound: how often the tokens of one consent rotate

VARIABLES
  conn,           \* connected_accounts: realm, refresh token, flag, old realm
  intuit,         \* what Intuit keeps of each consent
  browser,        \* who is signed in, and the consent in the state cookie
  consenting,     \* where each consent is, and whose it was when it began
  refreshing,     \* where each refresh is, with the row it has read
  leaving,        \* where each subscriber's disconnect is
  bizName,        \* subscribers.business_name
  consented,      \* ghost: the subscriber's last word was a consent
  lost            \* history: the consents whose latest token nobody has stored

qboVars == <<conn, intuit, browser, consenting, refreshing, leaving, bizName,
             consented, lost>>

ASSUME QboAssumption ==
  NoRealm \notin Realm /\ NoConsent \notin Consent /\ MaxGen \in Nat \ {0}

(* A refresh token is one generation of the tokens of a consent.           *)
Token == [consent : Consent \cup {NoConsent}, gen : 0 .. MaxGen]
NoToken == [consent |-> NoConsent, gen |-> 0]

ConnRow ==
  [realm : Realm \cup {NoRealm}, token : Token, flagged : BOOLEAN,
   former : Realm \cup {NoRealm}]

NoConnection ==
  [realm |-> NoRealm, token |-> NoToken, flagged |-> FALSE, former |-> NoRealm]

IdleRefresh == [pc |-> "idle", row |-> NoConnection, of |-> "none"]

ConnTypeOK ==
  /\ conn \in [Subscriber -> ConnRow]
  /\ intuit \in [Consent -> [realm : Realm \cup {NoRealm}, gen : 0 .. MaxGen,
                             dead : BOOLEAN]]
  /\ browser \in [user : Subscriber, cookie : Consent \cup {NoConsent},
                  stale : BOOLEAN]
  /\ consenting \in [Consent ->
       [pc : {"unused", "page", "exchanged", "stored", "suggest", "over"},
        by : Subscriber \cup {"none"}, as : Subscriber \cup {"none"}]]
  /\ refreshing \in [Refresher ->
       [pc : {"idle", "grant", "store", "flag"}, row : ConnRow,
        of : Subscriber \cup {"none"}]]
  /\ leaving \in [Subscriber -> [pc : {"idle", "void"},
                                 realm : Realm \cup {NoRealm}]]
  /\ bizName \in [Subscriber -> {"", "suggested", "chosen"}]
  /\ consented \in [Subscriber -> BOOLEAN] /\ lost \subseteq Consent

ConnInit ==
  /\ conn = [u \in Subscriber |-> NoConnection]
  /\ intuit = [n \in Consent |-> [realm |-> NoRealm, gen |-> 0, dead |-> FALSE]]
  /\ \E u \in Subscriber : browser = [user |-> u, cookie |-> NoConsent,
                                      stale |-> FALSE]
  /\ consenting = [n \in Consent |-> [pc |-> "unused", by |-> "none", as |-> "none"]]
  /\ refreshing = [r \in Refresher |-> IdleRefresh]
  /\ leaving = [u \in Subscriber |-> [pc |-> "idle", realm |-> NoRealm]]
  /\ bizName = [u \in Subscriber |-> ""]
  /\ consented = [u \in Subscriber |-> FALSE]
  /\ lost = {}

-----------------------------------------------------------------------------
(* GET /api/qbo/connect, Intuit's page, and GET /api/qbo/callback.         *)

SignIn(u) ==
  /\ browser.user # u
  /\ browser' = [browser EXCEPT !.user = u]
  /\ UNCHANGED <<conn, intuit, consenting, refreshing, leaving, bizName,
                 consented, lost>>

(* The cookie seals the nonce and the subscriber; one cookie per browser,  *)
(* so that a second tab replaces the first one's.                          *)
StartConnect(n) ==
  /\ consenting[n].pc = "unused"
  /\ consenting' = [consenting EXCEPT ![n].pc = "page", ![n].by = browser.user]
  /\ browser' = [browser EXCEPT !.cookie = n, !.stale = FALSE]
  /\ UNCHANGED <<conn, intuit, refreshing, leaving, bizName, consented, lost>>

(* Ten minutes, in the payload and in the cookie.                          *)
CookieExpires ==
  /\ browser.cookie # NoConsent /\ ~browser.stale
  /\ browser' = [browser EXCEPT !.stale = TRUE]
  /\ UNCHANGED <<conn, intuit, consenting, refreshing, leaving, bizName,
                 consented, lost>>

(* Mutant: the nonce alone is compared.                                    *)
SameNonce(n) == browser.cookie = n /\ ~browser.stale

IsStateValid(n) ==
  /\ browser.cookie = n
  /\ ~browser.stale
  /\ consenting[n].by = browser.user

(* Mutant: the cookie is emptied, not deleted.                             *)
EmptyCookie == browser' = [browser EXCEPT !.cookie = "empty"]

ClearCookie == browser' = [browser EXCEPT !.cookie = NoConsent]

(* The user denies, the state is not valid, or the exchange fails.         *)
CallbackRefuses(n) ==
  /\ consenting[n].pc = "page"
  /\ consenting' = [consenting EXCEPT ![n].pc = "over"]
  /\ ClearCookie
  /\ UNCHANGED <<conn, intuit, refreshing, leaving, bizName, consented, lost>>

(* The code is exchanged for the first tokens, on behalf of who is signed  *)
(* in now; the cookie goes with the response.                              *)
CallbackExchanges(n, realm) ==
  /\ consenting[n].pc = "page"
  /\ IsStateValid(n)
  /\ intuit' = [intuit EXCEPT ![n] = [realm |-> realm, gen |-> 1, dead |-> FALSE]]
  /\ consenting' = [consenting EXCEPT ![n].pc = "exchanged",
                                      ![n].as = browser.user]
  /\ ClearCookie
  /\ UNCHANGED <<conn, refreshing, leaving, bizName, consented, lost>>

(* The upsert of the whole row, meta included; it may fail.                *)
CallbackStores(n) ==
  LET u == consenting[n].as IN
  /\ consenting[n].pc = "exchanged"
  /\ \/ /\ conn' = [conn EXCEPT ![u] =
             [realm |-> intuit[n].realm, token |-> [consent |-> n, gen |-> 1],
              flagged |-> FALSE, former |-> NoRealm]]
        /\ consented' = [consented EXCEPT ![u] = TRUE]
        /\ consenting' = [consenting EXCEPT ![n].pc = "stored"]
     \/ /\ consenting' = [consenting EXCEPT ![n].pc = "over"]
        /\ UNCHANGED <<conn, consented>>
  /\ UNCHANGED <<intuit, browser, refreshing, leaving, bizName, lost>>

-----------------------------------------------------------------------------
(* prefillBusinessNameFromQbo: a name is suggested only where there is     *)
(* none, and whatever fails, the connect has succeeded.                    *)

PrefillReads(n) ==
  /\ consenting[n].pc = "stored"
  /\ \/ /\ bizName[consenting[n].as] = ""
        /\ consenting' = [consenting EXCEPT ![n].pc = "suggest"]
     \/ consenting' = [consenting EXCEPT ![n].pc = "over"]
  /\ UNCHANGED <<conn, intuit, browser, refreshing, leaving, bizName,
                 consented, lost>>

(* getCompanyName: the name of the connected company, when it has one.     *)
CompanyName == "suggested"

(* Mutant: the update is not guarded by the name that was read.            *)
Suggest(current) == CompanyName

SuggestIfUnchanged(current) == IF current = "" THEN CompanyName ELSE current

PrefillWrites(n) ==
  /\ consenting[n].pc = "suggest"
  /\ bizName' \in {bizName, [bizName EXCEPT ![consenting[n].as] =
                               SuggestIfUnchanged(@)]}
  /\ consenting' = [consenting EXCEPT ![n].pc = "over"]
  /\ UNCHANGED <<conn, intuit, browser, refreshing, leaving, consented, lost>>

(* POST /api/settings/business-name.                                       *)
SaveBusinessName(u) ==
  /\ browser.user = u
  /\ bizName' = [bizName EXCEPT ![u] = "chosen"]
  /\ UNCHANGED <<conn, intuit, browser, consenting, refreshing, leaving,
                 consented, lost>>

-----------------------------------------------------------------------------
(* getValidAccessToken within five minutes of expiry, and                  *)
(* refreshAccessToken after a 401.                                         *)

(* loadConnection: a realm and both tokens, or an error.                   *)
Loadable(row) == row.realm # NoRealm /\ row.token # NoToken

RefreshReads(r, u) ==
  /\ refreshing[r].pc = "idle"
  /\ Loadable(conn[u])
  /\ refreshing' = [refreshing EXCEPT ![r] =
                      [pc |-> "grant", row |-> conn[u], of |-> u]]
  /\ UNCHANGED <<conn, intuit, browser, consenting, leaving, bizName,
                 consented, lost>>

Live(token) == ~intuit[token.consent].dead /\ intuit[token.consent].gen = token.gen

(* Intuit rotates the token; its answer arrives, or is lost or cannot be   *)
(* read, and then the row keeps the token that no longer counts.  Or it    *)
(* answers invalid_grant to a dead or an older token; or fails in another  *)
(* way before it has rotated anything.                                     *)
RefreshGrant(r) ==
  LET token == refreshing[r].row.token IN
  /\ refreshing[r].pc = "grant"
  /\ \/ /\ Live(token) /\ token.gen < MaxGen
        /\ intuit' = [intuit EXCEPT ![token.consent].gen = @ + 1]
        /\ \/ /\ refreshing' = [refreshing EXCEPT ![r].pc = "store"]
              /\ UNCHANGED lost
           \/ /\ refreshing' = [refreshing EXCEPT ![r] = IdleRefresh]
              /\ lost' = lost \cup {token.consent}
     \/ /\ ~Live(token)
        /\ refreshing' = [refreshing EXCEPT ![r].pc = "flag"]
        /\ UNCHANGED <<intuit, lost>>
     \/ /\ refreshing' = [refreshing EXCEPT ![r] = IdleRefresh]
        /\ UNCHANGED <<intuit, lost>>
  /\ UNCHANGED <<conn, browser, consenting, leaving, bizName, consented>>

(* Mutant: the refresh token that came with the answer is dropped.         *)
KeepToken(now, row) == [now EXCEPT !.token = row.token, !.former = row.former]

(* Mutant: the row is written whole, realm included.                       *)
UpsertRotated(now, row) ==
  [now EXCEPT !.token = [row.token EXCEPT !.gen = @ + 1], !.realm = row.realm,
              !.former = row.former]

(* The new tokens, and the meta of the row as it was read; neither the     *)
(* realm nor the flag.                                                     *)
Rotated(now, row) ==
  [now EXCEPT !.token = [row.token EXCEPT !.gen = @ + 1], !.former = row.former]

(* By subscriber alone.  A failed update loses the only live token.        *)
RefreshStores(r) ==
  LET u == refreshing[r].of IN
  /\ refreshing[r].pc = "store"
  /\ \/ /\ conn' = [conn EXCEPT ![u] = Rotated(@, refreshing[r].row)]
        /\ UNCHANGED lost
     \/ UNCHANGED conn /\ lost' = lost \cup {refreshing[r].row.token.consent}
  /\ refreshing' = [refreshing EXCEPT ![r] = IdleRefresh]
  /\ UNCHANGED <<intuit, browser, consenting, leaving, bizName, consented>>

(* Needs reconnect: disconnected_at is set, if the update does not fail.   *)
RefreshFlags(r) ==
  /\ refreshing[r].pc = "flag"
  /\ conn' \in {conn, [conn EXCEPT ![refreshing[r].of].flagged = TRUE]}
  /\ refreshing' = [refreshing EXCEPT ![r] = IdleRefresh]
  /\ UNCHANGED <<intuit, browser, consenting, leaving, bizName, consented, lost>>

(* The owner of the books revokes the access, or it lapses.                *)
GrantDies(n) ==
  /\ intuit[n].gen > 0 /\ ~intuit[n].dead
  /\ intuit' = [intuit EXCEPT ![n].dead = TRUE]
  /\ UNCHANGED <<conn, browser, consenting, refreshing, leaving, bizName,
                 consented, lost>>

-----------------------------------------------------------------------------
(* POST /api/qbo/disconnect.                                               *)

DisconnectReads(u) ==
  /\ browser.user = u
  /\ leaving[u].pc = "idle"
  /\ conn[u].realm # NoRealm
  /\ leaving' = [leaving EXCEPT ![u] = [pc |-> "void", realm |-> conn[u].realm]]
  /\ UNCHANGED <<conn, intuit, browser, consenting, refreshing, bizName,
                 consented, lost>>

DisconnectVoids(u) ==
  /\ leaving[u].pc = "void"
  /\ \/ /\ conn' = [conn EXCEPT ![u] =
             [realm |-> NoRealm, token |-> NoToken, flagged |-> TRUE,
              former |-> leaving[u].realm]]
        /\ consented' = [consented EXCEPT ![u] = FALSE]
     \/ UNCHANGED <<conn, consented>>
  /\ leaving' = [leaving EXCEPT ![u] = [pc |-> "idle", realm |-> NoRealm]]
  /\ UNCHANGED <<intuit, browser, consenting, refreshing, bizName, lost>>

(* What GET /api/qbo/status and GET /api/sources make of the row.          *)
Connected(u) == conn[u].realm # NoRealm

ConnNext ==
  \/ \E u \in Subscriber : SignIn(u) \/ SaveBusinessName(u)
                             \/ DisconnectReads(u) \/ DisconnectVoids(u)
  \/ CookieExpires
  \/ \E n \in Consent : \/ StartConnect(n) \/ CallbackRefuses(n)
                        \/ \E realm \in Realm : CallbackExchanges(n, realm)
                        \/ CallbackStores(n) \/ PrefillReads(n)
                        \/ PrefillWrites(n) \/ GrantDies(n)
  \/ \E r \in Refresher : \/ \E u \in Subscriber : RefreshReads(r, u)
                          \/ RefreshGrant(r) \/ RefreshStores(r) \/ RefreshFlags(r)

ConnSpec == ConnInit /\ [][ConnNext]_qboVars

-----------------------------------------------------------------------------
(* Who disconnects stays disconnected: no refresh that was under way makes *)
(* the connection come back; only another consent does.                    *)
ConnectedByConsent == \A u \in Subscriber : Connected(u) => consented[u]

(* The tokens on a subscriber's row come from a consent that the same      *)
(* subscriber began, also when two of them take turns at one browser.      *)
TokensAreOwn ==
  \A u \in Subscriber :
    conn[u].token # NoToken => consenting[conn[u].token.consent].by = u

(* The stored refresh token is the one that Intuit honours, unless a       *)
(* refresh is about to replace that very token, the access was revoked, or *)
(* Intuit's answer or the update with it has been lost: a rotation is      *)
(* never forgotten, also when refreshes overlap each other, a consent or a *)
(* disconnect, as Intuit refuses a token that rotated.                     *)
StoredTokenIsLive ==
  \A u \in Subscriber :
    LET token == conn[u].token IN
    (/\ Loadable(conn[u])
     /\ token.consent \notin lost /\ ~intuit[token.consent].dead
     /\ \A r \in Refresher : ~(refreshing[r].pc = "store" /\ refreshing[r].row.token = token))
    => Live(token)

(* A name that the subscriber has chosen is never replaced by the one that *)
(* QuickBooks suggests, whichever is saved while the other is under way.   *)
ChosenNameStays ==
  [][\A u \in Subscriber : bizName[u] = "chosen" => bizName'[u] = "chosen"]_qboVars

=============================================================================
