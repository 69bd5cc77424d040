------------------------ MODULE QboConnectionProofs -------------------------
(***************************************************************************)
(* What holds of QboConnection for every number of subscribers, consents   *)
(* and refreshes: tokens stay with who consented, a connection stands on   *)
(* a consent, a chosen name stays, and the stored token is the live one    *)
(* unless an answer or an update was lost.                                 *)
(***************************************************************************)
EXTENDS QboConnection, TLAPS

(***************************************************************************)
(* Types.  The parts that other parts read; who began a consent is a       *)
(* subscriber once it has begun.                                           *)
(***************************************************************************)
IntuitOK ==
  intuit \in [Consent -> [realm : Realm \cup {NoRealm}, gen : 0 .. MaxGen,
                          dead : BOOLEAN]]

BrowserOK ==
  browser \in [user : Subscriber, cookie : Consent \cup {NoConsent},
               stale : BOOLEAN]

ConsentingOK ==
  consenting \in [Consent ->
    [pc : {"unused", "page", "exchanged", "stored", "suggest", "over"},
     by : Subscriber \cup {"none"}, as : Subscriber \cup {"none"}]]

RefreshingOK ==
  refreshing \in [Refresher ->
    [pc : {"idle", "grant", "store", "flag"}, row : ConnRow,
     of : Subscriber \cup {"none"}]]

LeavingOK ==
  leaving \in [Subscriber -> [pc : {"idle", "void"}, realm : Realm \cup {NoRealm}]]

ConnOK == conn \in [Subscriber -> ConnRow]
NameOK == bizName \in [Subscriber -> {"", "suggested", "chosen"}]
GhostsOK ==
  consented \in [Subscriber -> BOOLEAN] /\ lost \subseteq Consent

Types ==
  /\ ConnOK /\ IntuitOK /\ BrowserOK /\ ConsentingOK
  /\ RefreshingOK /\ LeavingOK /\ NameOK /\ GhostsOK

LEMMA TypeParts == Types => ConnTypeOK
BY DEF Types, ConnTypeOK, ConnOK, IntuitOK, BrowserOK, ConsentingOK, RefreshingOK,
       LeavingOK, NameOK, GhostsOK

(* A consent whose first token has been stored, or never will be.          *)
Settled(n) == consenting[n].pc \in {"stored", "suggest", "over"}

OwnToken(token, u) ==
  /\ token.consent \in Consent /\ token.gen \in 1 .. MaxGen
  /\ Settled(token.consent)
  /\ consenting[token.consent].by = u

RowsOwn == \A u \in Subscriber : conn[u].token = NoToken \/ OwnToken(conn[u].token, u)

RefreshesOwn ==
  \A r \in Refresher :
    /\ refreshing[r].pc # "idle" =>
         /\ refreshing[r].of \in Subscriber
         /\ OwnToken(refreshing[r].row.token, refreshing[r].of)
    /\ refreshing[r].pc = "store" => refreshing[r].row.token.gen < MaxGen

(* The callback acts for who began the consent, and nobody has rotated the *)
(* first token while it is on its way to the row.                          *)
CallbacksOwn ==
  \A n \in Consent :
    /\ consenting[n].pc \in {"exchanged", "stored", "suggest"} =>
         consenting[n].as \in Subscriber
    /\ consenting[n].pc = "exchanged" =>
         consenting[n].as = consenting[n].by /\ intuit[n].gen = 1

OwnInv == Types /\ RowsOwn /\ RefreshesOwn /\ CallbacksOwn

-----------------------------------------------------------------------------
LEMMA FirstTokens == 0 \in 0 .. MaxGen /\ 1 \in 0 .. MaxGen /\ 1 \in 1 .. MaxGen
BY QboAssumption DEF QboAssumption

LEMMA NoConnectionType == NoConnection \in ConnRow
<1>1. NoToken \in Token
  BY FirstTokens DEF NoToken, Token
<1>2. QED
  BY <1>1 DEF NoConnection, ConnRow

LEMMA OwnInit == ConnInit => OwnInv
<1> SUFFICES ASSUME ConnInit
             PROVE  OwnInv
  OBVIOUS
<1> USE DEF ConnInit
<1>2. ConnOK /\ RefreshingOK
  BY NoConnectionType DEF ConnOK, RefreshingOK, IdleRefresh
<1>3. IntuitOK /\ BrowserOK /\ ConsentingOK
  <2>1. IntuitOK
    BY FirstTokens DEF IntuitOK
  <2>2. ConsentingOK
    BY DEF ConsentingOK
  <2>3. PICK u \in Subscriber :
          browser = [user |-> u, cookie |-> NoConsent, stale |-> FALSE]
    OBVIOUS
  <2>4. BrowserOK
    BY <2>3 DEF BrowserOK
  <2>5. QED
    BY <2>1, <2>2, <2>4
<1>4. LeavingOK /\ NameOK /\ GhostsOK
  BY DEF LeavingOK, NameOK, GhostsOK
<1>5. RowsOwn /\ RefreshesOwn /\ CallbacksOwn
  BY DEF RowsOwn, RefreshesOwn, CallbacksOwn, NoConnection, IdleRefresh
<1>6. QED
  BY <1>2, <1>3, <1>4, <1>5 DEF OwnInv, Types

(* What a token belongs to does not change while consents only go on.      *)
ConsentsGoOn ==
  \A n \in Consent : Settled(n) =>
    Settled(n)' /\ consenting'[n].by = consenting[n].by

LEMMA TokensStayOwn ==
  ASSUME OwnInv, ConsentsGoOn, NEW token, NEW u, OwnToken(token, u)
  PROVE  OwnToken(token, u)'
BY DEF OwnToken, ConsentsGoOn, Settled

LEMMA RowsKept ==
  ASSUME OwnInv, ConsentsGoOn, NEW U \in SUBSET Subscriber,
         \A u \in U : conn'[u].token = conn[u].token,
         \A u \in Subscriber \ U :
           conn'[u].token = NoToken \/ OwnToken(conn[u].token, u)'
  PROVE  RowsOwn'
<1>1. ASSUME NEW u \in U, conn[u].token # NoToken
      PROVE  OwnToken(conn[u].token, u)'
  <2>1. OwnToken(conn[u].token, u)
    BY <1>1 DEF OwnInv, RowsOwn
  <2>2. conn'[u].token = conn[u].token
    OBVIOUS
  <2>3. QED
    BY <2>1, <2>2 DEF OwnToken, ConsentsGoOn, Settled
<1>2. QED
  BY <1>1 DEF RowsOwn

LEMMA RefreshesKept ==
  ASSUME OwnInv, ConsentsGoOn, NEW R \in SUBSET Refresher,
         \A r \in R : refreshing'[r] = refreshing[r],
         \A r \in Refresher \ R : refreshing'[r].pc # "idle" =>
           /\ refreshing[r].pc # "idle"
           /\ refreshing'[r].of = refreshing[r].of
           /\ refreshing'[r].row = refreshing[r].row
           /\ refreshing'[r].pc = "store" => refreshing[r].row.token.gen < MaxGen
  PROVE  RefreshesOwn'
<1> SUFFICES ASSUME NEW r \in Refresher, refreshing'[r].pc # "idle"
             PROVE  /\ refreshing'[r].of \in Subscriber
                    /\ OwnToken(refreshing[r].row.token, refreshing[r].of)'
                    /\ refreshing'[r].pc = "store" =>
                         refreshing'[r].row.token.gen < MaxGen
  BY DEF RefreshesOwn
<1>1. /\ refreshing[r].pc # "idle"
      /\ refreshing'[r].of = refreshing[r].of
      /\ refreshing'[r].row = refreshing[r].row
      /\ refreshing'[r].pc = "store" => refreshing[r].row.token.gen < MaxGen
  BY DEF OwnInv, RefreshesOwn
<1>2. /\ refreshing[r].of \in Subscriber
      /\ OwnToken(refreshing[r].row.token, refreshing[r].of)
  BY <1>1 DEF OwnInv, RefreshesOwn
<1>3. OwnToken(refreshing[r].row.token, refreshing[r].of)'
  BY <1>1, <1>2 DEF OwnToken, ConsentsGoOn, Settled
<1>4. QED
  BY <1>1, <1>2, <1>3

-----------------------------------------------------------------------------
(* One lemma per action: types, then whose the tokens are.                 *)

LEMMA BrowserStepsOK ==
  ASSUME OwnInv, (\E u \in Subscriber : SignIn(u)) \/ CookieExpires
  PROVE  OwnInv'
<1>1. /\ UNCHANGED <<conn, intuit, consenting, refreshing, leaving, bizName,
                     consented, lost>>
      /\ BrowserOK'
  BY DEF OwnInv, Types, BrowserOK, SignIn, CookieExpires
<1>2. Types'
  BY <1>1 DEF OwnInv, Types, ConnOK, IntuitOK, ConsentingOK, RefreshingOK,
     LeavingOK, NameOK, GhostsOK
<1>3. RowsOwn' /\ RefreshesOwn' /\ CallbacksOwn'
  BY <1>1 DEF OwnInv, RowsOwn, RefreshesOwn, CallbacksOwn, OwnToken, Settled
<1>4. QED
  BY <1>2, <1>3 DEF OwnInv

LEMMA NameStepsOK ==
  ASSUME OwnInv, NEW u \in Subscriber, SaveBusinessName(u)
  PROVE  OwnInv'
<1>1. /\ UNCHANGED <<conn, intuit, browser, consenting, refreshing, leaving,
                     consented, lost>>
      /\ NameOK'
  BY DEF OwnInv, Types, NameOK, SaveBusinessName
<1>2. Types'
  BY <1>1 DEF OwnInv, Types, ConnOK, IntuitOK, BrowserOK, ConsentingOK,
     RefreshingOK, LeavingOK, GhostsOK
<1>3. RowsOwn' /\ RefreshesOwn' /\ CallbacksOwn'
  BY <1>1 DEF OwnInv, RowsOwn, RefreshesOwn, CallbacksOwn, OwnToken, Settled
<1>4. QED
  BY <1>2, <1>3 DEF OwnInv

LEMMA DisconnectReadsOK ==
  ASSUME OwnInv, NEW u \in Subscriber, DisconnectReads(u)
  PROVE  OwnInv'
<1>1. conn[u].realm \in Realm \cup {NoRealm}
  BY DEF OwnInv, Types, ConnOK, ConnRow
<1>2. /\ UNCHANGED <<conn, intuit, browser, consenting, refreshing, bizName,
                     consented, lost>>
      /\ LeavingOK'
  BY <1>1 DEF OwnInv, Types, LeavingOK, DisconnectReads
<1>3. Types'
  BY <1>2 DEF OwnInv, Types, ConnOK, IntuitOK, BrowserOK, ConsentingOK,
     RefreshingOK, NameOK, GhostsOK
<1>4. RowsOwn' /\ RefreshesOwn' /\ CallbacksOwn'
  BY <1>2 DEF OwnInv, RowsOwn, RefreshesOwn, CallbacksOwn, OwnToken, Settled
<1>5. QED
  BY <1>3, <1>4 DEF OwnInv

LEMMA DisconnectVoidsOK ==
  ASSUME OwnInv, NEW u \in Subscriber, DisconnectVoids(u)
  PROVE  OwnInv'
<1> DEFINE void == [realm |-> NoRealm, token |-> NoToken, flagged |-> TRUE,
                    former |-> leaving[u].realm]
<1>1. void \in ConnRow
  <2>1. leaving[u].realm \in Realm \cup {NoRealm}
    BY DEF OwnInv, Types, LeavingOK
  <2>2. QED
    BY <2>1, NoConnectionType DEF NoConnection, ConnRow
<1>2. /\ UNCHANGED <<intuit, browser, consenting, refreshing, bizName, lost>>
      /\ conn' = [conn EXCEPT ![u] = void] \/ conn' = conn
  BY DEF DisconnectVoids
<1>3. LeavingOK' /\ GhostsOK'
  BY DEF OwnInv, Types, LeavingOK, GhostsOK, DisconnectVoids
<1>4. ConnOK'
  BY <1>1, <1>2 DEF OwnInv, Types, ConnOK
<1>5. Types'
  BY <1>2, <1>3, <1>4 DEF OwnInv, Types, IntuitOK, BrowserOK, ConsentingOK,
     RefreshingOK, NameOK
<1>6. ConsentsGoOn
  BY <1>2 DEF ConsentsGoOn, Settled
<1>7. RowsOwn'
  <2>1. CASE conn' = conn
    BY <2>1, <1>6, RowsKept
  <2>2. CASE conn' = [conn EXCEPT ![u] = void]
    <3>1. \A v \in Subscriber \ {u} : conn'[v].token = conn[v].token
      BY <2>2 DEF OwnInv, Types, ConnOK
    <3>2. conn'[u].token = NoToken
      BY <2>2 DEF OwnInv, Types, ConnOK
    <3>3. QED
      BY <3>1, <3>2, <1>6, RowsKept
  <2>3. QED
    BY <1>2, <2>1, <2>2
<1>8. RefreshesOwn' /\ CallbacksOwn'
  BY <1>2 DEF OwnInv, RefreshesOwn, CallbacksOwn, OwnToken, Settled
<1>9. QED
  BY <1>5, <1>7, <1>8 DEF OwnInv

LEMMA StartConnectOK ==
  ASSUME OwnInv, NEW n \in Consent, StartConnect(n)
  PROVE  OwnInv'
<1>1. /\ UNCHANGED <<conn, intuit, refreshing, leaving, bizName, consented, lost>>
      /\ consenting[n].pc = "unused"
      /\ consenting' = [consenting EXCEPT ![n].pc = "page", ![n].by = browser.user]
      /\ browser' = [browser EXCEPT !.cookie = n, !.stale = FALSE]
  BY DEF StartConnect
<1>2. BrowserOK'
  BY <1>1 DEF OwnInv, Types, BrowserOK
<1>3. ConsentingOK'
  <2>1. browser.user \in Subscriber
    BY DEF OwnInv, Types, BrowserOK
  <2>2. QED
    BY <1>1, <2>1 DEF OwnInv, Types, ConsentingOK
<1>4. Types'
  BY <1>1, <1>2, <1>3 DEF OwnInv, Types, ConnOK, IntuitOK, RefreshingOK, LeavingOK,
     NameOK, GhostsOK
<1>5. ConsentsGoOn
  BY <1>1 DEF OwnInv, Types, ConsentingOK, ConsentsGoOn, Settled
<1>6. RowsOwn' /\ RefreshesOwn'
  BY <1>1, <1>5, RowsKept, RefreshesKept
<1>7. CallbacksOwn'
  BY <1>1 DEF OwnInv, Types, ConsentingOK, CallbacksOwn
<1>8. QED
  BY <1>4, <1>6, <1>7 DEF OwnInv

LEMMA CallbackRefusesOK ==
  ASSUME OwnInv, NEW n \in Consent, CallbackRefuses(n)
  PROVE  OwnInv'
<1>1. /\ UNCHANGED <<conn, intuit, refreshing, leaving, bizName, consented, lost>>
      /\ consenting[n].pc = "page"
      /\ consenting' = [consenting EXCEPT ![n].pc = "over"]
      /\ browser' = [browser EXCEPT !.cookie = NoConsent]
  BY DEF CallbackRefuses, ClearCookie
<1>2. BrowserOK'
  BY <1>1 DEF OwnInv, Types, BrowserOK
<1>3. ConsentingOK'
  BY <1>1 DEF OwnInv, Types, ConsentingOK
<1>4. Types'
  BY <1>1, <1>2, <1>3 DEF OwnInv, Types, ConnOK, IntuitOK, RefreshingOK, LeavingOK,
     NameOK, GhostsOK
<1>5. ConsentsGoOn
  BY <1>1 DEF OwnInv, Types, ConsentingOK, ConsentsGoOn, Settled
<1>6. RowsOwn' /\ RefreshesOwn'
  BY <1>1, <1>5, RowsKept, RefreshesKept
<1>7. CallbacksOwn'
  BY <1>1 DEF OwnInv, Types, ConsentingOK, CallbacksOwn
<1>8. QED
  BY <1>4, <1>6, <1>7 DEF OwnInv

(* The state is compared with who is signed in, so the tokens are for who  *)
(* began the consent.                                                      *)
LEMMA CallbackExchangesOK ==
  ASSUME OwnInv, NEW n \in Consent, NEW realm \in Realm,
         CallbackExchanges(n, realm)
  PROVE  OwnInv'
<1>1. /\ UNCHANGED <<conn, refreshing, leaving, bizName, consented, lost>>
      /\ consenting[n].pc = "page" /\ consenting[n].by = browser.user
      /\ intuit' = [intuit EXCEPT ![n] = [realm |-> realm, gen |-> 1, dead |-> FALSE]]
      /\ consenting' = [consenting EXCEPT ![n].pc = "exchanged",
                                          ![n].as = browser.user]
      /\ browser' = [browser EXCEPT !.cookie = NoConsent]
  BY DEF CallbackExchanges, IsStateValid, ClearCookie
<1>2. browser.user \in Subscriber /\ BrowserOK'
  BY <1>1 DEF OwnInv, Types, BrowserOK
<1>3. ConsentingOK'
  BY <1>1, <1>2 DEF OwnInv, Types, ConsentingOK
<1>4. IntuitOK'
  BY <1>1, FirstTokens DEF OwnInv, Types, IntuitOK
<1>5. Types'
  BY <1>1, <1>2, <1>3, <1>4 DEF OwnInv, Types, ConnOK, RefreshingOK, LeavingOK,
     NameOK, GhostsOK
<1>6. ConsentsGoOn
  BY <1>1 DEF OwnInv, Types, ConsentingOK, ConsentsGoOn, Settled
<1>7. RowsOwn' /\ RefreshesOwn'
  BY <1>1, <1>6, RowsKept, RefreshesKept
<1>8. CallbacksOwn'
  BY <1>1, <1>2 DEF OwnInv, Types, ConsentingOK, IntuitOK, CallbacksOwn
<1>9. QED
  BY <1>5, <1>7, <1>8 DEF OwnInv

LEMMA CallbackStoresOK ==
  ASSUME OwnInv, NEW n \in Consent, CallbackStores(n)
  PROVE  OwnInv'
<1> DEFINE new == [realm |-> intuit[n].realm, token |-> [consent |-> n, gen |-> 1],
                   flagged |-> FALSE, former |-> NoRealm]
<1>1. PICK u : u = consenting[n].as
  OBVIOUS
<1>2. /\ UNCHANGED <<intuit, browser, refreshing, leaving, bizName, lost>>
      /\ consenting[n].pc = "exchanged"
      /\ \/ /\ conn' = [conn EXCEPT ![u] = new]
            /\ consented' = [consented EXCEPT ![u] = TRUE]
            /\ consenting' = [consenting EXCEPT ![n].pc = "stored"]
         \/ /\ UNCHANGED <<conn, consented>>
            /\ consenting' = [consenting EXCEPT ![n].pc = "over"]
  BY <1>1 DEF CallbackStores
<1>3. u \in Subscriber /\ consenting[n].by = u
  BY <1>1, <1>2 DEF OwnInv, CallbacksOwn
<1>4. new \in ConnRow
  <2>1. [consent |-> n, gen |-> 1] \in Token
    BY FirstTokens DEF Token
  <2>2. intuit[n].realm \in Realm \cup {NoRealm}
    BY DEF OwnInv, Types, IntuitOK
  <2>3. QED
    BY <2>1, <2>2 DEF ConnRow
<1>5. ConnOK'
  BY <1>2, <1>3, <1>4 DEF OwnInv, Types, ConnOK
<1>6. ConsentingOK' /\ GhostsOK'
  <2>1. ConsentingOK'
    BY <1>2 DEF OwnInv, Types, ConsentingOK
  <2>2. GhostsOK'
    BY <1>2, <1>3 DEF OwnInv, Types, GhostsOK
  <2>3. QED
    BY <2>1, <2>2
<1>7. Types'
  BY <1>2, <1>5, <1>6 DEF OwnInv, Types, IntuitOK, BrowserOK, RefreshingOK,
     LeavingOK, NameOK
<1>8. ConsentsGoOn
  BY <1>2 DEF OwnInv, Types, ConsentingOK, ConsentsGoOn, Settled
<1>9. RowsOwn'
  <2>1. CASE conn' = conn
    BY <2>1, <1>8, RowsKept
  <2>2. CASE conn' # conn
    <3>1. /\ \A v \in Subscriber \ {u} : conn'[v].token = conn[v].token
          /\ conn'[u].token = [consent |-> n, gen |-> 1]
      BY <2>2, <1>2, <1>3 DEF OwnInv, Types, ConnOK
    <3>2. consenting'[n].pc = "stored" /\ consenting'[n].by = u
      BY <2>2, <1>2, <1>3 DEF OwnInv, Types, ConsentingOK
    <3>3. OwnToken(conn[u].token, u)'
      BY <3>1, <3>2, FirstTokens DEF OwnToken, Settled
    <3>4. \A v \in Subscriber \ (Subscriber \ {u}) :
            OwnToken(conn[v].token, v)'
      BY <3>3
    <3>5. QED
      BY <3>1, <3>4, <1>8, RowsKept
  <2>3. QED
    BY <2>1, <2>2
<1>10. RefreshesOwn'
  BY <1>2, <1>8, RefreshesKept
<1>11. CallbacksOwn'
  BY <1>2, <1>3 DEF OwnInv, Types, ConsentingOK, CallbacksOwn
<1>12. QED
  BY <1>7, <1>9, <1>10, <1>11 DEF OwnInv

LEMMA PrefillOK ==
  ASSUME OwnInv, NEW n \in Consent, PrefillReads(n) \/ PrefillWrites(n)
  PROVE  OwnInv'
<1>1. /\ UNCHANGED <<conn, intuit, browser, refreshing, leaving, consented, lost>>
      /\ consenting[n].pc \in {"stored", "suggest"}
      /\ \/ consenting' = [consenting EXCEPT ![n].pc = "suggest"]
         \/ consenting' = [consenting EXCEPT ![n].pc = "over"]
  BY DEF PrefillReads, PrefillWrites
<1>2. NameOK'
  <2>1. consenting[n].as \in Subscriber
    BY <1>1 DEF OwnInv, CallbacksOwn
  <2>2. QED
    BY <2>1 DEF OwnInv, Types, NameOK, PrefillReads, PrefillWrites, SuggestIfUnchanged, CompanyName
<1>3. ConsentingOK'
  BY <1>1 DEF OwnInv, Types, ConsentingOK
<1>4. Types'
  BY <1>1, <1>2, <1>3 DEF OwnInv, Types, ConnOK, IntuitOK, BrowserOK, RefreshingOK,
     LeavingOK, GhostsOK
<1>5. ConsentsGoOn
  BY <1>1 DEF OwnInv, Types, ConsentingOK, ConsentsGoOn, Settled
<1>6. RowsOwn' /\ RefreshesOwn'
  BY <1>1, <1>5, RowsKept, RefreshesKept
<1>7. CallbacksOwn'
  BY <1>1 DEF OwnInv, Types, ConsentingOK, CallbacksOwn
<1>8. QED
  BY <1>4, <1>6, <1>7 DEF OwnInv

LEMMA GrantDiesOK ==
  ASSUME OwnInv, NEW n \in Consent, GrantDies(n)
  PROVE  OwnInv'
<1>1. /\ UNCHANGED <<conn, browser, consenting, refreshing, leaving, bizName,
                     consented, lost>>
      /\ intuit' = [intuit EXCEPT ![n].dead = TRUE]
  BY DEF GrantDies
<1>2. IntuitOK' /\ \A m \in Consent : intuit'[m].gen = intuit[m].gen
  BY <1>1 DEF OwnInv, Types, IntuitOK
<1>3. Types'
  BY <1>1, <1>2 DEF OwnInv, Types, ConnOK, BrowserOK, ConsentingOK, RefreshingOK,
     LeavingOK, NameOK, GhostsOK
<1>4. RowsOwn' /\ RefreshesOwn' /\ CallbacksOwn'
  BY <1>1, <1>2 DEF OwnInv, RowsOwn, RefreshesOwn, CallbacksOwn, OwnToken, Settled
<1>5. QED
  BY <1>3, <1>4 DEF OwnInv

LEMMA RefreshReadsOK ==
  ASSUME OwnInv, NEW r \in Refresher, NEW u \in Subscriber, RefreshReads(r, u)
  PROVE  OwnInv'
<1>1. /\ UNCHANGED <<conn, intuit, browser, consenting, leaving, bizName,
                     consented, lost>>
      /\ conn[u].token # NoToken
      /\ refreshing' = [refreshing EXCEPT ![r] =
                          [pc |-> "grant", row |-> conn[u], of |-> u]]
  BY DEF RefreshReads, Loadable
<1>2. conn[u] \in ConnRow /\ OwnToken(conn[u].token, u)
  BY <1>1 DEF OwnInv, Types, ConnOK, RowsOwn
<1>3. RefreshingOK'
  BY <1>1, <1>2 DEF OwnInv, Types, RefreshingOK
<1>4. Types'
  BY <1>1, <1>3 DEF OwnInv, Types, ConnOK, IntuitOK, BrowserOK, ConsentingOK,
     LeavingOK, NameOK, GhostsOK
<1>5. RefreshesOwn'
  <2>1. refreshing'[r] = [pc |-> "grant", row |-> conn[u], of |-> u]
    BY <1>1 DEF OwnInv, Types, RefreshingOK
  <2>2. \A q \in Refresher \ {r} : refreshing'[q] = refreshing[q]
    BY <1>1 DEF OwnInv, Types, RefreshingOK
  <2>3. \A token, v : OwnToken(token, v)' <=> OwnToken(token, v)
    BY <1>1 DEF OwnToken, Settled
  <2>4. QED
    BY <1>2, <2>1, <2>2, <1>1 DEF OwnInv, RefreshesOwn, OwnToken, Settled
<1>6. RowsOwn' /\ CallbacksOwn'
  BY <1>1 DEF OwnInv, RowsOwn, CallbacksOwn, OwnToken, Settled
<1>7. QED
  BY <1>4, <1>5, <1>6 DEF OwnInv

LEMMA RefreshGrantOK ==
  ASSUME OwnInv, NEW r \in Refresher, RefreshGrant(r)
  PROVE  OwnInv'
<1> DEFINE token == refreshing[r].row.token
<1>1. /\ UNCHANGED <<conn, browser, consenting, leaving, bizName, consented>>
      /\ refreshing[r].pc = "grant"
      /\ \/ /\ token.gen < MaxGen
            /\ intuit' = [intuit EXCEPT ![token.consent].gen = @ + 1]
            /\ Live(token)
         \/ UNCHANGED intuit
      /\ \/ /\ refreshing' = [refreshing EXCEPT ![r].pc = "store"]
            /\ token.gen < MaxGen
         \/ refreshing' = [refreshing EXCEPT ![r].pc = "flag"]
         \/ refreshing' = [refreshing EXCEPT ![r] = IdleRefresh]
      /\ lost' = lost \/ lost' = lost \cup {token.consent}
  BY DEF RefreshGrant
<1>2. OwnToken(token, refreshing[r].of)
  BY <1>1 DEF OwnInv, RefreshesOwn
<1>3. IntuitOK' /\ \A n \in Consent :
                     consenting[n].pc = "exchanged" => intuit'[n].gen = intuit[n].gen
  <2>1. CASE intuit' = intuit
    BY <2>1 DEF OwnInv, Types, IntuitOK
  <2>2. CASE /\ token.gen < MaxGen /\ Live(token)
             /\ intuit' = [intuit EXCEPT ![token.consent].gen = @ + 1]
    <3>1. /\ token.consent \in Consent /\ Settled(token.consent)
          /\ intuit[token.consent].gen + 1 \in 0 .. MaxGen
      BY <2>2, <1>2, QboAssumption DEF OwnToken, Live
    <3>2. IntuitOK'
      BY <2>2, <3>1 DEF OwnInv, Types, IntuitOK
    <3>3. \A n \in Consent \ {token.consent} : intuit'[n] = intuit[n]
      BY <2>2 DEF OwnInv, Types, IntuitOK
    <3>4. QED
      BY <3>1, <3>2, <3>3 DEF Settled
  <2>3. QED
    BY <1>1, <2>1, <2>2
<1>4. RefreshingOK'
  BY <1>1, NoConnectionType DEF OwnInv, Types, RefreshingOK, IdleRefresh
<1>5. Types'
  <2>1. GhostsOK'
    BY <1>1, <1>2 DEF OwnInv, Types, GhostsOK, OwnToken
  <2>2. QED
    BY <1>1, <1>3, <1>4, <2>1 DEF OwnInv, Types, ConnOK, BrowserOK, ConsentingOK,
       LeavingOK, NameOK
<1>6. ConsentsGoOn
  BY <1>1 DEF ConsentsGoOn, Settled
<1>7. RefreshesOwn'
  <2>1. \A q \in Refresher \ {r} : refreshing'[q] = refreshing[q]
    BY <1>1 DEF OwnInv, Types, RefreshingOK
  <2>2. refreshing'[r].pc # "idle" =>
          /\ refreshing'[r].of = refreshing[r].of
          /\ refreshing'[r].row = refreshing[r].row
          /\ refreshing'[r].pc = "store" => refreshing[r].row.token.gen < MaxGen
    BY <1>1 DEF OwnInv, Types, RefreshingOK, IdleRefresh
  <2>3. QED
    BY <2>1, <2>2, <1>1, <1>6, RefreshesKept
<1>8. RowsOwn'
  BY <1>1, <1>6, RowsKept
<1>9. CallbacksOwn'
  BY <1>1, <1>3 DEF OwnInv, CallbacksOwn
<1>10. QED
  BY <1>5, <1>7, <1>8, <1>9 DEF OwnInv

LEMMA RefreshEndsOK ==
  ASSUME OwnInv, NEW r \in Refresher, RefreshStores(r) \/ RefreshFlags(r)
  PROVE  OwnInv'
<1>1. PICK u : u = refreshing[r].of
  OBVIOUS
<1> DEFINE row == refreshing[r].row
           next == [row.token EXCEPT !.gen = @ + 1]
<1>2. /\ UNCHANGED <<intuit, browser, consenting, leaving, bizName, consented>>
      /\ refreshing' = [refreshing EXCEPT ![r] = IdleRefresh]
      /\ refreshing[r].pc \in {"store", "flag"}
      /\ \/ conn' = conn
         \/ conn' = [conn EXCEPT ![u] = Rotated(@, row)] /\ refreshing[r].pc = "store"
         \/ conn' = [conn EXCEPT ![u].flagged = TRUE]
      /\ lost' = lost \/ lost' = lost \cup {row.token.consent}
  BY <1>1 DEF RefreshStores, RefreshFlags
<1>3. /\ u \in Subscriber /\ OwnToken(row.token, u)
      /\ refreshing[r].pc = "store" => row.token.gen < MaxGen
  BY <1>1, <1>2 DEF OwnInv, RefreshesOwn
<1>4. row \in ConnRow /\ conn[u] \in ConnRow
  BY <1>3 DEF OwnInv, Types, RefreshingOK, ConnOK
<1>5. row.token \in Token
  BY <1>4 DEF ConnRow
<1>6. refreshing[r].pc = "store" =>
        /\ next \in Token /\ OwnToken(next, u)
        /\ Rotated(conn[u], row) \in ConnRow
        /\ Rotated(conn[u], row).token = next
  <2> HAVE refreshing[r].pc = "store"
  <2>1. next = [consent |-> row.token.consent, gen |-> row.token.gen + 1]
    BY <1>5 DEF Token
  <2>2. row.token.gen + 1 \in 1 .. MaxGen
    BY <1>3, QboAssumption DEF OwnToken
  <2>3. next \in Token /\ OwnToken(next, u)
    BY <2>1, <2>2, <1>3 DEF Token, OwnToken
  <2>4. QED
    BY <2>3, <1>4 DEF ConnRow, Rotated
<1>7. ConnOK'
  <2>1. [conn[u] EXCEPT !.flagged = TRUE] \in ConnRow
    BY <1>4 DEF ConnRow
  <2>2. QED
    BY <2>1, <1>2, <1>3, <1>6 DEF OwnInv, Types, ConnOK
<1>8. RefreshingOK'
  BY <1>2, NoConnectionType DEF OwnInv, Types, RefreshingOK, IdleRefresh
<1>9. GhostsOK'
  BY <1>2, <1>3 DEF OwnInv, Types, GhostsOK, OwnToken
<1>10. Types'
  BY <1>2, <1>7, <1>8, <1>9 DEF OwnInv, Types, IntuitOK, BrowserOK, ConsentingOK,
     LeavingOK, NameOK
<1>11. ConsentsGoOn
  BY <1>2 DEF ConsentsGoOn, Settled
<1>12. RefreshesOwn'
  <2>1. /\ \A q \in Refresher \ {r} : refreshing'[q] = refreshing[q]
        /\ refreshing'[r].pc = "idle"
    BY <1>2 DEF OwnInv, Types, RefreshingOK, IdleRefresh
  <2>2. QED
    BY <2>1, <1>11, RefreshesKept
<1>13. RowsOwn'
  <2>1. \A v \in Subscriber \ {u} : conn'[v].token = conn[v].token
    BY <1>2 DEF OwnInv, Types, ConnOK
  <2>2. CASE conn'[u].token = conn[u].token
    BY <2>1, <2>2, <1>11, RowsKept
  <2>3. CASE conn'[u].token # conn[u].token
    <3>1. refreshing[r].pc = "store" /\ conn'[u].token = next
      <4>1. CASE conn' = [conn EXCEPT ![u].flagged = TRUE]
        BY <4>1, <1>3, <1>4, <2>3 DEF OwnInv, Types, ConnOK, ConnRow
      <4>2. QED
        BY <4>1, <2>3, <1>2, <1>3, <1>6 DEF OwnInv, Types, ConnOK
    <3>2. OwnToken(conn[u].token, u)'
      BY <3>1, <1>6, <1>2 DEF OwnToken, Settled
    <3>3. QED
      BY <2>1, <3>2, <1>11, RowsKept
  <2>4. QED
    BY <2>2, <2>3
<1>14. CallbacksOwn'
  BY <1>2 DEF OwnInv, CallbacksOwn
<1>15. QED
  BY <1>10, <1>12, <1>13, <1>14 DEF OwnInv

LEMMA OwnStep == OwnInv /\ [ConnNext]_qboVars => OwnInv'
<1> SUFFICES ASSUME OwnInv, [ConnNext]_qboVars
             PROVE  OwnInv'
  OBVIOUS
<1>1. CASE UNCHANGED qboVars
  BY <1>1 DEF qboVars, OwnInv, Types, ConnOK, IntuitOK, BrowserOK, ConsentingOK,
     RefreshingOK, LeavingOK, NameOK, GhostsOK, RowsOwn, RefreshesOwn,
     CallbacksOwn, OwnToken, Settled
<1>2. CASE (\E u \in Subscriber : SignIn(u)) \/ CookieExpires
  BY <1>2, BrowserStepsOK
<1>3. CASE \E u \in Subscriber :
             SaveBusinessName(u) \/ DisconnectReads(u) \/ DisconnectVoids(u)
  BY <1>3, NameStepsOK, DisconnectReadsOK, DisconnectVoidsOK
<1>4. CASE \E n \in Consent :
             \/ StartConnect(n) \/ CallbackRefuses(n)
             \/ \E realm \in Realm : CallbackExchanges(n, realm)
             \/ CallbackStores(n) \/ PrefillReads(n)
             \/ PrefillWrites(n) \/ GrantDies(n)
  BY <1>4, StartConnectOK, CallbackRefusesOK, CallbackExchangesOK, CallbackStoresOK,
     PrefillOK, GrantDiesOK
<1>5. CASE \E r \in Refresher :
             \/ \E u \in Subscriber : RefreshReads(r, u)
             \/ RefreshGrant(r) \/ RefreshStores(r) \/ RefreshFlags(r)
  BY <1>5, RefreshReadsOK, RefreshGrantOK, RefreshEndsOK
<1>6. QED
  BY <1>1, <1>2, <1>3, <1>4, <1>5 DEF ConnNext

(* Every row, consent and refresh keeps its type.                          *)
THEOREM ConnTypeCorrect == ConnSpec => []ConnTypeOK
<1>1. OwnInv => ConnTypeOK
  BY TypeParts DEF OwnInv
<1>2. QED
  BY <1>1, OwnInit, OwnStep, PTL DEF ConnSpec

(* The tokens on a subscriber's row are those of a consent that the same   *)
(* subscriber began, however many consents, refreshes and disconnects      *)
(* overlap (callback/route.ts, tokens.ts).                                 *)
THEOREM TokensStayWithTheirOwner == ConnSpec => []TokensAreOwn
<1>1. OwnInv => TokensAreOwn
  BY DEF OwnInv, RowsOwn, OwnToken, TokensAreOwn
<1>2. QED
  BY <1>1, OwnInit, OwnStep, PTL DEF ConnSpec

-----------------------------------------------------------------------------
(* Who disconnects stays disconnected: only a consent brings a realm back, *)
(* whatever refresh was under way (disconnect/route.ts, tokens.ts).        *)
THEOREM ConnectionsStandOnConsent == ConnSpec => []ConnectedByConsent
<1>1. ConnInit => ConnectedByConsent
  <2> SUFFICES ASSUME ConnInit, NEW u \in Subscriber
               PROVE  conn[u].realm = NoRealm
    BY DEF Connected, ConnectedByConsent
  <2>1. conn[u] = NoConnection
    BY DEF ConnInit
  <2>2. QED
    BY <2>1 DEF NoConnection
<1>2. ASSUME OwnInv, ConnectedByConsent, [ConnNext]_qboVars
      PROVE  ConnectedByConsent'
  <2>1. CASE UNCHANGED <<conn, consented>>
    BY <1>2, <2>1 DEF ConnectedByConsent, Connected
  <2>2. ASSUME NEW u \in Subscriber, DisconnectVoids(u)
        PROVE  ConnectedByConsent'
    BY <1>2, <2>2 DEF DisconnectVoids, OwnInv, Types, ConnOK, GhostsOK,
       ConnectedByConsent, Connected
  <2>3. ASSUME NEW n \in Consent, CallbackStores(n)
        PROVE  ConnectedByConsent'
    BY <1>2, <2>3 DEF CallbackStores, OwnInv, Types, ConnOK, GhostsOK,
       ConnectedByConsent, Connected
  <2>4. ASSUME NEW r \in Refresher, RefreshStores(r) \/ RefreshFlags(r)
        PROVE  ConnectedByConsent'
    <3>1. consented' = consented /\ \A u \in Subscriber : conn'[u].realm = conn[u].realm
      <4>1. \A now \in ConnRow :
              /\ Rotated(now, refreshing[r].row).realm = now.realm
              /\ [now EXCEPT !.flagged = TRUE].realm = now.realm
        BY DEF Rotated, ConnRow
      <4>2. QED
        BY <2>4, <4>1, <1>2 DEF RefreshStores, RefreshFlags, OwnInv, Types, ConnOK
    <3>2. QED
      BY <3>1, <1>2 DEF ConnectedByConsent, Connected
  <2>5. QED
    BY <1>2, <2>1, <2>2, <2>3, <2>4
       DEF ConnNext, qboVars, SignIn, SaveBusinessName, DisconnectReads, CookieExpires,
           StartConnect, CallbackRefuses, CallbackExchanges, PrefillReads, PrefillWrites,
           GrantDies, RefreshReads, RefreshGrant
<1>3. QED
  BY <1>1, <1>2, OwnInit, OwnStep, PTL DEF ConnSpec

(* A name that the subscriber has chosen stays, also when a suggestion is  *)
(* under way (the guarded update of prefillBusinessNameFromQbo).           *)
THEOREM ChosenNamesStay == ConnSpec => ChosenNameStays
<1> DEFINE Stays == \A u \in Subscriber : bizName[u] = "chosen" => bizName'[u] = "chosen"
<1>1. ASSUME OwnInv, [ConnNext]_qboVars
      PROVE  [Stays]_qboVars
  <2>1. CASE UNCHANGED bizName
    BY <2>1
  <2>2. ASSUME NEW u \in Subscriber, SaveBusinessName(u)
        PROVE  Stays
    BY <1>1, <2>2 DEF SaveBusinessName, OwnInv, Types, NameOK
  <2>3. ASSUME NEW n \in Consent, PrefillWrites(n)
        PROVE  Stays
    BY <1>1, <2>3 DEF PrefillWrites, SuggestIfUnchanged, CompanyName, OwnInv, Types, NameOK
  <2>4. QED
    BY <1>1, <2>1, <2>2, <2>3
       DEF ConnNext, qboVars, SignIn, DisconnectReads, DisconnectVoids, CookieExpires,
           StartConnect, CallbackRefuses, CallbackExchanges, CallbackStores, PrefillReads,
           GrantDies, RefreshReads, RefreshGrant, RefreshStores, RefreshFlags
<1>2. QED
  BY <1>1, OwnInit, OwnStep, PTL DEF ConnSpec, ChosenNameStays

-----------------------------------------------------------------------------
(***************************************************************************)
(* The stored token is the live one.  A rotation takes the latest token    *)
(* of a consent, and none may take place between Intuit's answer and its   *)
(* update: the row still holds the token before.  Hence no token anywhere  *)
(* is ahead of Intuit's, a refresh about to write brings Intuit's latest,  *)
(* and two about to write are about different consents.                    *)
(***************************************************************************)
Storing(r) == refreshing[r].pc = "store"

Replacing(token) == \E r \in Refresher : Storing(r) /\ refreshing[r].row.token = token

NotAhead(token) ==
  /\ token.gen <= intuit[token.consent].gen
  /\ \A r \in Refresher :
       Storing(r) /\ refreshing[r].row.token.consent = token.consent =>
         token.gen < intuit[token.consent].gen

RowsNotAhead ==
  \A u \in Subscriber : conn[u].token # NoToken => NotAhead(conn[u].token)

RefreshesNotAhead ==
  \A r \in Refresher : refreshing[r].pc # "idle" => NotAhead(refreshing[r].row.token)

StoresTold ==
  \A r \in Refresher : Storing(r) =>
    intuit[refreshing[r].row.token.consent].gen = refreshing[r].row.token.gen + 1

StoresApart ==
  \A r, q \in Refresher :
    /\ Storing(r) /\ Storing(q)
    /\ refreshing[r].row.token.consent = refreshing[q].row.token.consent
    => r = q

LatestInv ==
  RowsNotAhead /\ RefreshesNotAhead /\ StoresTold /\ StoresApart /\ StoredTokenIsLive

LEMMA LatestInit == ConnInit => LatestInv
<1> SUFFICES ASSUME ConnInit
             PROVE  LatestInv
  OBVIOUS
<1>1. \A u \in Subscriber : conn[u].token = NoToken
  BY DEF ConnInit, NoConnection
<1>2. \A r \in Refresher : refreshing[r].pc = "idle"
  BY DEF ConnInit, IdleRefresh
<1>3. QED
  BY <1>1, <1>2 DEF LatestInv, RowsNotAhead, RefreshesNotAhead, StoresTold,
     StoresApart, StoredTokenIsLive, Loadable, Storing

(* Steps that neither rotate a token nor touch one that is held.           *)
LEMMA LatestKept ==
  ASSUME OwnInv, LatestInv, UNCHANGED <<conn, refreshing, lost>>,
         \A n \in Consent : Settled(n) =>
           intuit'[n].gen = intuit[n].gen /\ (intuit[n].dead => intuit'[n].dead)
  PROVE  LatestInv'
<1>1. ASSUME NEW token, NEW u, OwnToken(token, u)
      PROVE  /\ intuit'[token.consent].gen = intuit[token.consent].gen
             /\ intuit[token.consent].dead => intuit'[token.consent].dead
             /\ NotAhead(token) => NotAhead(token)'
  BY <1>1 DEF OwnToken, NotAhead, Storing
<1>2. RowsNotAhead'
  BY <1>1 DEF OwnInv, RowsOwn, LatestInv, RowsNotAhead, NotAhead, Storing
<1>3. RefreshesNotAhead'
  BY <1>1 DEF OwnInv, RefreshesOwn, LatestInv, RefreshesNotAhead, NotAhead, Storing
<1>4. StoresTold' /\ StoresApart'
  BY <1>1 DEF OwnInv, RefreshesOwn, LatestInv, StoresTold, StoresApart, Storing
<1>5. StoredTokenIsLive'
  <2> SUFFICES ASSUME NEW u \in Subscriber,
                      Loadable(conn[u]), conn[u].token.consent \notin lost,
                      ~intuit'[conn[u].token.consent].dead,
                      ~Replacing(conn[u].token)
               PROVE  Live(conn[u].token)'
    BY DEF StoredTokenIsLive, Replacing, Storing
  <2>1. OwnToken(conn[u].token, u)
    BY DEF OwnInv, RowsOwn, Loadable
  <2>2. ~intuit[conn[u].token.consent].dead
    BY <2>1, <1>1
  <2>3. Live(conn[u].token)
    BY <2>2 DEF LatestInv, StoredTokenIsLive, Replacing, Storing
  <2>4. QED
    BY <2>1, <2>3, <1>1 DEF Live
<1>6. QED
  BY <1>2, <1>3, <1>4, <1>5 DEF LatestInv

(* A step that writes one row and leaves the refreshes alone: nothing, or  *)
(* a token that Intuit honours and no refresh is about to replace.         *)
LEMMA LatestRow ==
  ASSUME OwnInv, LatestInv, UNCHANGED <<intuit, refreshing, lost>>,
         NEW u \in Subscriber,
         \A v \in Subscriber \ {u} : conn'[v] = conn[v],
         \/ conn'[u].token = NoToken
         \/ /\ NotAhead(conn[u].token)'
            /\ ~intuit[conn'[u].token.consent].dead => Live(conn[u].token)'
  PROVE  LatestInv'
<1>1. \A token : NotAhead(token)' <=> NotAhead(token)
  BY DEF NotAhead, Storing
<1>2. RowsNotAhead'
  BY <1>1 DEF LatestInv, RowsNotAhead, NotAhead, Storing
<1>3. RefreshesNotAhead' /\ StoresTold' /\ StoresApart'
  BY DEF LatestInv, RefreshesNotAhead, NotAhead, StoresTold, StoresApart, Storing
<1>4. StoredTokenIsLive'
  <2> SUFFICES ASSUME NEW v \in Subscriber,
                      Loadable(conn[v])', conn'[v].token.consent \notin lost,
                      ~intuit[conn'[v].token.consent].dead,
                      ~Replacing(conn'[v].token)
               PROVE  Live(conn[v].token)'
    BY DEF StoredTokenIsLive, Replacing, Storing
  <2>1. CASE v = u
    BY <2>1 DEF Loadable
  <2>2. CASE v # u
    <3>1. conn'[v] = conn[v]
      BY <2>2
    <3>2. Live(conn[v].token)
      BY <3>1 DEF LatestInv, StoredTokenIsLive, Loadable, Replacing, Storing
    <3>3. QED
      BY <3>1, <3>2 DEF Live
  <2>3. QED
    BY <2>1, <2>2
<1>5. QED
  BY <1>2, <1>3, <1>4 DEF LatestInv

LEMMA DisconnectVoidsLatest ==
  ASSUME OwnInv, LatestInv, NEW u \in Subscriber, DisconnectVoids(u)
  PROVE  LatestInv'
<1>1. CASE conn' = conn
  BY <1>1, LatestKept DEF DisconnectVoids
<1>2. CASE conn' # conn
  <2>1. /\ \A v \in Subscriber \ {u} : conn'[v] = conn[v]
        /\ conn'[u].token = NoToken
        /\ UNCHANGED <<intuit, refreshing, lost>>
    BY <1>2 DEF DisconnectVoids, OwnInv, Types, ConnOK
  <2>2. QED
    BY <2>1, LatestRow
<1>3. QED
  BY <1>1, <1>2

LEMMA CallbackStoresLatest ==
  ASSUME OwnInv, LatestInv, NEW n \in Consent, CallbackStores(n)
  PROVE  LatestInv'
<1>1. CASE conn' = conn
  BY <1>1, LatestKept DEF CallbackStores
<1>2. CASE conn' # conn
  <2>1. PICK u : u = consenting[n].as
    OBVIOUS
  <2>2. /\ u \in Subscriber
        /\ consenting[n].pc = "exchanged" /\ intuit[n].gen = 1
    BY <2>1 DEF CallbackStores, OwnInv, CallbacksOwn
  <2>3. /\ \A v \in Subscriber \ {u} : conn'[v] = conn[v]
        /\ conn'[u].token = [consent |-> n, gen |-> 1]
        /\ UNCHANGED <<intuit, refreshing, lost>>
    BY <1>2, <2>1, <2>2 DEF CallbackStores, OwnInv, Types, ConnOK
  <2>4. \A r \in Refresher : Storing(r) => refreshing[r].row.token.consent # n
    BY <2>2 DEF OwnInv, RefreshesOwn, OwnToken, Settled, Storing
  <2>5. NotAhead(conn[u].token)'
    BY <2>2, <2>3, <2>4 DEF NotAhead, Storing
  <2>6. ~intuit[conn'[u].token.consent].dead => Live(conn[u].token)'
    BY <2>2, <2>3 DEF Live
  <2>7. QED
    BY <2>2, <2>3, <2>5, <2>6, LatestRow
<1>3. QED
  BY <1>1, <1>2

LEMMA RefreshReadsLatest ==
  ASSUME OwnInv, LatestInv, NEW r \in Refresher, NEW u \in Subscriber,
         RefreshReads(r, u)
  PROVE  LatestInv'
<1>1. /\ UNCHANGED <<conn, intuit, lost>>
      /\ refreshing[r].pc = "idle" /\ conn[u].token # NoToken
      /\ refreshing'[r] = [pc |-> "grant", row |-> conn[u], of |-> u]
      /\ \A q \in Refresher \ {r} : refreshing'[q] = refreshing[q]
  BY DEF RefreshReads, Loadable, OwnInv, Types, RefreshingOK
<1>2. \A q \in Refresher :
        /\ Storing(q)' <=> Storing(q)
        /\ Storing(q) => refreshing'[q] = refreshing[q]
  BY <1>1 DEF Storing
<1>3. \A token : NotAhead(token)' <=> NotAhead(token)
  BY <1>1, <1>2 DEF NotAhead
<1>4. RowsNotAhead'
  BY <1>1, <1>2 DEF LatestInv, RowsNotAhead, NotAhead
<1>5. RefreshesNotAhead'
  <2>1. NotAhead(conn[u].token)
    BY <1>1 DEF LatestInv, RowsNotAhead
  <2>2. \A q \in Refresher \ {r} :
          refreshing[q].pc # "idle" => NotAhead(refreshing[q].row.token)
    BY DEF LatestInv, RefreshesNotAhead
  <2>3. QED
    BY <1>1, <1>2, <2>1, <2>2 DEF RefreshesNotAhead, NotAhead
<1>6. StoresTold' /\ StoresApart'
  BY <1>1, <1>2 DEF LatestInv, StoresTold, StoresApart
<1>7. StoredTokenIsLive'
  BY <1>1, <1>2 DEF LatestInv, StoredTokenIsLive, Storing, Live, Loadable
<1>8. QED
  BY <1>4, <1>5, <1>6, <1>7 DEF LatestInv

(* The rotation takes the latest token of a consent, which no other        *)
(* refresh is about to replace.                                            *)
LEMMA RotationLatest ==
  ASSUME OwnInv, LatestInv, NEW r \in Refresher, RefreshGrant(r), intuit' # intuit
  PROVE  LatestInv'
<1>1. PICK c, g, u : /\ c = refreshing[r].row.token.consent
                     /\ g = refreshing[r].row.token.gen /\ u = refreshing[r].of
  OBVIOUS
<1>2. /\ UNCHANGED <<conn, consenting>>
      /\ refreshing[r].pc = "grant"
      /\ intuit[c].gen = g
      /\ intuit' = [intuit EXCEPT ![c].gen = @ + 1]
      /\ \/ refreshing' = [refreshing EXCEPT ![r].pc = "store"] /\ lost' = lost
         \/ refreshing' = [refreshing EXCEPT ![r] = IdleRefresh] /\ lost' = lost \cup {c}
  BY <1>1 DEF RefreshGrant, Live
<1>3. /\ OwnToken(refreshing[r].row.token, u) /\ u \in Subscriber
      /\ NotAhead(refreshing[r].row.token)
      /\ c \in Consent /\ g \in Nat /\ consenting[c].by = u
  BY <1>1, <1>2 DEF OwnInv, RefreshesOwn, LatestInv, RefreshesNotAhead, OwnToken
<1>4. /\ \A n \in Consent \ {c} : intuit'[n] = intuit[n]
      /\ intuit'[c].gen = g + 1 /\ intuit'[c].dead = intuit[c].dead
  BY <1>2, <1>3 DEF OwnInv, Types, IntuitOK
<1>5. /\ \A q \in Refresher \ {r} : refreshing'[q] = refreshing[q]
      /\ \/ /\ refreshing'[r].pc = "store" /\ refreshing'[r].row = refreshing[r].row
            /\ lost' = lost
         \/ refreshing'[r].pc = "idle" /\ lost' = lost \cup {c}
  BY <1>1, <1>2 DEF OwnInv, Types, RefreshingOK, IdleRefresh
<1>6. \A q \in Refresher : Storing(q) => refreshing[q].row.token.consent # c
  BY <1>1, <1>2, <1>3 DEF NotAhead
<1>7. ASSUME NEW token, NEW v, OwnToken(token, v), NotAhead(token)
      PROVE  NotAhead(token)'
  <2>1. token.consent \in Consent /\ token.gen \in Nat
    BY <1>7 DEF OwnToken
  <2>2. CASE token.consent = c
    <3>1. token.gen <= g
      BY <1>7, <1>2, <2>2 DEF NotAhead
    <3>2. token.gen < intuit'[token.consent].gen
      BY <3>1, <2>1, <2>2, <1>3, <1>4
    <3>3. QED
      BY <3>2, <2>1, <2>2, <1>3, <1>4 DEF NotAhead
  <2>3. CASE token.consent # c
    <3>1. \A q \in Refresher :
            Storing(q)' /\ refreshing'[q].row.token.consent = token.consent =>
              Storing(q) /\ refreshing[q].row.token.consent = token.consent
      BY <2>3, <1>1, <1>5 DEF Storing
    <3>2. intuit'[token.consent].gen = intuit[token.consent].gen
      BY <2>1, <2>3, <1>4
    <3>3. QED
      BY <3>1, <3>2, <1>7 DEF NotAhead
  <2>4. QED
    BY <2>2, <2>3
<1>8. RowsNotAhead'
  <2> SUFFICES ASSUME NEW v \in Subscriber, conn[v].token # NoToken
               PROVE  NotAhead(conn[v].token)'
    BY <1>2 DEF RowsNotAhead, NotAhead, Storing
  <2>1. OwnToken(conn[v].token, v) /\ NotAhead(conn[v].token)
    BY DEF OwnInv, RowsOwn, LatestInv, RowsNotAhead
  <2>2. PICK token : token = conn[v].token
    OBVIOUS
  <2>3. NotAhead(token)'
    BY <2>1, <2>2, <1>7
  <2>4. conn'[v].token = token
    BY <2>2, <1>2
  <2>5. QED
    BY <2>3, <2>4 DEF NotAhead, Storing
<1>9. RefreshesNotAhead'
  <2> SUFFICES ASSUME NEW q \in Refresher, refreshing'[q].pc # "idle"
               PROVE  NotAhead(refreshing[q].row.token)'
    BY DEF RefreshesNotAhead
  <2>1. refreshing[q].pc # "idle" /\ refreshing'[q].row = refreshing[q].row
    BY <1>2, <1>5
  <2>2. PICK token : token = refreshing[q].row.token
    OBVIOUS
  <2>3. OwnToken(token, refreshing[q].of) /\ NotAhead(token)
    BY <2>1, <2>2 DEF OwnInv, RefreshesOwn, LatestInv, RefreshesNotAhead
  <2>4. NotAhead(token)'
    BY <2>3, <1>7
  <2>5. QED
    BY <2>1, <2>2, <2>4 DEF NotAhead, Storing
<1>10. StoresTold'
  <2> SUFFICES ASSUME NEW q \in Refresher, Storing(q)'
               PROVE  intuit'[refreshing'[q].row.token.consent].gen
                        = refreshing'[q].row.token.gen + 1
    BY DEF StoresTold
  <2>1. CASE q = r
    BY <2>1, <1>1, <1>4, <1>5 DEF Storing
  <2>2. CASE q # r
    <3>1. Storing(q) /\ refreshing'[q] = refreshing[q]
      BY <2>2, <1>5 DEF Storing
    <3>2. /\ refreshing[q].row.token.consent \in Consent \ {c}
          /\ intuit[refreshing[q].row.token.consent].gen
               = refreshing[q].row.token.gen + 1
      BY <3>1, <1>6 DEF Storing, OwnInv, RefreshesOwn, OwnToken, LatestInv, StoresTold
    <3>3. QED
      BY <3>1, <3>2, <1>4
  <2>3. QED
    BY <2>1, <2>2
<1>11. StoresApart'
  BY <1>1, <1>5, <1>6 DEF LatestInv, StoresApart, Storing
<1>12. StoredTokenIsLive'
  <2> SUFFICES ASSUME NEW v \in Subscriber,
                      Loadable(conn[v]), conn[v].token.consent \notin lost',
                      ~intuit'[conn[v].token.consent].dead,
                      ~(\E q \in Refresher :
                          /\ refreshing'[q].pc = "store"
                          /\ refreshing'[q].row.token = conn[v].token)
               PROVE  Live(conn[v].token)'
    BY <1>2 DEF StoredTokenIsLive, Loadable
  <2>1. OwnToken(conn[v].token, v) /\ conn[v].token.consent \in Consent
    BY DEF OwnInv, RowsOwn, Loadable, OwnToken
  <2>2. CASE conn[v].token.consent = c
    <3>1. refreshing'[r].pc = "store" /\ refreshing'[r].row = refreshing[r].row
          /\ lost' = lost
      BY <2>2, <1>5
    <3>2. ~Replacing(conn[v].token) /\ ~intuit[c].dead
      BY <2>2, <1>4, <1>6 DEF Replacing
    <3>3. Live(conn[v].token)
      BY <2>2, <3>1, <3>2 DEF LatestInv, StoredTokenIsLive, Replacing, Storing
    <3>4. conn[v].token.gen = g
      BY <2>2, <3>3, <1>2 DEF Live
    <3>5. conn[v].token \in Token /\ refreshing[r].row.token \in Token
      BY DEF OwnInv, Types, ConnOK, RefreshingOK, ConnRow
    <3>6. conn[v].token = refreshing[r].row.token
      BY <2>2, <3>4, <3>5, <1>1 DEF Token
    <3>7. QED
      BY <3>1, <3>6
  <2>3. CASE conn[v].token.consent # c
    <3>1. ~Replacing(conn[v].token)
      <4> SUFFICES ASSUME NEW q \in Refresher, Storing(q),
                          refreshing[q].row.token = conn[v].token
                   PROVE  FALSE
        BY DEF Replacing
      <4>1. q # r
        BY <1>2 DEF Storing
      <4>2. refreshing'[q] = refreshing[q]
        BY <4>1, <1>5
      <4>3. QED
        BY <4>2 DEF Storing
    <3>2. Live(conn[v].token)
      BY <2>1, <2>3, <3>1, <1>4, <1>5 DEF LatestInv, StoredTokenIsLive, Replacing, Storing
    <3>3. QED
      BY <2>1, <2>3, <3>2, <1>2, <1>4 DEF Live
  <2>4. QED
    BY <2>2, <2>3
<1>13. QED
  BY <1>8, <1>9, <1>10, <1>11, <1>12 DEF LatestInv

(* A refresh that gives up, or goes on to flag the row, holds no news.     *)
LEMMA GivesUpLatest ==
  ASSUME OwnInv, LatestInv, NEW r \in Refresher,
         UNCHANGED <<intuit, lost>>,
         \A u \in Subscriber : conn'[u].token = conn[u].token
                             /\ conn'[u].realm = conn[u].realm,
         ~Storing(r), refreshing'[r].pc \in {"idle", "flag"},
         refreshing'[r].pc = "flag" =>
           refreshing[r].pc # "idle" /\ refreshing'[r].row = refreshing[r].row,
         \A q \in Refresher \ {r} : refreshing'[q] = refreshing[q]
  PROVE  LatestInv'
<1>1. \A q \in Refresher :
        /\ Storing(q)' <=> Storing(q)
        /\ Storing(q) => refreshing'[q] = refreshing[q]
  BY DEF Storing
<1>2. RowsNotAhead'
  BY <1>1 DEF LatestInv, RowsNotAhead, NotAhead
<1>3. RefreshesNotAhead'
  <2> SUFFICES ASSUME NEW q \in Refresher, refreshing'[q].pc # "idle"
               PROVE  NotAhead(refreshing[q].row.token)'
    BY DEF RefreshesNotAhead
  <2>1. refreshing[q].pc # "idle" /\ refreshing'[q].row = refreshing[q].row
    OBVIOUS
  <2>2. NotAhead(refreshing[q].row.token)
    BY <2>1 DEF LatestInv, RefreshesNotAhead
  <2>3. QED
    BY <1>1, <2>1, <2>2 DEF NotAhead
<1>4. StoresTold' /\ StoresApart'
  BY <1>1 DEF LatestInv, StoresTold, StoresApart
<1>5. StoredTokenIsLive'
  <2>1. \A u \in Subscriber : Loadable(conn[u])' <=> Loadable(conn[u])
    BY DEF Loadable
  <2>2. QED
    BY <1>1, <2>1 DEF LatestInv, StoredTokenIsLive, Storing, Live
<1>6. QED
  BY <1>2, <1>3, <1>4, <1>5 DEF LatestInv

LEMMA RefreshGrantLatest ==
  ASSUME OwnInv, LatestInv, NEW r \in Refresher, RefreshGrant(r)
  PROVE  LatestInv'
<1>1. CASE intuit' # intuit
  BY <1>1, RotationLatest
<1>2. CASE intuit' = intuit
  <2>1. refreshing[r].row.token.consent \in Consent
        /\ refreshing[r].row.token.gen \in Nat
    BY DEF RefreshGrant, OwnInv, RefreshesOwn, OwnToken
  <2>2. /\ UNCHANGED <<conn, lost>>
        /\ refreshing[r].pc = "grant"
        /\ \/ refreshing' = [refreshing EXCEPT ![r].pc = "flag"]
           \/ refreshing' = [refreshing EXCEPT ![r] = IdleRefresh]
    BY <1>2, <2>1 DEF RefreshGrant, Live, OwnInv, Types, IntuitOK
  <2>3. /\ refreshing'[r].pc \in {"idle", "flag"}
        /\ refreshing'[r].pc = "flag" => refreshing'[r].row = refreshing[r].row
        /\ \A q \in Refresher \ {r} : refreshing'[q] = refreshing[q]
    BY <2>2 DEF OwnInv, Types, RefreshingOK, IdleRefresh
  <2>4. QED
    BY <1>2, <2>2, <2>3, GivesUpLatest DEF Storing
<1>3. QED
  BY <1>1, <1>2

LEMMA RefreshFlagsLatest ==
  ASSUME OwnInv, LatestInv, NEW r \in Refresher, RefreshFlags(r)
  PROVE  LatestInv'
<1>1. /\ UNCHANGED <<intuit, lost>>
      /\ refreshing[r].pc = "flag"
      /\ refreshing'[r].pc = "idle"
      /\ \A q \in Refresher \ {r} : refreshing'[q] = refreshing[q]
  BY DEF RefreshFlags, OwnInv, Types, RefreshingOK, IdleRefresh
<1>2. \A u \in Subscriber :
        conn'[u].token = conn[u].token /\ conn'[u].realm = conn[u].realm
  <2>1. \A row \in ConnRow : /\ [row EXCEPT !.flagged = TRUE].token = row.token
                            /\ [row EXCEPT !.flagged = TRUE].realm = row.realm
    BY DEF ConnRow
  <2>2. QED
    BY <2>1 DEF RefreshFlags, OwnInv, Types, ConnOK
<1>3. QED
  BY <1>1, <1>2, GivesUpLatest DEF Storing

LEMMA RefreshStoresLatest ==
  ASSUME OwnInv, LatestInv, NEW r \in Refresher, RefreshStores(r)
  PROVE  LatestInv'
<1>1. PICK c, g, u : /\ c = refreshing[r].row.token.consent
                     /\ g = refreshing[r].row.token.gen /\ u = refreshing[r].of
  OBVIOUS
<1>2. /\ UNCHANGED intuit
      /\ Storing(r) /\ refreshing'[r].pc = "idle"
      /\ \A q \in Refresher \ {r} : refreshing'[q] = refreshing[q]
  BY DEF RefreshStores, OwnInv, Types, RefreshingOK, IdleRefresh, Storing
<1>3. /\ u \in Subscriber /\ OwnToken(refreshing[r].row.token, u)
      /\ intuit[c].gen = g + 1
      /\ \A q \in Refresher \ {r} :
           Storing(q) => refreshing[q].row.token.consent # c
  BY <1>1, <1>2 DEF OwnInv, RefreshesOwn, LatestInv, StoresTold, StoresApart, Storing
<1>4. \/ conn' = conn /\ lost' = lost \cup {c}
      \/ conn'[u].token = [consent |-> c, gen |-> g + 1] /\ lost' = lost
  <2>1. refreshing[r].row.token \in Token /\ conn[u] \in ConnRow
    BY <1>3 DEF OwnInv, Types, RefreshingOK, ConnRow, ConnOK
  <2>2. [refreshing[r].row.token EXCEPT !.gen = @ + 1] = [consent |-> c, gen |-> g + 1]
    BY <1>1, <2>1 DEF Token
  <2>3. Rotated(conn[u], refreshing[r].row).token = [consent |-> c, gen |-> g + 1]
    BY <2>1, <2>2 DEF Rotated, ConnRow
  <2>4. QED
    BY <2>3, <1>1, <1>3 DEF RefreshStores, OwnInv, Types, ConnOK
<1>5. \A v \in Subscriber \ {u} : conn'[v] = conn[v]
  BY <1>1 DEF RefreshStores, OwnInv, Types, ConnOK
<1>6. \A q \in Refresher :
        /\ Storing(q)' <=> Storing(q) /\ q # r
        /\ Storing(q)' => refreshing'[q] = refreshing[q]
  BY <1>2 DEF Storing
<1>7. \A token : NotAhead(token) => NotAhead(token)'
  BY <1>2, <1>6 DEF NotAhead
<1>8. RowsNotAhead'
  <2> SUFFICES ASSUME NEW v \in Subscriber, conn'[v].token # NoToken
               PROVE  NotAhead(conn[v].token)'
    BY DEF RowsNotAhead
  <2>1. CASE conn'[v] = conn[v]
    <3>1. NotAhead(conn[v].token)
      BY <2>1 DEF LatestInv, RowsNotAhead
    <3>2. QED
      BY <2>1, <3>1, <1>2, <1>6 DEF NotAhead
  <2>2. CASE conn'[v] # conn[v]
    <3>1. conn'[v].token = [consent |-> c, gen |-> g + 1]
      BY <2>2, <1>4, <1>5
    <3>2. g + 1 \in Nat
      BY <1>1, <1>3 DEF OwnToken
    <3>3. \A q \in Refresher : Storing(q)' => refreshing'[q].row.token.consent # c
      BY <1>3, <1>6
    <3>4. QED
      BY <3>1, <3>2, <3>3, <1>2, <1>3 DEF NotAhead
  <2>3. QED
    BY <2>1, <2>2
<1>9. RefreshesNotAhead'
  <2> SUFFICES ASSUME NEW q \in Refresher \ {r}, refreshing'[q].pc # "idle"
               PROVE  NotAhead(refreshing[q].row.token)'
    BY <1>2 DEF RefreshesNotAhead
  <2>1. NotAhead(refreshing[q].row.token) /\ refreshing'[q] = refreshing[q]
    BY <1>2 DEF LatestInv, RefreshesNotAhead
  <2>2. QED
    BY <2>1, <1>2, <1>6 DEF NotAhead
<1>10. StoresTold' /\ StoresApart'
  BY <1>2, <1>6 DEF LatestInv, StoresTold, StoresApart
<1>11. StoredTokenIsLive'
  <2> SUFFICES ASSUME NEW v \in Subscriber,
                      Loadable(conn[v])', conn'[v].token.consent \notin lost',
                      ~intuit[conn'[v].token.consent].dead,
                      ~(\E q \in Refresher :
                          /\ refreshing'[q].pc = "store"
                          /\ refreshing'[q].row.token = conn'[v].token)
               PROVE  Live(conn[v].token)'
    BY <1>2 DEF StoredTokenIsLive
  <2>1. CASE v = u /\ conn' # conn
    <3>1. conn'[u].token = [consent |-> c, gen |-> g + 1]
      BY <2>1, <1>4
    <3>2. QED
      BY <2>1, <3>1, <1>2, <1>3 DEF Live
  <2>2. CASE v # u \/ conn' = conn
    <3>1. conn'[v] = conn[v]
      BY <2>2, <1>5
    <3>2. OwnToken(conn[v].token, v)
      BY <3>1 DEF OwnInv, RowsOwn, Loadable
    <3>3. refreshing[r].row.token # conn[v].token
      BY <2>2, <3>1, <3>2, <1>1, <1>3, <1>4 DEF OwnToken
    <3>4. ~Replacing(conn[v].token)
      BY <3>1, <3>3, <1>2 DEF Replacing, Storing
    <3>5. lost \subseteq lost'
      BY <1>4
    <3>6. Live(conn[v].token)
      BY <3>1, <3>4, <3>5 DEF LatestInv, StoredTokenIsLive, Loadable, Replacing, Storing
    <3>7. QED
      BY <3>1, <3>6, <1>2 DEF Live
  <2>3. QED
    BY <2>1, <2>2
<1>12. QED
  BY <1>8, <1>9, <1>10, <1>11 DEF LatestInv

LEMMA LatestStep == OwnInv /\ LatestInv /\ [ConnNext]_qboVars => LatestInv'
<1> SUFFICES ASSUME OwnInv, LatestInv, [ConnNext]_qboVars
             PROVE  LatestInv'
  OBVIOUS
<1>1. CASE UNCHANGED <<conn, intuit, refreshing, lost>>
  BY <1>1, LatestKept
<1>2. ASSUME NEW n \in Consent, GrantDies(n)
      PROVE  LatestInv'
  BY <1>2, LatestKept DEF GrantDies, OwnInv, Types, IntuitOK
<1>3. ASSUME NEW n \in Consent, NEW realm \in Realm, CallbackExchanges(n, realm)
      PROVE  LatestInv'
  <2>1. ~Settled(n)
    BY <1>3 DEF CallbackExchanges, Settled
  <2>2. QED
    BY <1>3, <2>1, LatestKept DEF CallbackExchanges, OwnInv, Types, IntuitOK
<1>4. QED
  BY <1>1, <1>2, <1>3, DisconnectVoidsLatest, CallbackStoresLatest, RefreshReadsLatest,
     RefreshGrantLatest, RefreshFlagsLatest, RefreshStoresLatest
     DEF ConnNext, qboVars, SignIn, SaveBusinessName, DisconnectReads, CookieExpires,
         StartConnect, CallbackRefuses, PrefillReads, PrefillWrites

(* The stored refresh token is the one that Intuit honours, unless a       *)
(* refresh is about to store its successor, the grant is dead, or Intuit's *)
(* answer or the update with it was lost; also when refreshes, consents    *)
(* and disconnects overlap, as long as Intuit refuses a token once it has  *)
(* rotated it (tokens.ts).                                                 *)
THEOREM StoredTokensAreLive == ConnSpec => []StoredTokenIsLive
<1>1. LatestInv => StoredTokenIsLive
  BY DEF LatestInv
<1>2. QED
  BY <1>1, OwnInit, OwnStep, LatestInit, LatestStep, PTL DEF ConnSpec

=============================================================================
