SPECIFICATION ConnSpec
CONSTANTS
  Subscriber = {u1, u2}
  Realm = {A, B}
  NoRealm = NoRealm
  Consent = {n1, n2}
  NoConsent = NoConsent
  Refresher = {r1, r2}
  MaxGen = 2
CONSTRAINT OverlapOrNames
SYMMETRY Interchangeable
INVARIANTS
  ConnectedByConsent
  TokensAreOwn
  StoredTokenIsLive
PROPERTIES
  ChosenNameStays
CHECK_DEADLOCK FALSE
