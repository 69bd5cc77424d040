SPECIFICATION Spec
CONSTANTS
  a1 = a1
  a2 = a2
  o1 = o1
  o2 = o2
  Account = {a1, a2}
  NoAccount = NoAccount
  Onboarding = {o1, o2}
  StatusCheck = {q1}
  AccountMoves = TRUE
  Link = {l1, l2}
  NoLink = NoLink
  Session = {s1}
  NoSession = NoSession
  Issue = {g1}
  Visit = {v1}
  Gates = {"number", "zip"}
  OnFile = {"number"}
  Qualifies = TRUE
  Delivery = {}
  MaxAttempts = 1
SYMMETRY AlikeAccounts
CONSTRAINT TwoTabs
INVARIANTS
  SessionsPayReviewedAccount
CHECK_DEADLOCK FALSE
