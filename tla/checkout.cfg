SPECIFICATION FairSpec
CONSTANTS
  a1 = a1
  a2 = a2
  o1 = o1
  o2 = o2
  Account = {a1}
  NoAccount = NoAccount
  Onboarding = {}
  StatusCheck = {}
  AccountMoves = FALSE
  Link = {l1}
  NoLink = NoLink
  Session = {s1, s2}
  NoSession = NoSession
  Issue = {g1}
  Visit = {v1}
  Gates = {}
  OnFile = {"number"}
  Qualifies = TRUE
  Delivery = {d1, d2}
  MaxAttempts = 2
CONSTRAINTS
  OneSessionAtOnce
  OneOverlaps
  ReportsAreLate
INVARIANTS
  FeeOnlyForPaidLink
  PostedAtMostOnce
PROPERTIES
  PaidIsRecorded
CHECK_DEADLOCK FALSE
