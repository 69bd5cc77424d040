SPECIFICATION LifecycleSpec
CONSTANTS
  s1 = s1
  u1 = u1
  l1 = l1
  SubscriberOf <- MCSubscriberOf
  FeeCents <- MCFeeCents
  InitialBooks <- MCInitialBooks
  Settlement = {s1}
  Subscriber = {u1}
  Line = {l1}
  MaxAttempts = 2
  MaxInvoices = 2
  Subscribers = {"chargeable"}
  KeysExpire = TRUE
  MaxDeclines = 1
  Run = {r1}
  Hook = {h1}
  RowCap = 10
  BatchLimit = 1
  SwitchMoves = FALSE
  AttemptBound = 2
  MaxCrashes = 0
  Caller = {c1}
  RefundHook = {h2}
  MaxRefundRows = 2
  MaxRefunds = 2
  AsyncRefunds = TRUE
  StripeFails = TRUE
  RefundKeysExpire = FALSE
  SlowCallers = FALSE
  CallsDie = TRUE
  RefundSwitch = {TRUE}
  MaxRefundCrashes = 0
INVARIANTS
  LifecycleTypeOK
  RefundedIsReturned
PROPERTIES
  ImplementsFeeCollection
CONSTRAINT LapseOrDecline
CHECK_DEADLOCK FALSE
