SPECIFICATION FairRefundSpec
CONSTANTS
  s1 = s1
  u1 = u1
  Settlement = {s1}
  Subscriber = {u1}
  SubscriberOf <- MCSubscriberOf
  Line = {}
  FeeCents <- NoFees
  MaxAttempts = 2
  MaxInvoices = 1
  Subscribers = {"chargeable", "inactive"}
  Caller = {c1, c2}
  RefundHook = {h1}
  MaxRefundRows = 2
  MaxRefunds = 1
  AsyncRefunds = TRUE
  StripeFails = TRUE
  RefundKeysExpire = TRUE
  SlowCallers = FALSE
  CallsDie = TRUE
  RefundSwitch = {TRUE}
  MaxRefundCrashes = 1
INVARIANTS
  SucceededRowIsReturned
PROPERTIES
  EveryRefundSettles
CHECK_DEADLOCK FALSE
