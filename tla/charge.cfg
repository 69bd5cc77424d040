SPECIFICATION FairChargeSpec
CONSTANTS
  s1 = s1
  u1 = u1
  l1 = l1
  l2 = l2
  l3 = l3
  Settlement <- MCSettlement
  Subscriber = {u1}
  SubscriberOf <- MCSubscriberOf
  Line <- MCLine
  FeeCents <- MCFeeCents
  MaxAttempts = 2
  MaxInvoices = 2
  KeysExpire = TRUE
  MaxDeclines = 1
  Run = {r1, r2}
  Hook = {h1}
  InitialBooks <- MCInitialBooks
  RowCap = 2
  BatchLimit = 1
  AttemptBound = 2
  Subscribers = {"chargeable", "inactive"}
  SwitchMoves = TRUE
  MaxCrashes = 1
INVARIANTS
  InvoiceIsTheBill
  SingleFlight
  ChargedOnce
  PaidIsCollected
PROPERTIES
  PaidIsFinal
  EverySettlementSettles
CONSTRAINT OneTroubleEach
CHECK_DEADLOCK FALSE
