SPECIFICATION FairSweepSpec
CONSTANTS
  u1 = u1
  w1 = w1
  l1 = l1
  l2 = l2
  l3 = l3
  l4 = l4
  Sweep = {w1}
  Subscriber = {u1}
  Line = {l1, l2, l3}
  Settlement <- MCSettlement
  SubscriberOf <- MCSubscriberOf
  LineSubscriber <- OneSubscriber
  Rank <- MCRank
  FeeCents <- MCFeeCents
  PrepaidLine = {l3}
  Page = 2
  MinChargeCents = 2
  MaxTime = 6
  SweepSwitchMoves = TRUE
  MaxSweepCrashes = 1
  Subscribers = {"chargeable", "inactive"}
  MaxAttempts = 2
  MaxInvoices = 1
INVARIANTS
  EachFeeInOneSettlement
  BillsOnlyWhatIsOwed
  SettlementsReconcile
PROPERTIES
  EveryFeeIsBilled
