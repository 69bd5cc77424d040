SPECIFICATION FairSweepSpec
CONSTANTS
  u1 = u1
  w1 = w1
  l1 = l1
  l2 = l2
  l3 = l3
  l4 = l4
  Sweep = {w1, w2}
  Subscriber = {u1}
  Line = {l1, l2, l3, l4}
  Settlement <- MCSettlement
  SubscriberOf <- MCSubscriberOf
  LineSubscriber <- OneSubscriber
  Rank <- MCRank
  FeeCents <- MCFeeCents
  PrepaidLine = {l3}
  Page = 2
  MinChargeCents = 2
  MaxTime = 6
  SweepSwitchMoves = TRUE
  MaxSweepCrashes = 1
  Subscribers = {"chargeable", "inactive"}
  MaxAttempts = 2
  MaxInvoices = 1
CONSTRAINT ReadsAreShort
CONSTRAINT OneSweepTrouble
CONSTRAINT MovesBetween
CONSTRAINT FirstIsAhead
CONSTRAINT PrepaidIsFirst
INVARIANTS
  EachFeeInOneSettlement
  BillsOnlyWhatIsOwed
PROPERTIES
  BooksAreFrozen
  EveryFeeIsBilled
