SPECIFICATION FairCaptureSpec
CONSTANTS
  i1 = i1
  p1 = p1
  p2 = p2
  NoAnchor = NoAnchor
  Invoice = {i1}
  Payment = {p1}
  InvoiceOf <- MCInvoiceOf
  AmountCents <- MCAmountCents
  FaceCents <- MCFaceCents
  DueDate <- MCDueDate
  Undated = {p1}
  MaxBackdating = 1
  MaxTime = 4
  Notification <- OneEach
  Worker = {w1}
  Sync = {y1}
  MinFaceCents = 3
  MaxAttempts = 2
  BatchLimit = 2
  OneAtATime = TRUE
  BestEffortFails = FALSE
  MovingGate = {"active", "source", "connected"}
  MaxDeliveries = 1
  MaxStops = 2
INVARIANTS
  FeeOnlyAfterOutreach
  DropsAreCountedOnce
  NoDropIsLost
PROPERTIES
  EveryEventIsHandled
  EarnedFeeIsCaptured
CHECK_DEADLOCK FALSE
