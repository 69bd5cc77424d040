SPECIFICATION CaptureSpec
CONSTANTS
  i1 = i1
  p1 = p1
  p2 = p2
  NoAnchor = NoAnchor
  Invoice = {i1}
  Payment = {p1}
  InvoiceOf <- MCInvoiceOf
  AmountCents <- MCAmountCents
  FaceCents <- MCFaceCents
  DueDate <- MCDueDate
  Undated = {}
  MaxBackdating = 0
  MaxTime = 4
  Notification <- OneEach
  Worker = {w1, w2}
  Sync = {y1}
  MinFaceCents = 3
  MaxAttempts = 2
  BatchLimit = 2
  OneAtATime = FALSE
  BestEffortFails = FALSE
  MovingGate = {}
  MaxDeliveries = 1
  MaxStops = 0
INVARIANTS
  DropsAreCountedOnce
CHECK_DEADLOCK FALSE
