SPECIFICATION SubSpec
CONSTANTS
  q1 = q1
  q2 = q2
  h1 = h1
  h2 = h2
  Request = {q1, q2}
  Handler = {h1, h2}
  Free = Free
  SelfServe = {Pro}
  Faults = {"lookup", "unchecked", "write", "audit", "death"}
  MaxSubscriptions = 1
  MaxEvents = 4
  MaxDeliveries = 2
SYMMETRY Symmetry
CONSTRAINTS
  RequestsThenDeliveries
  OneTroubleEach
INVARIANTS
  SessionsUseStoredCustomer
  LedgerIsStripes
  OneMailPerEvent
CHECK_DEADLOCK FALSE
