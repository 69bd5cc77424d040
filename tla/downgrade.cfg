SPECIFICATION SubSpec
CONSTANTS
  q1 = q1
  q2 = q2
  h1 = h1
  h2 = h2
  Request = {q1, q2}
  Handler = {h1}
  Free = Free
  SelfServe = {Pro}
  Faults = {"lookup", "write", "death"}
  MaxSubscriptions = 2
  MaxEvents = 5
  MaxDeliveries = 2
SYMMETRY Symmetry
PROPERTIES
  PayingIsKept
CHECK_DEADLOCK FALSE
