SPECIFICATION OutreachSpec
CONSTANTS
  i1 = i1
  c1 = c1
  c2 = c2
  r1 = r1
  r2 = r2
  t1 = t1
  t2 = t2
  v1 = v1
  v2 = v2
  Contact = {c1, c2}
  Address = {a1}
  NoAddress = NoAddress
  Stranger = Stranger
  MaxRank = 1
  MaxEdits = 0
  Sender = {r1, r2, t1, t2}
  Invoice = {i1}
  MaxMails = 2
  AnswersLost = TRUE
  Run = {r1, r2}
  MaxRuns = 2
  StepChannel <- MCStepChannel
  StepOffset <- MCSameDay
  DueDate <- MCDueDate
  FirstDay = 6
  LastDay = 7
  ReadsFail = TRUE
  MaxEvents = 0
  Call = {v1, v2}
  Tool = {t1, t2}
  MaxTools = 2
  CallInvoice <- MCCallInvoice
  TestCall = {v2}
  HandoffMode = "live"
  Fenced = {}
SYMMETRY Symmetry
INVARIANTS
  StepMailedOnce
  OneMailPerCall
  NullMeansUnsent
  StampIsContact
CONSTRAINT RunsOrOneCall
CHECK_DEADLOCK FALSE
