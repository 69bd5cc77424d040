SPECIFICATION OutreachSpec
CONSTANTS
  i1 = i1
  c1 = c1
  c2 = c2
  r1 = r1
  r2 = r2
  t1 = t1
  t2 = t2
  v1 = v1
  v2 = v2
  Contact = {c1, c2}
  Address = {a1}
  NoAddress = NoAddress
  Stranger = Stranger
  MaxRank = 2
  MaxEdits = 1
  Sender = {r1}
  Invoice = {i1}
  MaxMails = 2
  AnswersLost = FALSE
  Run = {r1}
  MaxRuns = 2
  StepChannel <- MCStepChannel
  StepOffset <- MCSameDay
  DueDate <- MCDueDate
  FirstDay = 7
  LastDay = 7
  ReadsFail = TRUE
  MaxEvents = 1
  Call = {}
  Tool = {}
  MaxTools = 0
  CallInvoice <- MCCallInvoice
  TestCall = {}
  HandoffMode = "live"
  Fenced = {}
SYMMETRY Symmetry
PROPERTIES
  UnsubscribedIsLeftAlone
CHECK_DEADLOCK FALSE
