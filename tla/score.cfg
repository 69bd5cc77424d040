SPECIFICATION ScoreSpec
CONSTANTS
  i1 = i1
  i2 = i2
  Invoice = {i1, i2}
  Request = {r1, r2}
  Books <- MCBooks
  Evidence <- MCEvidence
  FirstDay = 200
  LastDay = 202
  MonthLength = 101
  MaxChanges = 1
  NoDate = NoDate
  NoRow = NoRow
CONSTRAINT FewBooksMove
SYMMETRY Symmetry
INVARIANTS
  RowMissesNothingBeforeItsDay
  TimingsIgnoreOrder
  PayingLaterNeverHelps
CHECK_DEADLOCK FALSE
