CONSTANTS
  r1 = r1
  r2 = r2
  r3 = r3
  r4 = r4
  Requests = {r1, r2, r3, r4}
  t1 = t1
  t2 = t2
  Tasks = {t1, t2}
  NoTask = NoTask
  MaxPolls = 3
  Limits = {0, 2}
  Window = 2
  MaxTime = 4
  NoAmount = NoAmount
  NoOrder = NoOrder
  MaxAmount = 100000000
  Ratio <- MCRatio
SYMMETRY MCSymmetry
CHECK_DEADLOCK FALSE
SPECIFICATION MCSpec
INVARIANTS
  FullScoreIffNoGap
  RepeatedOrderMatches
  AmountsReadAsPrinted
  InvoiceReadAsPrinted
  WindowBound
  RestingPageTellsTheEnd
