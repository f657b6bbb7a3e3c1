SPECIFICATION FairSpec
CONSTANTS
  Invoices = {i1}
  Requests = {r1, r2, r3}
  Ops <- MCSwapOps
  MaxTasks = 2
  Workers = 1
  MaxCrashes = 1
  MaxDbFaults = 0
  NoOne = NoOne
CHECK_DEADLOCK FALSE
INVARIANTS EachVersionConsumedOnce
PROPERTIES GraphRefined JobsSettle RunningSettles WritersProceed
