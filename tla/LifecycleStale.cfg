SPECIFICATION Spec
CONSTANTS
  Invoices = {i1}
  Requests = {r1, r2, r3}
  Ops <- MCReviewOps
  MaxTasks = 2
  Workers = 2
  MaxCrashes = 0
  MaxDbFaults = 0
  NoOne = NoOne
SYMMETRY Symmetry
CHECK_DEADLOCK FALSE
PROPERTIES NoStaleWrite
