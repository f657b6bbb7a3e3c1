SPECIFICATION Spec
CONSTANTS
  i1 = i1
  i2 = i2
  r1 = r1
  r2 = r2
  r3 = r3
  Invoices <- MCInvoices
  Ref <- MCRef
  Requests <- MCRequests
  Target <- MCTarget
  MaxFaults = 2
  NoOne = NoOne
SYMMETRY Symmetry
CHECK_DEADLOCK FALSE
PROPERTIES AttemptsCounted
