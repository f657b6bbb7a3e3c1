CONSTANTS
  c1 = c1
  c2 = c2
  c3 = c3
  Calls = {c1, c2, c3}
  NoAmount = NoAmount
  NoOrder = NoOrder
  NoLink = NoLink
  NoPass = NoPass
  Origin = Origin
  Reference = "PO7"
  SupplierName = "acme"
  Base = "USD"
  Known = {1}
  History <- MCHistory
  Readings <- MCReadings
  Payloads <- MCPayloads
  Others <- MCOthers
  Tol <- MCTol
  Ratio <- MCRatio
SYMMETRY MCSymmetry
CHECK_DEADLOCK FALSE
SPECIFICATION Spec
INVARIANTS
  TypeOK
  PassesApplyWhole
  DuplicatesExplained
  ConfirmationKept
  PassesNeverDeadlock
  CacheNeverGoesBack
