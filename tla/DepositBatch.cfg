SPECIFICATION Spec
CONSTANTS
  k1 = k1
  k2 = k2
  r1 = r1
  r2 = r2
  r3 = r3
  Keys = {k1, k2}
  Illegible = Illegible
  Requests = {r1, r2, r3}
  Batches <- MCBatches
  MaxFaults = 0
CHECK_DEADLOCK FALSE
INVARIANTS BatchIsIndependent
