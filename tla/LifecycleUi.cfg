SPECIFICATION Spec
CONSTANTS
  Invoices = {i1}
  Requests = {r1, r2, r3, r4}
  Ops <- MCUiOps
  MaxTasks = 2
  Workers = 2
  MaxCrashes = 1
  MaxDbFaults = 1
  NoOne = NoOne
SYMMETRY Symmetry
CHECK_DEADLOCK FALSE
INVARIANTS RowLockDiscipline EachVersionConsumedOnce RunningHasJob VerdictIsTruthful DecisionIsAudited
PROPERTIES VerdictIsFinal ReviewIsFinal CorrectionKept
