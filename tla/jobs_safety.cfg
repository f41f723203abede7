SPECIFICATION Spec
CONSTANTS
  Jobs = {d1}
  TemporalJobs = {}
  Workers = {w1, w2}
  CallbackProgress <- MCCallbackProgress
  AcksLate = TRUE
  Faults <- MCRedelivery
  MaxCancels = 1
  MaxDeliveries = 2
  NoRow = NoRow
  NoTx = NoTx
  NoJob = NoJob
CHECK_DEADLOCK FALSE
SYMMETRY MCSymmetry
INVARIANTS TypeOK StampsCoherent AtMostOneLateWrite
PROPERTIES CancelIsSticky
