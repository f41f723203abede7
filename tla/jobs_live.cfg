SPECIFICATION FairSpec
CONSTANTS
  Jobs = {t1}
  TemporalJobs = {t1}
  Workers = {w1}
  CallbackProgress <- MCCallbackProgress
  AcksLate = TRUE
  Faults <- MCCrashes
  MaxCancels = 1
  MaxDeliveries = 2
  NoRow = NoRow
  NoTx = NoTx
  NoJob = NoJob
CHECK_DEADLOCK FALSE
PROPERTIES CancelStopsWork SentTaskReturns TasksNeverRevive
