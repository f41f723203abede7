SPECIFICATION FairPreflightSpec
CONSTANTS
  Callers = {c1, c2, c3}
  Faults <- MCAllFaults
INVARIANTS PreflightTypeOK ShortLockExcludes
PROPERTIES FreshPreflightStays EveryPreflightReturns
CHECK_DEADLOCK FALSE
