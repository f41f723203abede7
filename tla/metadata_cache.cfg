SPECIFICATION FairSpec
CONSTANTS
  Callers = {c1, c2, c3}
  Faults <- MCFaults
INVARIANTS TypeOK
PROPERTIES ImplementsLookAside TimeoutsNeverSteal EveryCallerReturns
CHECK_DEADLOCK FALSE
