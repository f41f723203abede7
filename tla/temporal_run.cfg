SPECIFICATION Spec
CONSTANTS
  Releases = {0, 1, 2}
  Cells = {a}
  Listed = {0, 2}
  Faults <- MCAllFaults
  MaxRuns = 3
  MaxEdits = 3
  None = None
  NoDraft = NoDraft
INVARIANT TypeOK
PROPERTIES RunLeavesChain GrowthAddsUp
CHECK_DEADLOCK FALSE
