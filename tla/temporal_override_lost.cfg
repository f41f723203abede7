SPECIFICATION Spec
CONSTANTS
  Releases = {0, 1}
  Cells = {a}
  Listed = {0, 1}
  Faults <- MCOverlap
  MaxRuns = 1
  MaxEdits = 1
  None = None
  NoDraft = NoDraft
PROPERTY OverridesSurvive
CHECK_DEADLOCK FALSE
