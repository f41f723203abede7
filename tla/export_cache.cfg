SPECIFICATION Spec
CONSTANTS
  Builders = {b1, b2, b3}
  MaxSaves = 1
  Faults <- MCAllFaults
SYMMETRY MCSymmetry
INVARIANT TypeOK
PROPERTIES ServedWasCurrent AloneSucceeds
CHECK_DEADLOCK FALSE
