SPECIFICATION Spec
CONSTANTS
  Projects = {p1, p2}
  a1 = a1
  a2 = a2
  a3 = a3
  b1 = b1
  b2 = b2
  Areas = {a1, a2, a3}
  Bounds = {b1, b2}
  BoundsOf <- MCBoundsOf
  Operations = {o1, o2, o3}
  Mode = "hardlink"
  Works = {"hardlink", "symlink", "copy"}
SYMMETRY MCSymmetry
CONSTRAINT NotMet
INVARIANTS
  TypeOK
  CanonicalOwn
  ReferenceShown
CHECK_DEADLOCK FALSE
