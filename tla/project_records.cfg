SPECIFICATION Spec
CONSTANTS
  Projects = {p1, p2}
  Operations = {o1, o2, o3}
  Kinds = {"save", "change", "bundle", "repair"}
  Limit = 2
SYMMETRY MCSymmetry
INVARIANTS
  TypeOK
  FilesAgree
  RowsAgree
  StaysListed
CHECK_DEADLOCK FALSE
