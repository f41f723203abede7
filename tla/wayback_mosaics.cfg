SPECIFICATION FairSpec
CONSTANTS
  Requests = {r1, r2}
  Areas = {a1, a2}
  Lists = {l1, l2}
  r1 = r1
  a1 = a1
  l1 = l1
CONSTRAINT NamedInOrder
INVARIANTS
  TypeOK
  MosaicStays
  CanonicalSound
PROPERTIES
  EveryRequestEnds
CHECK_DEADLOCK FALSE
