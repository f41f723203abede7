SPECIFICATION FairSpec
CONSTANTS
  MinZoom = 17
  Preferred = 18
  Count <- MCCount
  Aoi <- MCAoi
  Window = 2
  MaxWorkers = 3
  MinWorkers = 2
  WorkerStep = 2
  MinErrors = 2
  Attempts = 2
  MinConcurrency = 1
  MaxConcurrency = 2
  Every = 1
  MaxRequests = 2
INVARIANTS
  TypeOK
  ReusableIsWhole
  ZoomJustified
PROPERTIES
  MosaicReused
  EveryRequestEnds
CHECK_DEADLOCK FALSE
