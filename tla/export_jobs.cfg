SPECIFICATION JobFairSpec
CONSTANTS
  Builders = {j1, j2}
  MaxSaves = 1
  Faults <- MCBuildErrors
  Threads = 1
  MaxPolls = 1
  MayRestart = TRUE
INVARIANTS JobTypeOK LinksLead
PROPERTY EveryJobSettles
CHECK_DEADLOCK FALSE
