SPECIFICATION FairSpec
CONSTANTS
  Clients = {c1, c2}
  Detached = FALSE
  MaxRuns = 2
  MaxProcs = 2
  MaxRequests = 2
  MaxCrashes = 1
PROPERTIES
  Answered
  Relaunched
CHECK_DEADLOCK FALSE
