SPECIFICATION Spec
CONSTANTS
  Clients = {c1, c2}
  Detached = TRUE
  MaxRuns = 2
  MaxProcs = 2
  MaxRequests = 3
  MaxCrashes = 1
INVARIANTS
  TypeOK
  OneProcess
  StopHolds
  CompletionsTrue
CHECK_DEADLOCK FALSE
