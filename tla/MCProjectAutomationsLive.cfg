SPECIFICATION FairSpec
CONSTANTS
  Automations = {a1}
  Workspaces = {w1}
  Kinds = {"message", "start", "notice"}
  Concurrency = 1
  Retries = 1
  MaxRuns = 1
  MaxFaults = 3
PROPERTY
  RunsEnd
CHECK_DEADLOCK FALSE
