SPECIFICATION FairSpec
CONSTANTS
  Workspaces = {w1}
  MaxOps = 2
  MaxFaults = 1
  MaxEdits = 1
INVARIANTS
  TypeOK
  ArchivedQuiet
  DeletedUnavailable
  Agreement
PROPERTY QueueDrains
CHECK_DEADLOCK FALSE
