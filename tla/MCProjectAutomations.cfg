SPECIFICATION Spec
CONSTANTS
  Automations = {a1}
  Workspaces = {w1, w2}
  Kinds = {"message", "start"}
  Concurrency = 1
  Retries = 1
  MaxRuns = 2
  MaxFaults = 1
INVARIANTS
  TypeOK
  OutcomeTrue
  SlotsBounded
  Watched
CHECK_DEADLOCK FALSE
