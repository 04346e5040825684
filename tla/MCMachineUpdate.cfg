SPECIFICATION Spec
CONSTANTS
  MaxHosts = 5
  MaxUpdaters = 4
  MaxUpdates = 2
  MaxWork = 1
  MaxFaults = 3
  Faults = {"updater", "host", "operator", "write"}
INVARIANTS
  TypeOK
  OneWriter
  NothingLost
  RollbackPristine
  SelectionAgrees
CHECK_DEADLOCK FALSE
