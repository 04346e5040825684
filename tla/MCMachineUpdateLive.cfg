SPECIFICATION FairSpec
CONSTANTS
  MaxHosts = 6
  MaxUpdaters = 4
  MaxUpdates = 1
  MaxWork = 0
  MaxFaults = 2
  Faults = {"updater", "host", "unrecorded", "promoted", "machine", "operator", "write"}
PROPERTY
  UpdateResolves
CHECK_DEADLOCK FALSE
