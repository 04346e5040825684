SPECIFICATION Spec
CONSTANTS
  Workspaces = {w1}
  MaxOps = 2
  MaxFaults = 0
  MaxEdits = 1
PROPERTY NeverUndone
CHECK_DEADLOCK FALSE
