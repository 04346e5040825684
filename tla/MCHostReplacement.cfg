SPECIFICATION Spec
CONSTANTS
  N = 2
  MaxAttempt = 1
  MaxPlans = 3
  MaxProcs = 5
  MaxExits = 1
INVARIANTS
  TypeOK
  QuietDisk
  GenerationsTracked
  OutcomeSelected
CHECK_DEADLOCK FALSE
