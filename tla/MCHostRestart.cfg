SPECIFICATION FairSpec
CONSTANTS
  N = 1
  MaxAttempt = 1
  MaxPlans = 2
  MaxProcs = 5
  MaxExits = 2
INVARIANT
  ProxyServesCurrent
PROPERTY
  CrashHeals
CHECK_DEADLOCK FALSE
