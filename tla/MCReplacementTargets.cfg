SPECIFICATION FairSpec
CONSTANTS
  N = 3
  MaxAttempt = 2
INVARIANTS
  TypeOK
  Reversible
  AllOrNothing
  UndoneInReverse
  DiscardAfterDecision
PROPERTIES
  ExecuteReturns
  ImplementsAtomic
CHECK_DEADLOCK FALSE
