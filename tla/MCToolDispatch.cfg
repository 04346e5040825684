SPECIFICATION FairSpec
CONSTANTS
  Attempts = {a1}
  Unsafe = {a1}
  MaxAttachments = 2
  MaxDrops = 2
  MaxResets = 1
  MaxCrashes = 1
INVARIANTS
  TypeOK
  RunsOnce
  RefusedNeverRan
  AnswerIsFinal
PROPERTY
  Resolves
CHECK_DEADLOCK FALSE
