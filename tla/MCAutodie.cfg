SPECIFICATION FairSpec
CONSTANT
  NULL = NULL
INVARIANTS
  TypeOK
  NoAllocAfterFailure
  ExitIsExplained
PROPERTY
  FailureStops
CHECK_DEADLOCK FALSE
