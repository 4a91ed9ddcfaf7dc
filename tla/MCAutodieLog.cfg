SPECIFICATION FairSpec
CONSTANT
  NULL = NULL
INVARIANT
  FailureIsNotLogged
CHECK_DEADLOCK FALSE
