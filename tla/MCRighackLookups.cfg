SPECIFICATION FairSpec
CONSTANTS
  MaxSection = 2
  Addr = {a1, a2}
  NULL = NULL
  Idle = Idle
INVARIANT
  LookupsAreSafe
CHECK_DEADLOCK FALSE
