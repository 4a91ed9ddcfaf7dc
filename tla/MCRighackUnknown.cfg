SPECIFICATION FairSpec
CONSTANTS
  MaxSection = 2
  Addr = {a1, a2}
  NULL = NULL
  Idle = Idle
PROPERTY
  UnknownModuleIsFatal
CHECK_DEADLOCK FALSE
