SPECIFICATION FairSpec
CONSTANTS
  Timer = {t1}
  Poll = {p1}
  Prepare = Prepare
  Signal = Signal
  NULL = NULL
PROPERTY
  LeftIsClosed
CHECK_DEADLOCK FALSE
