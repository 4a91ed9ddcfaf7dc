SPECIFICATION FairSpec
CONSTANTS
  Timer = {t1}
  Poll = {p1}
  Prepare = Prepare
  Signal = Signal
  NULL = NULL
INVARIANTS
  TypeOK
  NoUseAfterFree
  ClientIsDone
  LoopIsEmpty
  ArmedIsActive
PROPERTIES
  DestroyedIsFreed
  QuietCleanupEnds
  SecondRunOnlyCloses
  DestroyIsKept
CHECK_DEADLOCK FALSE
