SPECIFICATION FairSpec
CONSTANTS
  MaxSection = 2
  Addr = {a1, a2}
  NULL = NULL
  Idle = Idle
INVARIANTS
  TypeOK
  NoRadioBeforeAllStarted
  PttUpToDate
  DamageNeedsMissingKey
  UsedStringIsLive
  OneString
  EachStartedOnce
PROPERTIES
  InterruptEnds
  EveryRadioFollows
  EveryRadioIsFollower
CHECK_DEADLOCK FALSE
