SPECIFICATION FairSpec
CONSTANTS
  RTS = RTS
  Line = {RTS, DTR}
  MSET = MSET
  Status = {MSET, IOCTL}
INVARIANTS
  TypeOK
  NoLostChange
  PttUpToDate
PROPERTIES
  PttFollowsRts
  FollowerSpec
CHECK_DEADLOCK FALSE
