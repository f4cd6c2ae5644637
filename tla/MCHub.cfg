SPECIFICATION FairSpec
CONSTANTS
  Conn = {c1}
  Request = {q1}
  Fickle = {c1}
  Cap = 2
  MaxFrames = 1
INVARIANTS
  TypeOK
  RegisteredHasKeeper
  BroadcastWalksTheRoom
  MissedIsClosing
  OutIsCutOff
  NoticeKept
PROPERTIES
  LifetimeKept
  PumpsEnd
  BroadcastsEnd
CHECK_DEADLOCK FALSE
