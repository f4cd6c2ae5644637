SPECIFICATION MCFairSpec
CONSTANTS
  User = {u1, u2}
  Conn = {c1, c2}
  RoundTrip <- MCRoundTrip
  Ponger = {c1}
  PongWait = 2
  MaxTasks = 2
INVARIANTS
  TypeOK
  EverybodyIsTold
  ListIsTheRoom
  TimesAreMeasured
PROPERTIES
  GoneIsRemoved
CHECK_DEADLOCK FALSE
