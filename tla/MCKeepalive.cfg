SPECIFICATION FairSpec
CONSTANTS
  User = {u1}
  Conn = {c1}
  RoundTrip = {40}
  Ponger = {}
  PongWait = 10
  MaxTasks = 1
PROPERTIES
  AnsweringPeerStays
CHECK_DEADLOCK FALSE
