SPECIFICATION Spec
CONSTANTS
  r1 = r1
  Room = {r1}
  NoRoom = NoRoom
  Sender = {s1}
  Seat <- MCSeat
  Limit = 1
  MaxOpens = 1
  MaxLines = 1
INVARIANTS
  OwnActionsAreSent
CHECK_DEADLOCK FALSE
