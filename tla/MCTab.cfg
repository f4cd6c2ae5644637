SPECIFICATION Spec
CONSTANTS
  r1 = r1
  Room = {r1, r2}
  NoRoom = NoRoom
  Sender = {s1, s2}
  Seat <- MCSeat
  Limit = 1
  MaxOpens = 2
  MaxLines = 2
SYMMETRY Symmetry
INVARIANTS
  TypeOK
  StraysComeOfOverlap
  ShownRoomIsAlive
  LeftKeepsOnlyStrays
  EachLineOnce
  KickedSaysOneEach
CHECK_DEADLOCK FALSE
