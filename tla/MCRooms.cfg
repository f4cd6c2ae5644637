SPECIFICATION LibrarySpec
CONSTANTS
  User = {alice, bob, carol}
  Room = {r1}
  Video = {v1, v2}
  Sought <- MCSought
  NoUser = NoUser
  NoRow = NoRow
  MaxVersion = 3
  MaxBytes = 2
  Size = {2, 3}
  MaxStops = 1
INVARIANTS
  TypeOK
  HostHasTheRole
  RoomsHaveTheirVideo
  StoredAreWhole
  LeftoversExplained
PROPERTIES
  VersionNamesTheState
  PromiseKept
CHECK_DEADLOCK FALSE
