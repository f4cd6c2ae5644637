SPECIFICATION Spec
CONSTANTS
  alice = alice
  bob = bob
  User = {alice, bob}
  Owner = alice
  Guest = {bob}
  Room = {r1}
  TheRoom = r1
  Video = {v1}
  TheVideo = v1
  Sought = {0}
  NoUser = NoUser
  NoRow = NoRow
  MaxVersion = 3
  Cap = 2
  Verb <- MCWrite
INVARIANT Synchronized
CHECK_DEADLOCK FALSE
