SPECIFICATION Spec
CONSTANTS
  alice = alice
  bob = bob
  User = {alice, bob}
  Owner = alice
  Guest = {bob}
  Room = {r1}
  TheRoom = r1
  Video = {v1}
  TheVideo = v1
  Sought = {0}
  NoUser = NoUser
  NoRow = NoRow
  MaxVersion = 3
  Cap = 1
  Verb <- MCVerb
INVARIANTS
  TypeOK
  StatesAreCommitted
  OwnWriteIsShown
  RegisteredGetTheLatest
  OnlyMembersListen
PROPERTY SeekWritesWhatItRead
CHECK_DEADLOCK FALSE
