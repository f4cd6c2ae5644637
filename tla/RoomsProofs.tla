---------------------------- MODULE RoomsProofs ----------------------------
(***************************************************************************)
(* Proofs about Rooms, for every set of users, rooms, videos and           *)
(* positions: the type invariant, the agreement of rooms.host_id with the  *)
(* role column, what a version stands for, and that the tables implement   *)
(* WatchRoom.                                                              *)
(***************************************************************************)
EXTENDS Rooms, TLAPS

-----------------------------------------------------------------------------
(* Types. *)

\* version=version+1 leaves a row a row and its other columns alone.
LEMMA BumpedRow ==
  ASSUME NEW row \in RoomRow
  PROVE  /\ Bump(row) \in RoomRow
         /\ Bump(row).version = row.version + 1
         /\ Bump(row).host = row.host /\ Bump(row).locked = row.locked
         /\ Bump(row).video = row.video
  BY DEF RoomRow, Bump

\* So do the columns a statement sets, given values of their types.
LEMMA PlaybackSet ==
  ASSUME NEW row \in RoomRow, NEW b \in BOOLEAN, NEW p \in 0..MaxPosition
  PROVE  [row EXCEPT !.playing = b, !.position = p] \in RoomRow
  BY DEF RoomRow

LEMMA PlaybackKeeps ==
  ASSUME NEW row \in RoomRow, NEW b, NEW p
  PROVE  /\ [row EXCEPT !.playing = b, !.position = p].version = row.version
         /\ [row EXCEPT !.playing = b, !.position = p].host = row.host
         /\ [row EXCEPT !.playing = b, !.position = p].locked = row.locked
         /\ [row EXCEPT !.playing = b, !.position = p].video = row.video
  BY DEF RoomRow

LEMMA InviteSet ==
  ASSUME NEW row \in RoomRow
  PROVE  /\ [row EXCEPT !.invite = "expired"] \in RoomRow
         /\ [row EXCEPT !.invite = "expired"].version = row.version
         /\ [row EXCEPT !.invite = "expired"].host = row.host
         /\ [row EXCEPT !.invite = "expired"].locked = row.locked
         /\ [row EXCEPT !.invite = "expired"].video = row.video
         /\ Shared([row EXCEPT !.invite = "expired"]) = Shared(row)
  BY DEF RoomRow, Shared

LEMMA LockSet ==
  ASSUME NEW row \in RoomRow, NEW b \in BOOLEAN
  PROVE  /\ [row EXCEPT !.locked = b] \in RoomRow
         /\ [row EXCEPT !.locked = b].version = row.version
         /\ [row EXCEPT !.locked = b].host = row.host
         /\ [row EXCEPT !.locked = b].locked = b
         /\ [row EXCEPT !.locked = b].video = row.video
  BY DEF RoomRow

LEMMA HostSet ==
  ASSUME NEW row \in RoomRow, NEW u \in User
  PROVE  /\ [row EXCEPT !.host = u] \in RoomRow
         /\ [row EXCEPT !.host = u].version = row.version
         /\ [row EXCEPT !.host = u].host = u
         /\ [row EXCEPT !.host = u].locked = row.locked
         /\ [row EXCEPT !.host = u].video = row.video
  BY DEF RoomRow

\* The row CreateRoom inserts is one.
LEMMA NewRow ==
  ASSUME NEW u \in User, NEW v \in Video
  PROVE  [host |-> u, video |-> v, locked |-> FALSE, invite |-> "live",
          playing |-> FALSE, position |-> 0, version |-> 1] \in RoomRow
  BY DEF RoomRow, MaxPosition

\* A position the guards of store.go:364 let through fits its column.
LEMMA PositionInRange == ASSUME NEW p \in Int, 0 <= p, p <= MaxPosition
                         PROVE  p \in 0..MaxPosition
<1>1. MaxPosition \in Int
  BY DEF MaxPosition
<1>2. QED
  BY <1>1

\* What each statement that writes a row of rooms leaves there.
LEMMA PlaybackWritten ==
  ASSUME TypeOK, NEW r \in Room, NEW u \in User, NEW b \in BOOLEAN, NEW p \in Sought,
         UpdatePlayback(r, u, b, p)
  PROVE  /\ rooms[r] \in RoomRow /\ rooms'[r] \in RoomRow
         /\ rooms'[r].version = rooms[r].version + 1
         /\ rooms'[r].host = rooms[r].host /\ rooms'[r].locked = rooms[r].locked
         /\ rooms'[r].video = rooms[r].video
         /\ rooms' = [rooms EXCEPT ![r] = rooms'[r]]
<1> DEFINE row == [rooms[r] EXCEPT !.playing = b, !.position = p]
<1>1. rooms[r] \in RoomRow
  BY DEF UpdatePlayback, TypeOK
<1>2. p \in 0..MaxPosition
  BY SoughtAssumption, PositionInRange DEF UpdatePlayback
<1>3. row \in RoomRow /\ row.version = rooms[r].version /\ row.host = rooms[r].host
      /\ row.locked = rooms[r].locked /\ row.video = rooms[r].video
  <2>1. row \in RoomRow
    BY <1>1, <1>2, PlaybackSet
  <2>2. QED
    BY <1>1, <2>1, PlaybackKeeps
<1>4. rooms' = [rooms EXCEPT ![r] = Bump(row)]
  BY DEF UpdatePlayback
<1> HIDE DEF row
<1>5. rooms'[r] = Bump(row)
  BY <1>4 DEF TypeOK
<1>6. QED
  BY <1>1, <1>3, <1>4, <1>5, BumpedRow

LEMMA LockWritten ==
  ASSUME TypeOK, NEW r \in Room, NEW h \in User, NEW b \in BOOLEAN, SetRoomLocked(r, h, b)
  PROVE  /\ rooms[r] \in RoomRow /\ rooms'[r] \in RoomRow
         /\ rooms'[r].version = rooms[r].version + 1
         /\ rooms'[r].host = rooms[r].host /\ rooms'[r].locked = b
         /\ rooms'[r].video = rooms[r].video
         /\ rooms' = [rooms EXCEPT ![r] = rooms'[r]]
<1> DEFINE row == [rooms[r] EXCEPT !.locked = b]
<1>1. rooms[r] \in RoomRow
  BY DEF SetRoomLocked, TypeOK, IsHost
<1>2. row \in RoomRow /\ row.version = rooms[r].version /\ row.host = rooms[r].host
      /\ row.locked = b /\ row.video = rooms[r].video
  BY <1>1, LockSet
<1>3. rooms' = [rooms EXCEPT ![r] = Bump(row)]
  BY DEF SetRoomLocked
<1> HIDE DEF row
<1>4. rooms'[r] = Bump(row)
  BY <1>3 DEF TypeOK
<1>5. QED
  BY <1>1, <1>2, <1>3, <1>4, BumpedRow

LEMMA HostWritten ==
  ASSUME TypeOK, NEW r \in Room, NEW h \in User, NEW u \in User, TransferHost(r, h, u)
  PROVE  /\ rooms[r] \in RoomRow /\ rooms'[r] \in RoomRow
         /\ rooms'[r].version = rooms[r].version + 1
         /\ rooms'[r].host = u /\ rooms'[r].locked = rooms[r].locked
         /\ rooms'[r].video = rooms[r].video
         /\ rooms' = [rooms EXCEPT ![r] = rooms'[r]]
<1> DEFINE row == [rooms[r] EXCEPT !.host = u]
<1>1. rooms[r] \in RoomRow
  BY DEF TransferHost, TypeOK, IsHost
<1>2. row \in RoomRow /\ row.version = rooms[r].version /\ row.host = u
      /\ row.locked = rooms[r].locked /\ row.video = rooms[r].video
  BY <1>1, HostSet
<1>3. rooms' = [rooms EXCEPT ![r] = Bump(row)]
  BY DEF TransferHost
<1> HIDE DEF row
<1>4. rooms'[r] = Bump(row)
  BY <1>3 DEF TypeOK
<1>5. QED
  BY <1>1, <1>2, <1>3, <1>4, BumpedRow

LEMMA InviteWritten ==
  ASSUME TypeOK, NEW r \in Room, ExpireInvite(r)
  PROVE  /\ rooms[r] \in RoomRow /\ rooms'[r] \in RoomRow
         /\ rooms'[r].version = rooms[r].version
         /\ rooms'[r].host = rooms[r].host /\ rooms'[r].locked = rooms[r].locked
         /\ Shared(rooms'[r]) = Shared(rooms[r])
         /\ rooms'[r].video = rooms[r].video
         /\ rooms' = [rooms EXCEPT ![r] = rooms'[r]]
<1> DEFINE row == [rooms[r] EXCEPT !.invite = "expired"]
<1>1. rooms[r] \in RoomRow
  BY DEF ExpireInvite, TypeOK
<1>2. row \in RoomRow /\ row.version = rooms[r].version /\ Shared(row) = Shared(rooms[r])
      /\ row.host = rooms[r].host /\ row.locked = rooms[r].locked
      /\ row.video = rooms[r].video
  BY <1>1, InviteSet
<1>3. rooms' = [rooms EXCEPT ![r] = row]
  BY DEF ExpireInvite
<1> HIDE DEF row
<1>4. rooms'[r] = row
  BY <1>3 DEF TypeOK
<1>5. QED
  BY <1>1, <1>2, <1>3, <1>4

LEMMA InitTypeOK == Init => TypeOK
  BY DEF Init, TypeOK, Role

LEMMA NextTypeOK == TypeOK /\ [Next]_vars => TypeOK'
<1> SUFFICES ASSUME TypeOK, [Next]_vars
             PROVE  TypeOK'
  OBVIOUS
<1> USE DEF TypeOK
<1>1. ASSUME NEW v \in Video, NEW u \in User, CreateVideo(v, u)
      PROVE  TypeOK'
  BY <1>1 DEF CreateVideo
<1>2. ASSUME NEW r \in Room, NEW v \in Video, NEW u \in User, CreateRoom(r, v, u)
      PROVE  TypeOK'
  BY <1>2, NewRow DEF CreateRoom, Role
<1>3. ASSUME NEW r \in Room, NEW u \in User, JoinRoom(r, u)
      PROVE  TypeOK'
  BY <1>3 DEF JoinRoom, Role
<1>4. ASSUME NEW r \in Room, ExpireInvite(r)
      PROVE  TypeOK'
  BY <1>4, InviteWritten DEF ExpireInvite
<1>5. ASSUME NEW r \in Room, NEW u \in User, NEW b \in BOOLEAN, NEW p \in Sought,
             UpdatePlayback(r, u, b, p)
      PROVE  TypeOK'
  BY <1>5, PlaybackWritten DEF UpdatePlayback
<1>6. ASSUME NEW r \in Room, NEW h \in User, NEW u \in User, KickMember(r, h, u)
      PROVE  TypeOK'
  BY <1>6 DEF KickMember, Role
<1>7. ASSUME NEW r \in Room, NEW h \in User, NEW b \in BOOLEAN, SetRoomLocked(r, h, b)
      PROVE  TypeOK'
  BY <1>7, LockWritten DEF SetRoomLocked
<1>8. ASSUME NEW r \in Room, NEW h \in User, NEW u \in User, TransferHost(r, h, u)
      PROVE  TypeOK'
  <2>1. SetRole(SetRole(role[r], h, "member"), u, "host") \in [User -> Role]
    BY DEF SetRole, Role
  <2>2. QED
    BY <1>8, <2>1, HostWritten DEF TransferHost
<1>9. CASE UNCHANGED vars
  BY <1>9 DEF vars
<1>10. QED
  BY <1>1, <1>2, <1>3, <1>4, <1>5, <1>6, <1>7, <1>8, <1>9 DEF Next, RoomNext

\* Each table keeps its shape: a version is a natural, a position is within a day, a role
\* is one of the CHECK list of store.go:187.
THEOREM TypeCorrect == Spec => []TypeOK
  BY InitTypeOK, NextTypeOK, PTL DEF Spec
-----------------------------------------------------------------------------
(* host_id and the role column. *)

LEMMA InitHostHasTheRole == Init => HostHasTheRole
  BY DEF Init, HostHasTheRole, IsHost

\* Demote h, then promote u: the roles TransferHost leaves.
LEMMA HandedOver ==
  ASSUME NEW roles \in [User -> Role], NEW h \in User, NEW u \in User,
         roles[h] # "none", roles[u] # "none"
  PROVE  \A w \in User : SetRole(SetRole(roles, h, "member"), u, "host")[w] =
           IF w = u THEN "host" ELSE IF w = h THEN "member" ELSE roles[w]
  BY DEF SetRole

\* One step per statement.  A kick can break it only if the host could name itself, a
\* transfer only if it wrote one of the two columns.
LEMMA NextHostHasTheRole == TypeOK /\ HostHasTheRole /\ [Next]_vars => HostHasTheRole'
<1> SUFFICES ASSUME TypeOK, HostHasTheRole, [Next]_vars
             PROVE  HostHasTheRole'
  OBVIOUS
<1> USE DEF TypeOK, HostHasTheRole, IsHost
<1>1. ASSUME NEW v \in Video, NEW u \in User, CreateVideo(v, u)
      PROVE  HostHasTheRole'
  BY <1>1 DEF CreateVideo
<1>2. ASSUME NEW r \in Room, NEW v \in Video, NEW u \in User, CreateRoom(r, v, u)
      PROVE  HostHasTheRole'
  <2>1. rooms'[r] # NoRow /\ rooms'[r].host = u
    BY <1>2, NewRow, NoRowAssumption DEF CreateRoom
  <2>2. \A w \in User : role'[r][w] = "host" <=> w = u
    BY <1>2 DEF CreateRoom
  <2>3. \A q \in Room : q # r => rooms'[q] = rooms[q] /\ role'[q] = role[q]
    BY <1>2 DEF CreateRoom
  <2>4. QED
    BY <2>1, <2>2, <2>3
<1>3. ASSUME NEW r \in Room, NEW u \in User, JoinRoom(r, u)
      PROVE  HostHasTheRole'
  BY <1>3 DEF JoinRoom, IsMember
<1>4. ASSUME NEW r \in Room, ExpireInvite(r)
      PROVE  HostHasTheRole'
  <2>1. rooms[r] # NoRow /\ rooms'[r] # NoRow /\ rooms'[r].host = rooms[r].host
    BY <1>4, InviteWritten, NoRowAssumption
  <2>2. role' = role /\ \A q \in Room : q # r => rooms'[q] = rooms[q]
    BY <1>4 DEF ExpireInvite
  <2>3. QED
    BY <2>1, <2>2
<1>5. ASSUME NEW r \in Room, NEW u \in User, NEW b \in BOOLEAN, NEW p \in Sought,
             UpdatePlayback(r, u, b, p)
      PROVE  HostHasTheRole'
  <2>1. rooms[r] # NoRow /\ rooms'[r] # NoRow /\ rooms'[r].host = rooms[r].host
    BY <1>5, PlaybackWritten, NoRowAssumption
  <2>2. role' = role /\ \A q \in Room : q # r => rooms'[q] = rooms[q]
    BY <1>5 DEF UpdatePlayback
  <2>3. QED
    BY <2>1, <2>2
<1>6. ASSUME NEW r \in Room, NEW h \in User, NEW u \in User, KickMember(r, h, u)
      PROVE  HostHasTheRole'
  BY <1>6 DEF KickMember
<1>7. ASSUME NEW r \in Room, NEW h \in User, NEW b \in BOOLEAN, SetRoomLocked(r, h, b)
      PROVE  HostHasTheRole'
  <2>1. rooms[r] # NoRow /\ rooms'[r] # NoRow /\ rooms'[r].host = rooms[r].host
    BY <1>7, LockWritten, NoRowAssumption
  <2>2. role' = role /\ \A q \in Room : q # r => rooms'[q] = rooms[q]
    BY <1>7 DEF SetRoomLocked
  <2>3. QED
    BY <2>1, <2>2
<1>8. ASSUME NEW r \in Room, NEW h \in User, NEW u \in User, TransferHost(r, h, u)
      PROVE  HostHasTheRole'
  <2>2. rooms'[r] # NoRow /\ rooms'[r].host = u
    BY <1>8, HostWritten, NoRowAssumption
  <2>3. \A w \in User : role'[r][w] =
          IF w = u THEN "host" ELSE IF w = h THEN "member" ELSE role[r][w]
    BY <1>8, HandedOver DEF TransferHost, IsMember
  <2>4. \A w \in User : role[r][w] = "host" <=> w = h
    BY <1>8 DEF TransferHost
  <2>5. \A w \in User : role'[r][w] = "host" <=> w = u
    BY <2>3, <2>4
  <2>6. \A q \in Room : q # r => rooms'[q] = rooms[q] /\ role'[q] = role[q]
    BY <1>8 DEF TransferHost
  <2>7. QED
    BY <2>2, <2>5, <2>6
<1>9. CASE UNCHANGED vars
  BY <1>9 DEF vars
<1>10. QED
  BY <1>1, <1>2, <1>3, <1>4, <1>5, <1>6, <1>7, <1>8, <1>9 DEF Next, RoomNext

\* In every reachable state the user with the role "host" of room_members is rooms.host_id.
THEOREM HostRoleCorrect == Spec => []HostHasTheRole
  BY TypeCorrect, InitHostHasTheRole, NextHostHasTheRole, PTL DEF Spec
-----------------------------------------------------------------------------
(* What a version stands for. *)

LEMMA NextVersionStep ==
  TypeOK /\ [Next]_vars => [\A r \in Room : rooms[r] # NoRow => VersionStep(r)]_vars
<1> SUFFICES ASSUME TypeOK, [Next]_vars, NEW q \in Room, rooms[q] # NoRow
             PROVE  VersionStep(q)
  OBVIOUS
<1>0. rooms[q] \in RoomRow /\ rooms[q].version \in Nat
  BY DEF TypeOK, RoomRow
<1>1. CASE rooms'[q] = rooms[q]
  BY <1>0, <1>1, NoRowAssumption DEF VersionStep
<1>2. ASSUME NEW r \in Room, NEW v \in Video, NEW u \in User, CreateRoom(r, v, u)
      PROVE  VersionStep(q)
  <2>1. r # q
    BY <1>2 DEF CreateRoom
  <2>2. rooms'[q] = rooms[q]
    BY <1>2, <2>1 DEF CreateRoom, TypeOK
  <2>3. QED
    BY <1>1, <2>2
<1>3. ASSUME NEW r \in Room, ExpireInvite(r)
      PROVE  VersionStep(q)
  <2>1. CASE q = r
    BY <1>0, <1>3, <2>1, InviteWritten, NoRowAssumption DEF VersionStep
  <2>2. CASE q # r
    BY <1>1, <1>3, <2>2 DEF ExpireInvite, TypeOK
  <2>3. QED
    BY <2>1, <2>2
<1>4. ASSUME NEW r \in Room, NEW u \in User, NEW b \in BOOLEAN, NEW p \in Sought,
             UpdatePlayback(r, u, b, p)
      PROVE  VersionStep(q)
  <2>1. CASE q = r
    BY <1>0, <1>4, <2>1, PlaybackWritten, NoRowAssumption DEF VersionStep
  <2>2. CASE q # r
    BY <1>1, <1>4, <2>2 DEF UpdatePlayback, TypeOK
  <2>3. QED
    BY <2>1, <2>2
<1>5. ASSUME NEW r \in Room, NEW h \in User, NEW b \in BOOLEAN, SetRoomLocked(r, h, b)
      PROVE  VersionStep(q)
  <2>1. CASE q = r
    BY <1>0, <1>5, <2>1, LockWritten, NoRowAssumption DEF VersionStep
  <2>2. CASE q # r
    BY <1>1, <1>5, <2>2 DEF SetRoomLocked, TypeOK
  <2>3. QED
    BY <2>1, <2>2
<1>6. ASSUME NEW r \in Room, NEW h \in User, NEW u \in User, TransferHost(r, h, u)
      PROVE  VersionStep(q)
  <2>1. CASE q = r
    BY <1>0, <1>6, <2>1, HostWritten, NoRowAssumption DEF VersionStep
  <2>2. CASE q # r
    BY <1>1, <1>6, <2>2 DEF TransferHost, TypeOK
  <2>3. QED
    BY <2>1, <2>2
<1>7. CASE \/ UNCHANGED vars
           \/ \E v \in Video, u \in User : CreateVideo(v, u)
           \/ \E r \in Room, u \in User : JoinRoom(r, u)
           \/ \E r \in Room, h, u \in User : KickMember(r, h, u)
  <2>1. rooms' = rooms
    BY <1>7 DEF vars, CreateVideo, JoinRoom, KickMember
  <2>2. QED
    BY <1>1, <2>1
<1>8. QED
  BY <1>2, <1>3, <1>4, <1>5, <1>6, <1>7 DEF Next, RoomNext

\* Versions only grow, and a room that kept its version kept its state: what a client needs
\* to tell an old room.state from a new one.
THEOREM VersionCorrect == Spec => VersionNamesTheState
  BY TypeCorrect, NextVersionStep, PTL DEF Spec, VersionNamesTheState

-----------------------------------------------------------------------------
(* The tables implement the promise. *)

\* No rows of room_members without a room: the foreign key, and nobody deletes a room.
NoOrphans == \A r \in Room : rooms[r] = NoRow => \A u \in User : role[r][u] = "none"

IInv == TypeOK /\ HostHasTheRole /\ NoOrphans

LEMMA RowsStay ==
  TypeOK /\ [Next]_vars => \A r \in Room : rooms[r] # NoRow => rooms'[r] # NoRow
<1>1. \A r \in Room : rooms[r] # NoRow /\ rooms' = rooms => rooms'[r] # NoRow
  OBVIOUS
<1>2. QED
  BY NextVersionStep, <1>1 DEF VersionStep, vars

LEMMA NextNoOrphans == IInv /\ [Next]_vars => NoOrphans'
<1> SUFFICES ASSUME IInv, [Next]_vars
             PROVE  NoOrphans'
  OBVIOUS
<1> USE DEF IInv, TypeOK, NoOrphans
<1>1. ASSUME NEW r \in Room, NEW v \in Video, NEW u \in User, CreateRoom(r, v, u)
      PROVE  NoOrphans'
  <2>1. rooms'[r] # NoRow
    BY <1>1, NewRow, NoRowAssumption DEF CreateRoom
  <2>2. QED
    BY <1>1, <2>1 DEF CreateRoom
<1>2. ASSUME NEW r \in Room, NEW u \in User, JoinRoom(r, u)
      PROVE  NoOrphans'
  BY <1>2 DEF JoinRoom
<1>3. ASSUME NEW r \in Room, NEW h \in User, NEW u \in User, KickMember(r, h, u)
      PROVE  NoOrphans'
  BY <1>3 DEF KickMember
<1>4. ASSUME NEW r \in Room, NEW h \in User, NEW u \in User, TransferHost(r, h, u)
      PROVE  NoOrphans'
  <2>1. rooms'[r] # NoRow
    BY <1>4, HostWritten, NoRowAssumption
  <2>2. QED
    BY <1>4, <2>1 DEF TransferHost
<1>5. CASE \/ UNCHANGED vars
           \/ \E v \in Video, u \in User : CreateVideo(v, u)
           \/ \E r \in Room : ExpireInvite(r)
           \/ \E r \in Room, u \in User, b \in BOOLEAN, p \in Sought :
                UpdatePlayback(r, u, b, p)
           \/ \E r \in Room, h \in User, b \in BOOLEAN : SetRoomLocked(r, h, b)
  <2>1. role' = role
    BY <1>5 DEF vars, CreateVideo, ExpireInvite, UpdatePlayback, SetRoomLocked
  <2>2. QED
    BY <2>1, RowsStay
<1>6. QED
  BY <1>1, <1>2, <1>3, <1>4, <1>5 DEF Next, RoomNext

LEMMA Inductive == Spec => []IInv
<1>1. Init => IInv
  BY InitTypeOK, InitHostHasTheRole DEF Init, IInv, NoOrphans
<1>2. IInv /\ [Next]_vars => IInv'
  BY NextTypeOK, NextHostHasTheRole, NextNoOrphans DEF IInv
<1>3. QED
  BY <1>1, <1>2, PTL DEF Spec

\* Where both columns agree, the host of the role column is the one of rooms.
HostOf(r) == IF rooms[r] = NoRow THEN NoUser ELSE rooms[r].host

HostsAgree == \A r \in Room : HostByRole(r) = HostOf(r)

LEMMA HostIsHostOf == IInv => HostsAgree
<1> SUFFICES ASSUME IInv, NEW r \in Room
             PROVE  HostByRole(r) = HostOf(r)
  BY DEF HostsAgree
<1> USE DEF IInv, HostHasTheRole, IsHost, HostByRole, HostOf
<1>1. CASE rooms[r] = NoRow
  BY <1>1
<1>2. CASE rooms[r] # NoRow
  <2>1. rooms[r].host \in User
    BY <1>2 DEF TypeOK, RoomRow
  <2>2. \A u \in User : role[r][u] = "host" <=> u = rooms[r].host
    BY <1>2
  <2>3. QED
    BY <1>2, <2>1, <2>2
<1>3. QED
  BY <1>1, <1>2

\* The variables of the promise.
Host == [r \in Room |-> HostByRole(r)]

Member == [r \in Room |-> Members(r)]

Locked == [r \in Room |-> IsLocked(r)]

LEMMA PromiseInit == Init => Promise!Init
<1> SUFFICES ASSUME Init
             PROVE  Promise!Init
  OBVIOUS
<1>1. \A r \in Room : rooms[r] = NoRow /\ \A u \in User : role[r][u] = "none"
  BY DEF Init
<1>2. \A r \in Room : HostByRole(r) = NoUser
  BY <1>1 DEF HostByRole
<1>3. \A r \in Room : Members(r) = {}
  BY <1>1 DEF Members, IsMember
<1>4. \A r \in Room : IsLocked(r) = FALSE
  BY <1>1 DEF IsLocked
<1>5. QED
  BY <1>2, <1>3, <1>4 DEF Promise!Init

\* One step per statement: the promised step it is, or a stuttering step.
LEMMA PromiseStep == IInv /\ IInv' /\ [Next]_vars => [Promise!Next]_(Promise!vars)
<1> SUFFICES ASSUME IInv, IInv', [Next]_vars
             PROVE  [Promise!Next]_(Promise!vars)
  OBVIOUS
<1> USE DEF IInv, TypeOK
<1>1. Host = [r \in Room |-> HostOf(r)]
  BY HostIsHostOf DEF Host, HostsAgree
<1>2. Host' = [r \in Room |-> HostOf(r)']
  <2>1. HostsAgree'
    BY HostIsHostOf, PTL
  <2>2. QED
    BY <2>1 DEF Host, HostsAgree
<1>3. \A r \in Room : rooms[r] # NoRow => rooms[r].host \in User /\ HostOf(r) # NoUser
  BY NoUserAssumption DEF RoomRow, HostOf
<1>4. ASSUME Host' = Host, Member' = Member, Locked' = Locked
      PROVE  UNCHANGED Promise!vars
  BY <1>4 DEF Host, Member, Locked, Promise!vars
<1>5. ASSUME rooms' = rooms
      PROVE  Host' = Host /\ Locked' = Locked
  BY <1>1, <1>2, <1>5 DEF HostOf, Locked, IsLocked
<1>6. ASSUME role' = role
      PROVE  Member' = Member
  BY <1>6 DEF Member, Members, IsMember
<1>7. ASSUME NEW r \in Room, NEW v \in Video, NEW u \in User, CreateRoom(r, v, u)
      PROVE  Promise!Open(r, u)
  <2>1. rooms[r] = NoRow /\ rooms'[r] # NoRow /\ rooms'[r].host = u /\ ~rooms'[r].locked
    BY <1>7, NewRow, NoRowAssumption DEF CreateRoom
  <2>2. \A q \in Room : q # r => rooms'[q] = rooms[q] /\ role'[q] = role[q]
    BY <1>7 DEF CreateRoom
  <2>3. Host[r] = NoUser /\ Host' = [Host EXCEPT ![r] = u]
    BY <1>1, <1>2, <2>1, <2>2 DEF HostOf
  <2>4. \A w \in User : role'[r][w] # "none" <=> w = u
    BY <1>7, <2>1 DEF CreateRoom, NoOrphans
  <2>5. Members(r)' = {u}
    BY <2>4 DEF Members, IsMember
  <2>6. \A q \in Room : q # r => Members(q)' = Members(q)
    BY <2>2 DEF Members, IsMember
  <2>7. Member' = [Member EXCEPT ![r] = {u}]
    BY <2>5, <2>6 DEF Member
  <2>8. Locked' = Locked
    BY <2>1, <2>2 DEF Locked, IsLocked
  <2>9. QED
    BY <2>3, <2>7, <2>8 DEF Host, Member, Locked, Promise!Open
<1>8. ASSUME NEW r \in Room, NEW u \in User, JoinRoom(r, u), ~IsMember(r, u)
      PROVE  Promise!Admit(r, u)
  <2>1. rooms' = rooms /\ rooms[r] # NoRow /\ ~rooms[r].locked
        /\ role' = [role EXCEPT ![r][u] = "member"]
    BY <1>8 DEF JoinRoom
  <2>2. Host[r] # NoUser /\ Host' = Host
    BY <1>1, <1>3, <1>5, <2>1
  <2>3. ~Locked[r] /\ Locked' = Locked
    BY <1>5, <2>1 DEF Locked, IsLocked
  <2>4. \A q \in Room : Members(q)' = IF q = r THEN Members(q) \cup {u} ELSE Members(q)
    BY <2>1 DEF Members, IsMember
  <2>5. Member' = [Member EXCEPT ![r] = @ \cup {u}]
    BY <2>4 DEF Member
  <2>6. QED
    BY <2>2, <2>3, <2>5 DEF Host, Member, Locked, Promise!Admit
<1>9. ASSUME NEW r \in Room, NEW h \in User, NEW u \in User, KickMember(r, h, u)
      PROVE  Promise!Remove(r, u)
  <2>1. rooms' = rooms /\ role' = [role EXCEPT ![r][u] = "none"]
    BY <1>9 DEF KickMember
  <2>2. u # Host[r]
    BY <1>1, <1>9 DEF KickMember, IsHost, HostOf
  <2>3. u \in Member[r]
    BY <1>9 DEF KickMember, Member, Members
  <2>4. \A q \in Room : Members(q)' = IF q = r THEN Members(q) \ {u} ELSE Members(q)
    BY <2>1 DEF Members, IsMember
  <2>5. Member' = [Member EXCEPT ![r] = @ \ {u}]
    BY <2>4 DEF Member
  <2>6. QED
    BY <1>5, <2>1, <2>2, <2>3, <2>5 DEF Host, Member, Locked, Promise!Remove
<1>10. ASSUME NEW r \in Room, NEW h \in User, NEW b \in BOOLEAN, SetRoomLocked(r, h, b)
       PROVE  Promise!SetLock(r, b)
  <2>1. rooms[r] # NoRow /\ rooms'[r] # NoRow /\ rooms'[r].host = rooms[r].host
        /\ rooms'[r].locked = b
    BY <1>10, LockWritten, NoRowAssumption
  <2>2. role' = role /\ \A q \in Room : q # r => rooms'[q] = rooms[q]
    BY <1>10 DEF SetRoomLocked
  <2>3. Host[r] # NoUser /\ Host' = Host
    BY <1>1, <1>2, <1>3, <2>1, <2>2 DEF HostOf
  <2>4. \A q \in Room : IsLocked(q)' = IF q = r THEN b ELSE IsLocked(q)
    BY <2>1, <2>2 DEF IsLocked
  <2>5. Locked' = [Locked EXCEPT ![r] = b]
    BY <2>4 DEF Locked
  <2>6. QED
    BY <1>6, <2>2, <2>3, <2>5 DEF Host, Member, Locked, Promise!SetLock
<1>11. ASSUME NEW r \in Room, NEW h \in User, NEW u \in User, TransferHost(r, h, u)
       PROVE  Promise!HandOver(r, u)
  <2>1. rooms[r] # NoRow /\ rooms'[r] # NoRow /\ rooms'[r].host = u
        /\ rooms'[r].locked = rooms[r].locked
    BY <1>11, HostWritten, NoRowAssumption
  <2>2. \A q \in Room : q # r => rooms'[q] = rooms[q] /\ role'[q] = role[q]
    BY <1>11 DEF TransferHost
  <2>3. Host' = [Host EXCEPT ![r] = u]
    BY <1>1, <1>2, <2>1, <2>2 DEF HostOf
  <2>4. Locked' = Locked
    BY <2>1, <2>2 DEF Locked, IsLocked
  <2>5. u \in Member[r]
    BY <1>11 DEF TransferHost, Member, Members
  <2>6. role[r][h] # "none" /\ role[r][u] # "none"
    BY <1>11 DEF TransferHost, HostHasTheRole, IsMember
  <2>7. \A w \in User : role'[r][w] # "none" <=> role[r][w] # "none"
    BY <1>11, <2>6, HandedOver DEF TransferHost
  <2>8. Member' = Member
    BY <2>2, <2>7 DEF Member, Members, IsMember
  <2>9. QED
    BY <2>3, <2>4, <2>5, <2>8 DEF Host, Member, Locked, Promise!HandOver
<1>12. ASSUME NEW r \in Room, rooms[r] # NoRow, rooms'[r] # NoRow, role' = role,
              rooms'[r].host = rooms[r].host, rooms'[r].locked = rooms[r].locked,
              \A q \in Room : q # r => rooms'[q] = rooms[q]
       PROVE  UNCHANGED Promise!vars
  <2>1. Host' = Host
    BY <1>1, <1>2, <1>12 DEF HostOf
  <2>2. Locked' = Locked
    BY <1>12 DEF Locked, IsLocked
  <2>3. QED
    BY <1>4, <1>6, <1>12, <2>1, <2>2
<1>13. ASSUME NEW r \in Room, ExpireInvite(r)
       PROVE  UNCHANGED Promise!vars
  <2>1. \A q \in Room : q # r => rooms'[q] = rooms[q]
    BY <1>13 DEF ExpireInvite
  <2>2. role' = role
    BY <1>13 DEF ExpireInvite
  <2>3. QED
    BY <1>12, <1>13, <2>1, <2>2, InviteWritten, NoRowAssumption
<1>14. ASSUME NEW r \in Room, NEW u \in User, NEW b \in BOOLEAN, NEW p \in Sought,
              UpdatePlayback(r, u, b, p)
       PROVE  UNCHANGED Promise!vars
  <2>1. \A q \in Room : q # r => rooms'[q] = rooms[q]
    BY <1>14 DEF UpdatePlayback
  <2>2. role' = role
    BY <1>14 DEF UpdatePlayback
  <2>3. QED
    BY <1>12, <1>14, <2>1, <2>2, PlaybackWritten, NoRowAssumption
<1>15. CASE \/ UNCHANGED vars
            \/ \E v \in Video, u \in User : CreateVideo(v, u)
            \/ \E r \in Room, u \in User : JoinRoom(r, u) /\ IsMember(r, u)
  <2>1. rooms' = rooms /\ role' = role
    BY <1>15 DEF vars, CreateVideo, JoinRoom
  <2>2. QED
    BY <1>4, <1>5, <1>6, <2>1
<1>16. QED
  BY <1>7, <1>8, <1>9, <1>10, <1>11, <1>13, <1>14, <1>15 DEF Next, RoomNext, Promise!Next

\* The tables implement the watch room: every statement is a promised step or changes none
\* of host, members and lock.
THEOREM ImplementsWatchRoom == Spec => PromiseKept
  BY PromiseInit, PromiseStep, Inductive, PTL DEF Spec, PromiseKept, Promise!Spec
=============================================================================
