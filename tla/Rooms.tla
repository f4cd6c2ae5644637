------------------------------- MODULE Rooms -------------------------------
(***************************************************************************)
(* The room part of internal/database/store.go: the tables videos, rooms   *)
(* and room_members, and the statements that write them.                   *)
(*                                                                         *)
(* One action is one SQL statement or one transaction.  SQLite runs a      *)
(* statement atomically; a transaction reads first and keeps its shared    *)
(* lock until it commits, so no other writer commits in between, and one   *)
(* that cannot commit is rolled back and leaves the tables alone.  What    *)
(* the handlers do between two statements is in RoomServer.                *)
(***************************************************************************)
EXTENDS Integers

CONSTANTS User,       \* accounts
          Room,       \* room ids; each has one invite token
          Video,      \* video ids
          Sought,     \* the playback positions clients ask for, in seconds
          NoUser,     \* owner of a video that has not been uploaded
          NoRow,      \* a room that has no row in rooms
          MaxVersion  \* bound of the model: no write to a room at this version

ASSUME SoughtAssumption == Sought \subseteq Int
ASSUME NoUserAssumption == NoUser \notin User
ASSUME MaxVersionAssumption == MaxVersion \in Nat

VARIABLES owner,  \* videos.owner_id
          rooms,  \* rooms: the row of each room, or NoRow
          role    \* room_members.role of a user in a room, "none" without a row

vars == <<owner, rooms, role>>

-----------------------------------------------------------------------------
(* The tables. *)

\* 60*60*24: store.go:364 refuses positions beyond a day.
MaxPosition == 86400

RoomRow == [host: User, video: Video, locked: BOOLEAN, invite: {"live", "expired"},
            playing: BOOLEAN, position: 0..MaxPosition, version: Nat]

ASSUME NoRowAssumption == NoRow \notin RoomRow

Role == {"none", "member", "host"}

TypeOK ==
  /\ owner \in [Video -> User \cup {NoUser}]
  /\ rooms \in [Room -> RoomRow \cup {NoRow}]
  /\ role \in [Room -> [User -> Role]]

\* EXISTS (SELECT 1 FROM room_members WHERE room_id=r AND user_id=u)
IsMember(r, u) == role[r][u] # "none"

\* EXISTS (SELECT 1 FROM rooms WHERE id=r AND host_id=u)
IsHost(r, u) == rooms[r] # NoRow /\ rooms[r].host = u

\* UPDATE room_members SET role=x WHERE user_id=u: no row, no effect.
SetRole(roles, u, x) == IF roles[u] = "none" THEN roles ELSE [roles EXCEPT ![u] = x]

\* SET ..., version=version+1
Bump(row) == [row EXCEPT !.version = @ + 1]

\* What a room.state message carries besides the version.
Shared(row) == [host |-> row.host, locked |-> row.locked,
                playing |-> row.playing, position |-> row.position]

-----------------------------------------------------------------------------
Init ==
  /\ owner = [v \in Video |-> NoUser]
  /\ rooms = [r \in Room |-> NoRow]
  /\ role = [r \in Room |-> [u \in User |-> "none"]]

\* The upload handler has stored the file; v is a fresh id.
CreateVideo(v, u) ==
  /\ owner[v] = NoUser
  /\ owner' = [owner EXCEPT ![v] = u]
  /\ UNCHANGED <<rooms, role>>

\* One transaction: only the video's owner; the room and its host row together.
CreateRoom(r, v, u) ==
  /\ rooms[r] = NoRow
  /\ owner[v] = u
  /\ rooms' = [rooms EXCEPT ![r] =
       [host |-> u, video |-> v, locked |-> FALSE, invite |-> "live",
        playing |-> FALSE, position |-> 0, version |-> 1]]
  /\ role' = [role EXCEPT ![r][u] = "host"]
  /\ UNCHANGED owner

\* One transaction: a live invite, and an unlocked room unless u has a row; INSERT OR IGNORE.
JoinRoom(r, u) ==
  /\ rooms[r] # NoRow
  /\ rooms[r].invite = "live"
  /\ ~rooms[r].locked \/ IsMember(r, u)
  /\ role' = IF IsMember(r, u) THEN role ELSE [role EXCEPT ![r][u] = "member"]
  /\ UNCHANGED <<owner, rooms>>

\* A day after its creation the invite is refused; nothing renews it.
ExpireInvite(r) ==
  /\ rooms[r] # NoRow
  /\ rooms' = [rooms EXCEPT ![r].invite = "expired"]
  /\ UNCHANGED <<owner, role>>

\* Mutant: the upper bound of store.go:364 left out.
UpdatePlaybackUnbounded(r, u, playing, position) ==
  /\ 0 <= position
  /\ rooms[r] # NoRow /\ rooms[r].version < MaxVersion
  /\ IsMember(r, u)
  /\ rooms' = [rooms EXCEPT ![r] =
       Bump([@ EXCEPT !.playing = playing, !.position = position])]
  /\ UNCHANGED <<owner, role>>

\* Any member moves the playback; the UPDATE itself tests the membership.
UpdatePlayback(r, u, playing, position) ==
  /\ 0 <= position /\ position <= MaxPosition
  /\ rooms[r] # NoRow /\ rooms[r].version < MaxVersion
  /\ IsMember(r, u)
  /\ rooms' = [rooms EXCEPT ![r] =
       Bump([@ EXCEPT !.playing = playing, !.position = position])]
  /\ UNCHANGED <<owner, role>>

\* Mutant: the check hostID == memberID of store.go:397 left out.
KickAnyMember(r, h, u) ==
  /\ IsHost(r, h)
  /\ IsMember(r, u)
  /\ role' = [role EXCEPT ![r][u] = "none"]
  /\ UNCHANGED <<owner, rooms>>

\* The DELETE tests that h is the host; a host cannot remove itself.
KickMember(r, h, u) ==
  /\ h # u
  /\ IsHost(r, h)
  /\ IsMember(r, u)
  /\ role' = [role EXCEPT ![r][u] = "none"]
  /\ UNCHANGED <<owner, rooms>>

\* Mutant: the lock set without version=version+1.
SetRoomLockedInPlace(r, h, locked) ==
  /\ IsHost(r, h) /\ rooms[r].version < MaxVersion
  /\ rooms' = [rooms EXCEPT ![r].locked = locked]
  /\ UNCHANGED <<owner, role>>

\* The UPDATE tests the host, not the membership.
SetRoomLocked(r, h, locked) ==
  /\ IsHost(r, h) /\ rooms[r].version < MaxVersion
  /\ rooms' = [rooms EXCEPT ![r] = Bump([@ EXCEPT !.locked = locked])]
  /\ UNCHANGED <<owner, role>>

\* Mutant: the old host not demoted.
TransferWithoutDemotion(r, h, u) ==
  /\ IsHost(r, h) /\ rooms[r].version < MaxVersion
  /\ IsMember(r, u)
  /\ role' = [role EXCEPT ![r] = SetRole(@, u, "host")]
  /\ rooms' = [rooms EXCEPT ![r] = Bump([@ EXCEPT !.host = u])]
  /\ UNCHANGED owner

\* One transaction: demote the host, promote the member, then rooms.host_id.
TransferHost(r, h, u) ==
  /\ IsHost(r, h) /\ rooms[r].version < MaxVersion
  /\ IsMember(r, u)
  /\ role' = [role EXCEPT ![r] = SetRole(SetRole(@, h, "member"), u, "host")]
  /\ rooms' = [rooms EXCEPT ![r] = Bump([@ EXCEPT !.host = u])]
  /\ UNCHANGED owner

\* What requests about rooms do; the uploads are in Library.
RoomNext ==
  \/ \E r \in Room, v \in Video, u \in User : CreateRoom(r, v, u)
  \/ \E r \in Room, u \in User : JoinRoom(r, u)
  \/ \E r \in Room : ExpireInvite(r)
  \/ \E r \in Room, u \in User, b \in BOOLEAN, p \in Sought : UpdatePlayback(r, u, b, p)
  \/ \E r \in Room, h, u \in User : KickMember(r, h, u)
  \/ \E r \in Room, h \in User, b \in BOOLEAN : SetRoomLocked(r, h, b)
  \/ \E r \in Room, h, u \in User : TransferHost(r, h, u)

Next == RoomNext \/ \E v \in Video, u \in User : CreateVideo(v, u)

Spec == Init /\ [][Next]_vars

-----------------------------------------------------------------------------
(* Properties. *)

\* rooms.host_id and room_members.role say the same thing: the user with the role
\* "host" is host_id, and there is no other.  Kick and lock test the one, nothing tests
\* the other, and TransferHost has to write both (store.go:423-446).
HostHasTheRole ==
  \A r \in Room : \A u \in User : role[r][u] = "host" <=> IsHost(r, u)

VersionStep(r) ==
  /\ rooms'[r] # NoRow
  /\ rooms'[r].version >= rooms[r].version
  /\ rooms'[r].version = rooms[r].version => Shared(rooms'[r]) = Shared(rooms[r])

\* A room whose version stands still has not changed, and versions only grow: two
\* room.state messages of one version are the same message, and a client that keeps the
\* highest version keeps the latest state (store.go:368, 412, 439).
VersionNamesTheState == [][\A r \in Room : rooms[r] # NoRow => VersionStep(r)]_vars

\* The host of the room according to the role column, the one no statement tests.
HostByRole(r) ==
  IF \E u \in User : role[r][u] = "host"
  THEN CHOOSE u \in User : role[r][u] = "host"
  ELSE NoUser

Members(r) == {u \in User : IsMember(r, u)}

IsLocked(r) == rooms[r] # NoRow /\ rooms[r].locked

\* The tables implement the promise, with the host read from the role column.
Promise == INSTANCE WatchRoom WITH
             host <- [r \in Room |-> HostByRole(r)],
             members <- [r \in Room |-> Members(r)],
             locked <- [r \in Room |-> IsLocked(r)]

\* Every statement that writes the tables is a step a watch room promises, or changes
\* none of host, members and lock: nobody enters a locked room, the host stays a member.
PromiseKept == Promise!Spec
=============================================================================
