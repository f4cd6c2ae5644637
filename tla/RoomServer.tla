----------------------------- MODULE RoomServer -----------------------------
(***************************************************************************)
(* One room while people watch: the statements of Rooms, issued one by one *)
(* by the handlers of internal/server/handlers.go and the readers of       *)
(* internal/websocket/client.go, and the room.state messages they send     *)
(* through the hub to the tabs (web/static/js/app.js).                     *)
(*                                                                         *)
(* A handler holds nothing from one statement to the next: it writes,      *)
(* reads the room again, and then broadcasts what it read.  A connection   *)
(* is opened from a room read before it is registered.                     *)
(*                                                                         *)
(* Each user has one tab, and at most one of the requests that write under *)
(* way.  The queues hold room.state messages only: pings, presence, chat   *)
(* and errors carry no state of the room.  How a connection is wound up is *)
(* in Hub.                                                                 *)
(***************************************************************************)
EXTENDS Integers, Sequences, FiniteSets

CONSTANTS User, Room, Video, Sought, NoUser, NoRow, MaxVersion,  \* as in Rooms
          TheRoom,   \* the room
          TheVideo,  \* its video
          Owner,     \* who has created it
          Guest,     \* who has joined it
          Cap,       \* cap(client.send), 256 in the code
          Verb       \* bound of the model: what each user asks for, of the list below

ASSUME RoomAssumption == TheRoom \in Room /\ TheVideo \in Video
ASSUME UserAssumption == Owner \in User /\ Guest \subseteq User \ {Owner}
ASSUME VerbAssumption ==
  Verb \subseteq User \X {"play", "pause", "seek", "lock", "unlock", "transfer", "kick", "join"}
ASSUME CapAssumption == Cap \in Nat \ {0}

VARIABLES owner, rooms, role,  \* the tables of Rooms
          handle,  \* Handle of the user's connection: how far it is, and the room it read
          hub,     \* users whose connection is registered
          cut,     \* those of them whose connection somebody closes
          queue,   \* client.send: the room.state messages in it
          job,     \* what the reader and the HTTP request of a user are doing
          view     \* the room.state that reached the user's tab last

VARIABLES log,     \* log[v]: what the room was at version v
          newest,  \* newest[u]: the highest version queued for this connection
          since,   \* since[u]: the version at which this connection was registered
          failed,  \* versions whose writer could not read the room again
          passed   \* users kicked between the membership check and addClient

DB == INSTANCE Rooms

\* As in Rooms, with a version for the room to begin with.
ASSUME TablesAssumption ==
  /\ Sought \subseteq Int /\ MaxVersion \in Nat \ {0}
  /\ NoUser \notin User /\ NoRow \notin DB!RoomRow

tables == <<owner, rooms, role>>
connections == <<handle, hub, cut, since>>
delivery == <<queue, newest, view>>
history == <<log, failed, passed>>
vars == <<tables, connections, delivery, job, history>>

-----------------------------------------------------------------------------
row == rooms[TheRoom]

\* stateMessage(room), as it is made: a position of 0 is left out when it is encoded
\* (message.go:9), and the player of the tab then stays where it is.
Message(r) == [version |-> r.version, state |-> DB!Shared(r)]

NoMessage == [version |-> 0, state |-> "none"]

Messages == {[version |-> v, state |-> log[v]] : v \in DOMAIN log}

Job == User \X {"reader", "http"}

Reader(u) == <<u, "reader">>

Http(u) == <<u, "http">>

Idle == [at |-> "idle"]

\* The write has committed; RoomForMember(u) comes next.
Reread(u, version) == [at |-> "reread", as |-> u, wrote |-> version]

\* broadcast goes round the clients in todo, under RLock.
Casting(g) == job[g].at = "cast"

NoReaders == \A g \in Job : ~Casting(g)

Do(g, j) == job' = [job EXCEPT ![g] = j]

Free(g) == job[g] = Idle

\* The row a write leaves enters the log.
Logged ==
  log' = [v \in DOMAIN log \cup {row'.version} |->
            IF v = row'.version THEN DB!Shared(row') ELSE log[v]]

TypeOK ==
  /\ DB!TypeOK
  /\ \A u \in User :
       /\ handle[u].at \in {"away", "checked", "added", "open"}
       /\ handle[u].room \in Messages \cup {NoMessage}
       /\ queue[u] \in Seq(Messages) /\ Len(queue[u]) <= Cap
       /\ view[u] \in Messages \cup {NoMessage}
  /\ DOMAIN log = 1..row.version
  /\ newest \in [User -> 0..MaxVersion] /\ since \in [User -> 0..MaxVersion]
  /\ hub \subseteq User /\ cut \subseteq hub
  /\ \A g \in Job :
       \/ job[g] = Idle
       \/ job[g].at = "seek" /\ g[2] = "reader"
       \/ job[g].at = "reread" /\ job[g].as \in User
       \/ job[g].at = "read" /\ job[g].message \in Messages
       \/ job[g].at = "cast" /\ job[g].message \in Messages /\ job[g].todo \subseteq User
       \/ job[g].at = "disconnect" /\ job[g].member \in User /\ g[2] = "http"
  /\ failed \subseteq DOMAIN log /\ passed \subseteq User

Init ==
  /\ owner = [v \in Video |-> IF v = TheVideo THEN Owner ELSE NoUser]
  /\ rooms = [r \in Room |-> IF r # TheRoom THEN NoRow ELSE
       [host |-> Owner, video |-> TheVideo, locked |-> FALSE, invite |-> "live",
        playing |-> FALSE, position |-> 0, version |-> 1]]
  /\ role = [r \in Room |-> [u \in User |->
       CASE r = TheRoom /\ u = Owner -> "host"
         [] r = TheRoom /\ u \in Guest -> "member"
         [] OTHER -> "none"]]
  /\ handle = [u \in User |-> [at |-> "away", room |-> NoMessage]]
  /\ hub = {} /\ cut = {}
  /\ queue = [u \in User |-> <<>>]
  /\ job = [g \in Job |-> Idle]
  /\ view = [u \in User |-> NoMessage]
  /\ log = [v \in {1} |-> DB!Shared(row)]
  /\ newest = [u \in User |-> 0]
  /\ since = [u \in User |-> 0]
  /\ failed = {} /\ passed = {}

-----------------------------------------------------------------------------
(* Connections. *)

\* Mutant: the error of RoomForMember dropped, and the room it returns with it used.
CheckMembershipUnchecked(u) ==
  /\ handle[u].at = "away"
  /\ handle' = [handle EXCEPT ![u] =
       [at |-> "checked", room |-> IF DB!IsMember(TheRoom, u) THEN Message(row) ELSE NoMessage]]
  /\ UNCHANGED <<tables, hub, cut, since, delivery, job, history>>

\* Handle reads the room as a member of it ...
CheckMembership(u) ==
  /\ handle[u].at = "away"
  /\ DB!IsMember(TheRoom, u)
  /\ handle' = [handle EXCEPT ![u] = [at |-> "checked", room |-> Message(row)]]
  /\ UNCHANGED <<tables, hub, cut, since, delivery, job, history>>

\* ... registers the connection ...
AddClient(u) ==
  /\ handle[u].at = "checked" /\ NoReaders
  /\ handle' = [handle EXCEPT ![u].at = "added"]
  /\ hub' = hub \cup {u}
  /\ since' = [since EXCEPT ![u] = row.version]
  /\ UNCHANGED <<tables, cut, delivery, job, history>>

\* ... unless the origin is wrong or the upgrade fails ...
RefuseUpgrade(u) ==
  /\ handle[u].at = "checked"
  /\ handle' = [handle EXCEPT ![u] = [at |-> "away", room |-> NoMessage]]
  /\ passed' = passed \ {u}
  /\ UNCHANGED <<tables, hub, cut, since, delivery, job, log, failed>>

\* client.send <- payload, when there is room.
Queue(u, message) ==
  /\ queue' = [queue EXCEPT ![u] = Append(@, message)]
  /\ newest' = [newest EXCEPT ![u] = IF message.version > @ THEN message.version ELSE @]

\* ... and queues the room it read at the start.
SendInitial(u) ==
  /\ handle[u].at = "added" /\ Len(queue[u]) < Cap
  /\ handle' = [handle EXCEPT ![u] = [at |-> "open", room |-> NoMessage]]
  /\ Queue(u, handle[u].room)
  /\ UNCHANGED <<tables, hub, cut, since, view, job, history>>

\* The writer, the network, and handleMessage in the tab: it acts on every room.state that
\* comes and never looks at the version.
Deliver(u) ==
  /\ handle[u].at = "open" /\ queue[u] # <<>>
  /\ view' = [view EXCEPT ![u] = Head(queue[u])]
  /\ queue' = [queue EXCEPT ![u] = Tail(@)]
  /\ UNCHANGED <<tables, connections, newest, job, history>>

\* The connection ends, cut or not: its reader unregisters it.  The tab keeps what it shows,
\* and may connect again.
RemoveClient(u) ==
  /\ handle[u].at = "open" /\ Free(Reader(u)) /\ NoReaders
  /\ handle' = [handle EXCEPT ![u].at = "away"]
  /\ hub' = hub \ {u} /\ cut' = cut \ {u}
  /\ queue' = [queue EXCEPT ![u] = <<>>]
  /\ newest' = [newest EXCEPT ![u] = 0]
  /\ since' = [since EXCEPT ![u] = 0]
  /\ passed' = passed \ {u}
  /\ UNCHANGED <<tables, view, job, log, failed>>

-----------------------------------------------------------------------------
(* What the reader of a connection does with playback.play, .pause and .seek. *)

CanRead(u) == handle[u].at = "open" /\ Free(Reader(u))

\* UPDATE refuses, or the row is written and the room is to be read again.
Update(u, playing, position) ==
  \/ /\ DB!UpdatePlayback(TheRoom, u, playing, position)
     /\ Logged
     /\ Do(Reader(u), Reread(u, row'.version))
     /\ UNCHANGED <<connections, delivery, failed, passed>>
  \/ /\ ~(DB!IsMember(TheRoom, u) /\ position \in 0..DB!MaxPosition)
     /\ Do(Reader(u), Idle)
     /\ UNCHANGED <<tables, connections, delivery, history>>

PlayOrPause(u, playing, position) ==
  /\ <<u, IF playing THEN "play" ELSE "pause">> \in Verb /\ CanRead(u)
  /\ Update(u, playing, position)

\* Mutant: a seek starts the playback, as client.go:184 says before line 185 reads the room.
SeekReadNothing(u, position) ==
  /\ <<u, "seek">> \in Verb /\ CanRead(u)
  /\ DB!IsMember(TheRoom, u)
  /\ Do(Reader(u), [at |-> "seek", playing |-> TRUE, position |-> position,
                    read |-> row.version])
  /\ UNCHANGED <<tables, connections, delivery, history>>

\* A seek keeps the room playing or paused: it reads the row to find out which.
SeekRead(u, position) ==
  /\ <<u, "seek">> \in Verb /\ CanRead(u)
  /\ DB!IsMember(TheRoom, u)
  /\ Do(Reader(u), [at |-> "seek", playing |-> row.playing, position |-> position,
                    read |-> row.version])
  /\ UNCHANGED <<tables, connections, delivery, history>>

SeekWrite(u) ==
  LET seek == job[Reader(u)]
  IN  seek.at = "seek" /\ Update(u, seek.playing, seek.position)

-----------------------------------------------------------------------------
(* What the HTTP requests of a user do. *)

Lock(u, locked) ==
  /\ <<u, IF locked THEN "lock" ELSE "unlock">> \in Verb /\ Free(Http(u))
  /\ DB!SetRoomLocked(TheRoom, u, locked)
  /\ Logged
  /\ Do(Http(u), Reread(u, row'.version))
  /\ UNCHANGED <<connections, delivery, failed, passed>>

\* The room is read again as the new host.
Transfer(u, member) ==
  /\ <<u, "transfer">> \in Verb /\ Free(Http(u))
  /\ DB!TransferHost(TheRoom, u, member)
  /\ Logged
  /\ Do(Http(u), Reread(member, row'.version))
  /\ UNCHANGED <<connections, delivery, failed, passed>>

\* Mutant: the handler returns without DisconnectMember.
KickOnly(u, member) ==
  /\ <<u, "kick">> \in Verb /\ Free(Http(u))
  /\ DB!KickMember(TheRoom, u, member)
  /\ passed' = IF handle[member].at = "checked" THEN passed \cup {member} ELSE passed
  /\ UNCHANGED <<connections, delivery, job, log, failed>>

Kick(u, member) ==
  /\ <<u, "kick">> \in Verb /\ Free(Http(u))
  /\ DB!KickMember(TheRoom, u, member)
  /\ Do(Http(u), [at |-> "disconnect", member |-> member])
  /\ passed' = IF handle[member].at = "checked" THEN passed \cup {member} ELSE passed
  /\ UNCHANGED <<connections, delivery, log, failed>>

\* DisconnectMember: the registered connection is closed, if there is one.
Disconnect(u) ==
  /\ job[Http(u)].at = "disconnect"
  /\ cut' = cut \cup ({job[Http(u)].member} \cap hub)
  /\ Do(Http(u), Idle)
  /\ UNCHANGED <<tables, handle, hub, since, delivery, history>>

\* Through the invite; the room is not told.
Join(u) ==
  /\ <<u, "join">> \in Verb /\ Free(Http(u))
  /\ DB!JoinRoom(TheRoom, u)
  /\ passed' = passed \ {u}
  /\ UNCHANGED <<connections, delivery, job, log, failed>>

-----------------------------------------------------------------------------
(* The end of every write: read the room again, and broadcast it. *)

\* Mutant: the version of the write with whatever the room is when it is read again.
RereadUnderOwnVersion(g) ==
  /\ job[g].at = "reread"
  /\ DB!IsMember(TheRoom, job[g].as)
  /\ Do(g, [at |-> "read", wrote |-> job[g].wrote,
            message |-> [version |-> job[g].wrote, state |-> DB!Shared(row)]])
  /\ UNCHANGED <<tables, connections, delivery, history>>

\* Mutant: the room as it was read before the write.
RereadBefore(g) ==
  /\ job[g].at = "reread"
  /\ Do(g, [at |-> "read", wrote |-> job[g].wrote,
            message |-> [version |-> job[g].wrote - 1, state |-> log[job[g].wrote - 1]]])
  /\ UNCHANGED <<tables, connections, delivery, history>>

\* RoomForMember.  It fails when the member has been removed, and in an HTTP request also
\* when the client has gone and the request's context is cancelled: nobody is told then.
RereadRoom(g) ==
  /\ job[g].at = "reread"
  /\ \/ /\ DB!IsMember(TheRoom, job[g].as)
        /\ Do(g, [at |-> "read", message |-> Message(row), wrote |-> job[g].wrote])
        /\ UNCHANGED failed
     \/ /\ ~DB!IsMember(TheRoom, job[g].as) \/ g[2] = "http"
        /\ Do(g, Idle)
        /\ failed' = failed \cup {job[g].wrote}
  /\ UNCHANGED <<tables, connections, delivery, log, passed>>

\* What is left of a broadcast when the clients in todo have not been reached.
Rest(message, todo) ==
  IF todo = {} THEN Idle ELSE [at |-> "cast", message |-> message, todo |-> todo]

\* broadcast takes the lock for reading ...
BroadcastStart(g) ==
  /\ job[g].at = "read"
  /\ Do(g, Rest(job[g].message, hub))
  /\ UNCHANGED <<tables, connections, delivery, history>>

\* Mutant: a full queue drops the message and the client stays.
BroadcastToDropping(g, u) ==
  /\ Casting(g) /\ u \in job[g].todo
  /\ Do(g, Rest(job[g].message, job[g].todo \ {u}))
  /\ IF Len(queue[u]) < Cap THEN Queue(u, job[g].message) ELSE UNCHANGED <<queue, newest>>
  /\ UNCHANGED <<tables, handle, hub, cut, since, view, history>>

\* ... and queues the message for each client, or closes the client if its queue is full.
BroadcastTo(g, u) ==
  /\ Casting(g) /\ u \in job[g].todo
  /\ Do(g, Rest(job[g].message, job[g].todo \ {u}))
  /\ IF Len(queue[u]) < Cap
     THEN Queue(u, job[g].message) /\ UNCHANGED cut
     ELSE cut' = cut \cup {u} /\ UNCHANGED <<queue, newest>>
  /\ UNCHANGED <<tables, handle, hub, since, view, history>>

-----------------------------------------------------------------------------
Next ==
  \/ \E u \in User :
       \/ CheckMembership(u) \/ RefuseUpgrade(u) \/ AddClient(u) \/ SendInitial(u)
       \/ Deliver(u) \/ RemoveClient(u)
       \/ \E b \in BOOLEAN, p \in Sought : PlayOrPause(u, b, p)
       \/ \E p \in Sought : SeekRead(u, p)
       \/ SeekWrite(u)
       \/ \E b \in BOOLEAN : Lock(u, b)
       \/ \E m \in User : Transfer(u, m) \/ Kick(u, m)
       \/ Disconnect(u) \/ Join(u)
  \/ \E g \in Job : RereadRoom(g) \/ BroadcastStart(g) \/ \E u \in User : BroadcastTo(g, u)

Spec == Init /\ [][Next]_vars

-----------------------------------------------------------------------------
(* Properties. *)

Held ==
  (UNION {{queue[u][i] : i \in 1..Len(queue[u])} \cup {view[u], handle[u].room} : u \in User})
    \cup {job[g].message : g \in {g \in Job : job[g].at \in {"read", "cast"}}}

\* Whatever is on its way to a tab or has reached it is a state the room had, all of it at the
\* version it carries: no message mixes two writes.
StatesAreCommitted == Held \subseteq Messages \cup {NoMessage}

\* What a request broadcasts is its own write or a later one, never the room as it was before.
OwnWriteIsShown ==
  \A g \in Job : job[g].at = "read" => job[g].message.version >= job[g].wrote

\* No request is between its write and the end of its broadcast.
Settled == \A g \in Job : job[g].at \notin {"reread", "read", "cast"}

\* A write reaches everybody who was registered before it: once all broadcasts are over, a
\* connection that is not being closed has the latest version in its queue or behind it,
\* unless the writer failed to read the room again.
RegisteredGetTheLatest ==
  Settled /\ row.version \notin failed =>
    \A u \in hub \ cut : since[u] < row.version => newest[u] = row.version

\* Somebody who was kicked stays connected only until DisconnectMember runs, or if the
\* membership had been checked before the kick and addClient came after.
OnlyMembersListen ==
  \A u \in hub \ cut :
    \/ DB!IsMember(TheRoom, u)
    \/ \E w \in User : job[Http(w)].at = "disconnect" /\ job[Http(w)].member = u
    \/ u \in passed

\* A seek leaves the room playing or paused as it was when the seek read it, whoever has
\* written in between: what comes after that reading is undone, what comes before it is not
\* (client.go:185-193).
SeekWritesWhatItRead ==
  [][\A u \in User :
       SeekWrite(u) /\ row'.version # row.version =>
         row'.playing = log[job[Reader(u)].read].playing]_vars

\* Nothing is running, on its way or half connected.
Quiet ==
  /\ \A g \in Job : job[g] = Idle
  /\ \A u \in User : queue[u] = <<>> /\ handle[u].at \in {"away", "open"}

\* README.md:3: the room synchronizes playback.  When all is quiet, and no request failed on
\* the way, the last room.state to reach every connected tab is the room as it is.
Synchronized == Quiet /\ failed = {} => \A u \in hub \ cut : view[u] = Message(row)

\* SECURITY_AND_IMPLEMENTATION_PLAN.md:164: membership is enforced consistently.  When all
\* is quiet, only members are connected.
KickEndsConnection == Quiet => \A u \in hub \ cut : DB!IsMember(TheRoom, u)
=============================================================================
