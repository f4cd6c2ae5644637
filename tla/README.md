# Cineroom in TLA+

A model of Cineroom (a watch-room server in Go: accounts, uploaded videos, rooms in which
members watch one video together over a WebSocket, and the browser tab they do it in), with
TLC runs on small instances and theorems checked by TLAPS. Line numbers below are those of
the repository, under `src/`.

## 1. The system

| component | code | state | operations |
|---|---|---|---|
| Room tables | `internal/database/store.go` | `videos`, `rooms`, `room_members` (SQLite) | CreateVideo, CreateRoom, JoinRoom, UpdatePlayback, KickMember, SetRoomLocked, TransferHost |
| Uploads | `internal/media/storage.go`, `handlers.go:371-410` | files in the upload directory | receive, save (temporary file, rename), row; open |
| Hub and connections | `internal/websocket/hub.go`, `client.go` | the map of clients under an RWMutex; per client a queue of 256, `done`, the socket | addClient, removeClient, broadcast, DisconnectMember, Close; readPump, writePump, close |
| Presence and keepalive | `hub.go:45-65`, `client.go:15-23`, `99-112`, `155-182` | the last ping of each client, read deadline, ticker | list built and broadcast on join, leave and pong; ping, pong, deadline |
| Room requests | `handlers.go:412-486`, `client.go:25-57`, `171-209` | none between two statements | play, pause, seek, lock, transfer, kick, join; each writes, reads again, broadcasts |
| Chat | `store.go:122-143`, `379-394`, `client.go:199-205` | `chat_messages` | send, history |
| Accounts and sessions | `handlers.go:32-244`, `310-365`, `store.go:68-86`, `222-294` | `users`, `pending_registrations`, `sessions`, the refresh cookie | register, verify, login, logout, refresh, Google sign-in |
| Browser tab | `web/static/js/app.js` | the room shown, the socket, the reconnection timer, the chat log | open, leave, reconnect, handle messages, sign in and out |
| The rest | `cmd/server/main.go`, `server.go`, `middleware.go`, `config.go`, `mailer.go`, migration | | start, stop, headers, origin check, mail |

How they interact. An HTTP handler or the reader goroutine of a connection calls the store,
one statement after another, with nothing held in between; then it broadcasts through the
hub what it read last. The hub puts the message into the queue of every client of the room;
the client's writer goroutine sends it; the tab acts on it. The hub is shared memory under a
lock, the database is shared under SQLite's, and a connection's goroutines share its `send`
and `done` channels. The tab is one thread of callbacks that suspends at every `await`.

What is hard here: a connection is checked against the database first and registered with
the hub later; a write and the broadcast of it are separate steps of concurrent goroutines;
queues are bounded; a connection is closed by whoever notices, several at once; a handler
runs two or three statements, any of which can fail or find what another request has
changed; a file and the row that names it are written one after the other, and the process
can stop between; the tab goes on after an `await` or a timeout whatever the user has done
in the meantime. `PROJECT.json` lists each hazard at its line.

## 2. The modules

| module | models |
|---|---|
| `WatchRoom` | abstract: what a room promises about host, members and lock |
| `Link` | abstract: what the hub promises of a connection |
| `Rooms` | the room tables and every statement that writes them |
| `Library` | extends `Rooms` with uploads, the files behind the videos, and stops of the process and of the machine |
| `Hub` | the goroutines of the connections of one room, the hub's map and lock |
| `Presence` | who is on a presence list and with which ping; deadlines, pings and pongs in discrete time |
| `RoomServer` | `Rooms` (by INSTANCE) under the handlers and readers, with the messages on their way to the tabs |
| `Tab` | one browser tab: rooms opened, connections and reconnections, the chat log; with the chat of the server |
| `Accounts` | registration, verification, login, refresh sessions, Google sign-in |
| `MCRooms`, `MCPresence`, `MCServer`, `MCTab` | values for TLC: positions on both sides of each bound, pings, who asks for what, symmetry of connections |
| `RoomsProofs`, `LibraryProofs`, `HubProofs`, `PresenceProofs`, `RoomServerProofs`, `AccountsProofs`, `TabProofs`, `ChatProofs` | theorems (section 5) |

Each module keeps its mutants (operators introduced by a comment "Mutant:") beside the
definition they vary; `PROJECT.json` says which property each one breaks. They are not part
of `Next`.

### Rooms

One action per statement or transaction. The database runs with SQLite's rollback journal
(`store.go:149` sets only foreign keys and a busy timeout), so a transaction that has read
keeps out every other commit until it ends; one that cannot get its lock fails and is rolled
back. A transaction is therefore one step. A row of `rooms` is a record of the columns the
properties tell apart; titles, tokens and timestamps are left out, and the expiry of an
invite is an action of its own. `role` is `room_members`, with "none" for a missing row.
Positions are integers; the code's are floats, and only the comparison with 0 and 86400
matters. `Sought` holds the positions clients ask for.

### Library

An upload is a row of steps for one video: the form is read (`Receive`), a temporary file is
made, filled through `io.LimitReader` (`Limited`), renamed under its key, and the row is
inserted. `SaveFails` is every error return of `Save` (too big, wrong type, disk full, ...),
all of which run the deferred `Remove`; `InsertFails` leaves the file. Nothing is synced:
`dirty` are the videos whose file, or whose file's name, the disk may not have as it is now.
`Stop` ends the process, which leaves the directory as it is; `PowerFails` ends the machine, after
which an unsynced file may be empty and an unsynced change of a name undone: the file of a
committed row is missing, and its `upload-*` name is back or is not. Both are external to the
code, and `WriteBack` is the operating system's. `Restart`, which they share, looks at nothing in
the directory. `torn` and `left` are history.

### Hub

State per connection: how far `Handle` is, what `readPump` and `writePump` are doing, the
queue, and how many goroutines stand before (`closing`) and after (`latched`) the test in
`close()`. A broadcast is a goroutine that takes a copy of the room's clients (`todo`) and
offers the message to one after another; while any `todo` is not empty the lock is held for
reading, so `AddClient`, `RemoveClient` and `Close` wait. The actions follow the code in
order: `Handle` registers, queues two messages (blocking), starts the pumps; the reader's
deferred call removes the client, spawns a presence broadcast and closes; the writer's
closes. `DisconnectMember` is one step, because each connection belongs to a user of its
own. Presence broadcasts of one kind and connection do not overlap one another in the model.
`Lose` stands for a peer that goes away and for the read deadline passing; when that
happens is in `Presence`. `Link` is what is left when goroutines, queues and the lock are taken
away: connections enter, miss messages, are cut off and leave. `Lifetime` maps to it, with the
connections that were registered once and are not any more as those that have left, and those
whose close() has been called (`CutOff`) as those cut off.

### Presence

`Conn` are places for connections, each of a user and used again once its connection is
gone. `building` counts the goroutines of `broadcastPresence` that have yet to build their
list, `lists` those that have and have yet to broadcast it; of a list in hand only its users
are kept, since nothing that follows looks at the pings. `StartList`, `LoadPing` and `EndList`
are `participants`: the lock, one turn of its loop for each connection in any order, because Go
walks maps in any, and the return. Pings are atomics and change between two turns (`ReadPong`,
`ReadControlPong`, `StartPumps`); the map cannot, since `AddClient` and `RemoveClient` wait for
the lock. One list is built at a time, as walks under a lock for reading do not see each other.
`Merge` is the test of the loop, and `met` is history: the ping and the reader of each
connection as the walk met them. Time is discrete: `Tick` lowers the timers of the connections
whose pumps run and waits when one is due. `pingPeriod` is computed as in the code. A ping is
JSON and its answer, `ReadPong`, moves no deadline; `ReadControlPong` is the WebSocket pong,
which does, and which no browser sends unasked. How a broadcast takes the lock is in `Hub`; here
it is one step.

### RoomServer

Each user has one connection and at most one HTTP request under way. `CheckMembership`,
`AddClient` and `SendInitial` are the three parts of `Handle` that other goroutines see
between; `RereadRoom` is the second statement of every write; `BroadcastStart` and
`BroadcastTo` are the hub's `broadcast`. A seek is two statements, `SeekRead` and
`SeekWrite`. `view` is the last `room.state` that reached the tab; a position of 0 is left
out when a message is encoded (`message.go:9`, omitempty), which the player of the tab would
notice and the model, which has no player, does not. History variables: `log` (the room at
each version), `newest`, `since`, `failed` (versions nobody was told of), `passed` (users
kicked between check and registration).

### Tab

An action is one callback of the tab up to its first `await`, or one statement of the server.
`Ask` is a click on a room, an invite or a new room: all three end in a call of `openRoom`
when their request is answered, so that several can be under way. `OpenRoom` is `openRoom` up
to the fetch of the chat history, `AnswerHistory`/`HistoryFails` the answer, `Resume` what
follows: the history is put into the log and `connectSocket` is called. `sockets` are the
connections that are not yet gone, whether or not the variable `socket` still names them, each
with its `feed` of messages on the way; `CloseEvent` is `onclose`, whichever socket it is of.
A timeout that `reconnectTimer` has forgotten is counted in `late`. Logging out and the answer
to it are one step. On the server a chat line is a test of membership, an INSERT and a
broadcast (`SendTest`, `Insert`, `BroadcastChat`). A `Sender` is a connection, which has a
`readPump` and so a line under way of its own; `Seat` says of which row of `room_members` it is,
and a user with several tabs has several connections of one row. `KickUser` is a kick of the user
of the tab, `KickSender` deletes a row of `Seat`, at any time. `overlaps`, `stranded`, `shown`, `excused` and `spoken` are history
(`shown` is the log itself).

### Accounts

One request per browser, one statement per step. `Loads(e)` is what `UserByEmail` and
`UserByID` do: they scan `google_subject` into a Go string, and `database/sql` reports an
error for NULL, which is what `CreateUser` leaves there. It follows that the success of a
login and of a refresh are never reached for such accounts; they are in the model all the same
(`Login`, `RefreshUser`), and become reachable when the column is scanned differently. Errors
the code drops (`_ =`) are choices: `DeletePending`, `CreateSession` and `DeleteSession` may
have no effect. `RateLimit`, `AuthBlocked` and their companions are called and not defined in
the repository; a request they turn away does nothing.

## 3. The runs

| run | question | bounds |
|---|---|---|
| `rooms` | do the tables keep one host, do versions name states, is every statement a step of `WatchRoom`, does no row name a file that is not there, unless a power failure took it | 3 users, 1 room, 2 videos, version up to 3, 4 positions, sizes at and above the limit, 1 stop |
| `hub` | a broadcast and the map it walks; who is registered is with his handler or has a reader that has not removed him yet; who misses a message, is out of the map or has no writer is being cut off; a notice is kept; is every step one of `Link`; both pumps and the handler end, but for a handler that is stuck; broadcasts end | 1 connection that may be lost or kicked, 1 request, queue of 2, 1 frame, fair |
| `presence` | is a list the room while pings change, is everybody told, are times measured, is who has gone removed | 2 places, 2 users, 2 times, `PongWait` of 2, 2 goroutines at work, fair |
| `server` | is what is broadcast committed, up to date and queued for all; who stays connected after kick, transfer and rejoin; does a seek write the flag it read | 2 users, queue of 1, version up to 3, `MCVerb` |
| `tab` | which connections a tab has or will make, what is left of a room that was left, which lines it shows how often, what a kick lets through | 2 rooms, 2 connections (symmetric) of one other user in one of them, history of 1, 2 calls of `openRoom`, 2 lines |
| `accounts` | what an account is made of; whose pending registration is removed; whether an account changes | 2 browsers, 2 addresses, 1 username, 2 registrations, 1 token, 2 Google identities |

Why the bounds are enough. In `rooms` a transfer, a kick and a rejoin need three users, and
two videos let one upload fail or be cut off while a room watches the other. In `hub` the
queue of 2 stands for 256: `Handle`'s two messages fill it and any broadcast overfills it; the
three presence broadcasts of the connection, its reader's and the request's overlap in every
way. That more connections change nothing is proved (section 5). In `presence` two places may
be of one user or of two, of which `MCInit` leaves out what is the same by another name (the
first place is of the first user); one may send WebSocket pongs. `MaxTasks` bounds the goroutines a
join or a pong may find at work, never those a departure starts; two suffice for two lists in
the wrong order. In `server` a queue of one is full after a single message, so every broadcast
may find it so; `MCVerb` gives the host plays, kicks and transfers and the member seeks,
rejoins and, once he is host, the lock, which is at least one action of every kind with two
writers at once; three versions give every order of two writes, their re-reads and their
broadcasts. In `tab` two rooms opened on top of each other are the least that overlap; the
other user chats in one of them, so that lines may be of the room shown or not, and his two
connections can both have passed the test of membership when a kick commits; a history of one
line is shorter than the two there may be. In `accounts` one username for two
addresses makes the UNIQUE constraint bite, and two registrations suffice for one to replace
the other at any step. All runs turn deadlock checking off: users may stop asking and
processes stop at a bound.

Fairness. In `hub`: weak fairness of each goroutine's next step, which is what the Go scheduler
gives; strong fairness of `RemoveClient`, because a waiting `Lock()` of an RWMutex holds off
new readers and so gets its turn; a read of a closed or silent socket fails (at the deadline at
the latest); a write is only assumed to fail on a socket closed on this side. Nothing is
assumed of peers, of users or of requests. Both properties allow for a crash, since the model
contains the double close. In `presence`: time passes, pumps start, a list begun
is finished (`LoadPing`, `EndList`), the ticker fires and a read fails at its deadline; this last
one is strong fairness, for the same reason as `RemoveClient` in `hub`; nothing is assumed of the network or of peers, so
`GoneIsRemoved` rests on the deadline alone. `Tab` states no fairness: whether a connection
comes about is the network's business, and `ShownRoomIsAlive` says in its place that the tab
never gives up.

## 4. Where the code and what it says differ

Each is a run that TLC must find violated.

| run | what happens |
|---|---|
| `hub_double_close` | two goroutines pass the test in `close()` (`client.go:227-229`) before either closes `done`; the second close panics and the process ends |
| `server_join` | a write between the read of the room (`client.go:31`) and `addClient` (`:52`) never reaches the tab that is joining; the initial state can also follow a newer broadcast, and two broadcasts can go out in the other order, and the tab does not look at the version |
| `server_kick` | a kick between check and registration disconnects nobody |
| `keepalive` | the read deadline is moved only by WebSocket pongs (`client.go:106-112`), while the server pings with JSON text and the tab answers with JSON text: a tab that answers every ping is cut off after `pongWait` |
| `tab_controls` | `renderRoomControls` is declared in the block of the error branch (`app.js:84`) and called from the room.state branch (`:68`): the call throws, `applyingRemoteState` stays set, and nothing the user does with the player is sent after the first `room.state` |
| `accounts_login` | the right password of a registered account is refused as wrong |

The properties that pass also say how far the code goes, and no further. `StraysComeOfOverlap`:
a room opened over another leaves one connection more, since `openRoom` takes
`intentionalDisconnect` back before the close event it is meant for. `EachLineOnce` excuses the
lines sent between the read of the history and the connection and while the tab reconnects:
they are not shown. `EverybodyIsTold` says that everybody has been offered the right presence
list, not that it came last. `RegisteredGetTheLatest` excuses writes whose second statement
failed. `LeftoversExplained` lists the ways a file stays that no row names, and
`RoomsHaveTheirVideo` the one way a row stays without its file: a power failure before the rename
is on the disk. `PumpsEnd` excepts a handler that is `Stuck` on a queue other goroutines have
filled before its pumps run (`client.go:54`): it stays for ever, and so does its entry in the map.
`LeftKeepsOnlyStrays` says that leaving a room closes one connection: what overlapping openings
have left behind stays open. `KickedSaysOneEach` counts per connection: a kicked user with two
tabs may have two lines stored after his kick. `SeekWritesWhatItRead` says that a seek undoes a
pause that commits between its two statements, and no more than that.

## 5. The proofs

For any values of the constants that satisfy the assumptions named in the modules, which TLC
evaluates on the runs.

`RoomsProofs`: `TypeCorrect` (`TypeOK`, which includes that no position outside a day is
stored), `HostRoleCorrect` (`HostHasTheRole`), `VersionCorrect` (`VersionNamesTheState`),
`ImplementsWatchRoom` (`PromiseKept`, the refinement of `WatchRoom`). `HostHasTheRole` alone is
not inductive: `CreateRoom` needs that a room without a row has no members (`NoOrphans`), and
`TransferHost` that the host is among the members, which follows from the equivalence. The
inductive invariant is `TypeOK /\ HostHasTheRole /\ NoOrphans`. One lemma per statement says
what the row it writes looks like, one per action that it preserves the invariant. For the
refinement, `HostIsHostOf` shows that the host read from the role column is `host_id`, and
`PromiseStep` maps each action to the step of `WatchRoom` of the same meaning or to a stutter.

`LibraryProofs`: `VideosCorrect` (`RoomsHaveTheirVideo`), `WholeCorrect` (`StoredAreWhole`),
`LeftoversCorrect` (`LeftoversExplained`), and two refinements: `LibraryImplementsRooms`, every
behaviour with uploads, failures and stops is one of `Rooms`, whose `CreateVideo` the INSERT is,
and hence `LibraryKeepsPromise`, it is one of `WatchRoom`. `LibraryInv` adds to the properties
what each stage of an upload means for its file and its row (a video with an owner is done and
has a file unless it is `torn`; a stage before the rename has none). `Stop` and `PowerFails` have
a lemma each on top of the one for `Restart` (`RestartKeepsInv`).

`HubProofs`: `TypeCorrect` (no queue holds more than `Cap` messages, only kicked connections are
told so), `WalksCorrect` (`BroadcastWalksTheRoom`), `KeeperCorrect` (`RegisteredHasKeeper`),
`MissedCorrect` (`MissedIsClosing`), `OutCorrect` (`OutIsCutOff`), `NoticeCorrect`
(`NoticeKept`) and `ImplementsLink` (`LifetimeKept`, the refinement of `Link`), for any
connections, requests and bounds and any capacity of at least 2. `TypeOK` is not inductive, since the writer
tells a peer of a kick when it finds the notice in the queue; `NoticeMeansKicked` says that a
notice in a queue belongs to somebody kicked. The queues are treated apart from the other
variables: `Appended`, `Taken` and `Offered` say what the steps do to a queue, and lemmas on top
do the work once for all actions. The other properties are each inductive given the types;
`MissedIsClosing` because a step may turn a call of `close()` into a closed connection but never
drops one (`MissedKept`), `OutIsCutOff` for the same reason (`StepCutOff`, said of any
connection). The refinement needs `HandlerFirst` besides (pumps belong to a handler that is done),
so that nobody is in the map before `addClient`; then a step that offers a message or calls
`close()` for one connection is `Cut`, `Miss` or a stutter (`CuttingStep`), and `removeClient`
and `Hub.Close` are `Leave` with one connection and with all (`LeavingStep`). A reader that comes
to `removeClient` after `Hub.Close` changes nothing, because its connection is cut off already.

`PresenceProofs`: `TypeCorrect` (`TypeOK`), `ListCorrect` (`ListIsTheRoom`), `TimesCorrect`
(`TimesAreMeasured`), `ToldCorrect` (`EverybodyIsTold`), for any users, connections, pings and
waits and any number of goroutines. Each needs more than it says. A list is right when the walk is over; what holds during the walk is `ListSoFar`, the
invariant of the loop: the users on the list are those of the connections met, and the ping of
each is the least that was met of him (`IsLeast`). It speaks of the pings as they were met, not
as they are, since they change meanwhile; the connections do not, and `NoWalk` says that whoever
changes the map does so between two walks. `MergeIsLeast` is the turn of the loop.
`ZeroIsNew` says that the 0 of a new `Client` is gone once its reader runs, which
`TimesAreMeasured` needs of the connections met. `NewsIsUnderWay` is `EverybodyIsTold` with
something still under way: somebody who has not been offered the present users will be, by a
goroutine that has yet to build its list, the one that is at it, or a list of just these users.

`RoomServerProofs`: `TypeCorrect`, `StatesCorrect` (`StatesAreCommitted`), `OwnWriteCorrect`
(`OwnWriteIsShown`), `LatestCorrect` (`RegisteredGetTheLatest`), `ListenersCorrect`
(`OnlyMembersListen`), `SeekCorrect` (`SeekWritesWhatItRead`), for any number of users and
concurrent requests and any capacity. The statements of `Rooms` are taken from `RoomsProofs` by
INSTANCE; `TablesMayUse` discharges what it assumes. `Base` says of every place a message can be
(the room `Handle` has read, queues, jobs, screens) that it comes from the log, that the log
ends with the row, and that a job's version is in it; every write is one `WriteBy`, which grows
the log by the new row and leaves the rest. `RegisteredGetTheLatest` speaks of a settled server
only; inductive is `LatestIsOnItsWay`: whoever was registered before the last write has been
queued it, or some job still carries it to him. A message queued later cannot take it away
since no message is newer than the row (`QueueKeepsNewest`). `OnlyMembersListen` needs
`CheckedAreAccounted` for connections between check and registration.

Three more theorems put the server on top of the tables. `RunsStatements`: whatever readers and
requests do at once, the tables take no step that is not one of `Rooms` (a seek writes a position
that was sought, which is what `JobAt` knows of it). `HostRoleCorrect`: hence `host_id` and the
role column agree, by the invariant of `RoomsProofs` started in the state `RoomServer` begins
with. `KeepsPromise`: and every step is one of `WatchRoom` or a stutter. The behaviours are not
those of `Rooms` from the beginning, because the room is there when `RoomServer` starts.

`AccountsProofs`: `TypeCorrect`, `OneRegistrationCorrect` (`AccountIsOneRegistration`),
`LastCorrect` (`LastRegistrationStands`), `AccountsStandCorrect` (`AccountsStand`).
Strengthenings: `OriginsAreMade` (an address without an account has no origin, so
that the INSERT is what gives it one) and `LinksLoad` (a Google sign-in only ever gets to link an account that
has an identity already, so that the link changes nothing: an account without one does not
load).

`TabProofs`: `TypeCorrect` (`TypeOK`), `StraysCorrect` (`StraysComeOfOverlap`), `AliveCorrect`
(`ShownRoomIsAlive`), `LeftCorrect` (`LeftKeepsOnlyStrays`), `KickedCorrect`
(`KickedSaysOneEach`), for any rooms, connections, history limit and bounds. What makes the first
three inductive is the count: `CountOK` bounds connections, suspended openings and timeouts
together by the overlaps, so that a new connection finds no more others than there were overlaps
(`NewConnection`), and without one none (`OneSocket`). `Strays` are the open connections that the
variable `socket` has forgotten: they are as many as the overlaps at most (`StraysCounted`), and
outside a room they are all there is, since the one not forgotten is closed with it
(`CurrentIsClosed`). `PanelTells` relates the panel to the two variables `onclose` and
`connectSocket` look at, without which a close event could reconnect a tab that has left; `RoomIsKept` names the thing that keeps the shown room
alive, where `ShownRoomIsAlive` only counts, because losing one opening of several must not be
confused with losing the last. `Still` groups the steps that move nothing of this (questions,
messages, the chat of the server), which keep the invariant by one lemma (`StillKeeps`); the
others have a lemma each, with `Connecting` for what `connectSocket` does and `LeavingStep` for
the ways out of a room. `SpokenOnce` adds that a connection whose line has passed the test has
not spoken since the kick of its user.

`ChatProofs`: `LinesCorrect` (`EachLineOnce`), on top of the invariant of `TabProofs`. The
property speaks of a tab with nothing under way; `LinesRight` follows a line of the room from its
INSERT on: it is with its sender, on its way to the tab (`Coming`), in a history that has been
answered (`Fetched`), or in the log, and in one of the four only; a line of another room is in
none. This holds of a tab whose openings have not overlapped, once the history has been read. Between
the question and the answer nothing is claimed; the answer makes it true, because what the
history holds was stored before and what is broadcast later finds the tab or is excused. The rest
makes it inductive: a line is in a feed at most once and no longer with its sender
(`FeedsOK`), no two senders hold one line (`JobsDistinct`), only stored lines are anywhere
(`OnlyStored`), there is one opening at a time unless they overlapped (`OneOpening`), what is
there is of the room shown (`RoomAgrees`), and the log is empty until the history goes in
(`BlankUntilOpen`). `Taking` and `Adding` are what receiving and broadcasting do to a feed, by which no
sequence is ever counted.

Only model-checked is liveness, which this prover cannot treat (`PumpsEnd`
and `BroadcastsEnd` of `Hub`, `GoneIsRemoved` of `Presence`). What such a property promises and a
step could break is proved: `RegisteredHasKeeper` says that no connection is in the map without a
handler before its pumps or a reader that has not called `removeClient`, and `OutIsCutOff` that
who is out of it is closed or about to be; whether the handler and the reader get there, which a
stuck handler does not, is left to TLC. The properties of
the runs in section 4 are false and not proved.

## 6. Not modelled, and what is left

Not modelled: the schema migration (it runs once, alone, before the server listens; the errors
of its later statements are dropped, `store.go:209-217`), configuration, mail and HTTP headers
(no state), type sniffing and range requests (I/O), access tokens (stateless),
`DeleteSessionsForUser` (called by nobody), the wait of `Shutdown` for requests, the player's
clock and the host's buttons in the tab, the lockout and rate limit (not defined in the
repository).

Left to do, in this order:

1. the player of the tab (drift, `applyingRemoteState`, a position left out of the message),
   composed with `RoomServer`;
2. several connections of one user in `Hub`, where `DisconnectMember` walks the map;
3. the migration of an older database, and the order of shutdown.
