-------------------------- MODULE RoomServerProofs --------------------------
(***************************************************************************)
(* Proofs about RoomServer, for any number of users, any capacity of the   *)
(* queues and any bounds: what the hub sends is what was committed, the    *)
(* last write is on its way to everybody who was there, whoever stays      *)
(* connected after a kick is accounted for, and the tables underneath do   *)
(* what Rooms and WatchRoom say.                                           *)
(***************************************************************************)
EXTENDS RoomServer, TLAPS

Tables == INSTANCE RoomsProofs

-----------------------------------------------------------------------------
(* The tables and the log. *)

LogGrows == \A v \in DOMAIN log : v \in DOMAIN log' /\ log'[v] = log[v]

\* The room is there, and the log ends with it.
TablesOK ==
  /\ DB!TypeOK
  /\ row \in DB!RoomRow
  /\ row.version \in 1..MaxVersion
  /\ DOMAIN log = 1..row.version
  /\ log[row.version] = DB!Shared(row)

\* What a write does.
Wrote ==
  /\ TablesOK'
  /\ row'.version = row.version + 1
  /\ LogGrows
  /\ \A u \in User : DB!IsMember(TheRoom, u) => DB!IsMember(TheRoom, u)'

LEMMA SameRows == Tables!RoomRow = DB!RoomRow
<1>1. Tables!MaxPosition = DB!MaxPosition
  BY DEF Tables!MaxPosition, DB!MaxPosition
<1>2. QED
  BY <1>1 DEF Tables!RoomRow, DB!RoomRow

LEMMA SameTypes == (Tables!TypeOK <=> DB!TypeOK) /\ (Tables!TypeOK' <=> DB!TypeOK')
  BY SameRows DEF Tables!TypeOK, DB!TypeOK, Tables!Role, DB!Role

\* What RoomsProofs assumes of its constants.
LEMMA TablesMayUse ==
  /\ Tables!SoughtAssumption /\ Tables!NoUserAssumption
  /\ Tables!MaxVersionAssumption /\ Tables!NoRowAssumption
<1>1. NoRow \notin Tables!RoomRow
  BY TablesAssumption, SameRows
<1>2. QED
  BY <1>1, TablesAssumption

\* A row with the next version, logged.
LEMMA LoggedRow ==
  ASSUME TablesOK, DB!TypeOK', row' \in DB!RoomRow, row'.version = row.version + 1,
         row.version < MaxVersion, Logged
  PROVE  TablesOK' /\ LogGrows
<1>1. row.version \in 1..MaxVersion /\ row'.version \in 1..MaxVersion
  BY TablesAssumption DEF TablesOK
<1>2. DOMAIN log' = 1..row'.version
  BY <1>1 DEF Logged, TablesOK
<1>3. log'[row'.version] = DB!Shared(row')
  BY DEF Logged
<1>4. LogGrows
  BY <1>1 DEF Logged, LogGrows, TablesOK
<1>5. QED
  BY <1>1, <1>2, <1>3, <1>4 DEF TablesOK, DB!Shared

LEMMA PlaybackWrote ==
  ASSUME TablesOK, NEW u \in User, NEW b \in BOOLEAN, NEW p \in Sought,
         DB!UpdatePlayback(TheRoom, u, b, p), Logged
  PROVE  Wrote /\ row'.playing = b
<1>1. Tables!TypeOK /\ Tables!UpdatePlayback(TheRoom, u, b, p)
  BY SameTypes DEF TablesOK, DB!UpdatePlayback, Tables!UpdatePlayback, DB!IsMember,
     Tables!IsMember, DB!MaxPosition, Tables!MaxPosition, DB!Bump, Tables!Bump
<1>2. DB!TypeOK'
  <2>1. Tables!Next
    BY <1>1, RoomAssumption DEF Tables!Next, Tables!RoomNext
  <2>2. QED
    BY <1>1, <2>1, SameTypes, TablesMayUse, Tables!NextTypeOK
<1>3. row' \in DB!RoomRow /\ row'.version = row.version + 1
  BY <1>1, RoomAssumption, SameRows, TablesMayUse, Tables!PlaybackWritten DEF row
<1>4. row'.playing = b
  BY RoomAssumption DEF row, DB!UpdatePlayback, DB!Bump, TablesOK, DB!TypeOK
<1>5. row.version < MaxVersion /\ role' = role
  BY DEF row, DB!UpdatePlayback
<1>6. QED
  BY <1>2, <1>3, <1>4, <1>5, LoggedRow DEF Wrote, DB!IsMember

LEMMA LockWrote ==
  ASSUME TablesOK, NEW u \in User, NEW b \in BOOLEAN,
         DB!SetRoomLocked(TheRoom, u, b), Logged
  PROVE  Wrote
<1>1. Tables!TypeOK /\ Tables!SetRoomLocked(TheRoom, u, b)
  BY SameTypes DEF TablesOK, DB!SetRoomLocked, Tables!SetRoomLocked, DB!IsHost, Tables!IsHost,
     DB!Bump, Tables!Bump
<1>2. DB!TypeOK'
  <2>1. Tables!Next
    BY <1>1, RoomAssumption DEF Tables!Next, Tables!RoomNext
  <2>2. QED
    BY <1>1, <2>1, SameTypes, TablesMayUse, Tables!NextTypeOK
<1>3. row' \in DB!RoomRow /\ row'.version = row.version + 1
  BY <1>1, RoomAssumption, SameRows, TablesMayUse, Tables!LockWritten DEF row
<1>4. row.version < MaxVersion /\ role' = role
  BY DEF row, DB!SetRoomLocked
<1>5. QED
  BY <1>2, <1>3, <1>4, LoggedRow DEF Wrote, DB!IsMember

LEMMA TransferWrote ==
  ASSUME TablesOK, NEW u \in User, NEW m \in User,
         DB!TransferHost(TheRoom, u, m), Logged
  PROVE  Wrote
<1>1. Tables!TypeOK /\ Tables!TransferHost(TheRoom, u, m)
  BY SameTypes DEF TablesOK, DB!TransferHost, Tables!TransferHost, DB!IsHost, Tables!IsHost,
     DB!IsMember, Tables!IsMember, DB!SetRole, Tables!SetRole, DB!Bump, Tables!Bump
<1>2. DB!TypeOK'
  <2>1. Tables!Next
    BY <1>1, RoomAssumption DEF Tables!Next, Tables!RoomNext
  <2>2. QED
    BY <1>1, <2>1, SameTypes, TablesMayUse, Tables!NextTypeOK
<1>3. row' \in DB!RoomRow /\ row'.version = row.version + 1
  BY <1>1, RoomAssumption, SameRows, TablesMayUse, Tables!HostWritten DEF row
<1>4. row.version < MaxVersion
  BY DEF row, DB!TransferHost
<1>5. \A w \in User : DB!IsMember(TheRoom, w) => DB!IsMember(TheRoom, w)'
  <2>1. role[TheRoom] \in [User -> DB!Role]
    BY RoomAssumption DEF TablesOK, DB!TypeOK
  <2>2. role'[TheRoom] = DB!SetRole(DB!SetRole(role[TheRoom], u, "member"), m, "host")
    BY RoomAssumption DEF DB!TransferHost, TablesOK, DB!TypeOK
  <2>3. QED
    BY <2>1, <2>2 DEF DB!SetRole, DB!IsMember
<1>6. QED
  BY <1>2, <1>3, <1>4, <1>5, LoggedRow DEF Wrote

\* A kick and a join leave the row alone.
LEMMA KickTables ==
  ASSUME TablesOK, NEW u \in User, NEW m \in User, DB!KickMember(TheRoom, u, m), UNCHANGED log
  PROVE  /\ TablesOK' /\ row' = row
         /\ \A w \in User : w # m /\ DB!IsMember(TheRoom, w) => DB!IsMember(TheRoom, w)'
<1>1. DB!TypeOK'
  BY DEF TablesOK, DB!TypeOK, DB!KickMember, DB!Role
<1>2. row' = row
  BY DEF DB!KickMember, row
<1>3. \A w \in User : w # m => role'[TheRoom][w] = role[TheRoom][w]
  BY RoomAssumption DEF DB!KickMember, TablesOK, DB!TypeOK
<1>4. QED
  BY <1>1, <1>2, <1>3 DEF TablesOK, DB!IsMember, DB!Shared

LEMMA JoinTables ==
  ASSUME TablesOK, NEW u \in User, DB!JoinRoom(TheRoom, u), UNCHANGED log
  PROVE  /\ TablesOK' /\ row' = row
         /\ \A w \in User : w = u \/ DB!IsMember(TheRoom, w) => DB!IsMember(TheRoom, w)'
<1>1. DB!TypeOK'
  BY DEF TablesOK, DB!TypeOK, DB!JoinRoom, DB!Role
<1>2. row' = row
  BY DEF DB!JoinRoom, row
<1>3. \A w \in User : w = u \/ DB!IsMember(TheRoom, w) => DB!IsMember(TheRoom, w)'
  BY RoomAssumption DEF DB!JoinRoom, DB!IsMember, TablesOK, DB!TypeOK
<1>4. QED
  BY <1>1, <1>2, <1>3 DEF TablesOK, DB!Shared

-----------------------------------------------------------------------------
(* Connections and jobs. *)

\* The messages a log stands for.
MessagesOf(lg) == {[version |-> v, state |-> lg[v]] : v \in DOMAIN lg}

GoodHandle(h, lg) ==
  \/ h.at \in {"away", "open"} /\ h.room = NoMessage
  \/ h.at \in {"checked", "added"} /\ h.room \in MessagesOf(lg)

GoodQueue(q, lg) == q \in Seq(MessagesOf(lg)) /\ Len(q) <= Cap

\* What a reader or a request may be about to do: a seek carries the playing flag of the
\* version it read, a message is never older than the write it is about.
GoodJob(g, j, lg, hb) ==
  \/ j = Idle
  \/ /\ j.at = "seek" /\ g[2] = "reader"
     /\ j.playing \in BOOLEAN /\ j.position \in Sought
     /\ j.read \in DOMAIN lg /\ lg[j.read].playing = j.playing
  \/ j.at = "reread" /\ j.as \in User /\ j.wrote \in DOMAIN lg
  \/ /\ j.at = "read" /\ j.message \in MessagesOf(lg)
     /\ j.wrote \in DOMAIN lg /\ j.message.version >= j.wrote
  \/ j.at = "cast" /\ j.message \in MessagesOf(lg) /\ j.todo \subseteq hb
  \/ j.at = "disconnect" /\ j.member \in User /\ g[2] = "http"

HandlesOK ==
  /\ DOMAIN handle = User
  /\ \A u \in User : GoodHandle(handle[u], log)
  /\ hub = {u \in User : handle[u].at \in {"added", "open"}}
  /\ cut \subseteq hub
  /\ since \in [User -> {0} \cup DOMAIN log]

QueuesOK ==
  /\ DOMAIN queue = User /\ DOMAIN view = User
  /\ \A u \in User : GoodQueue(queue[u], log) /\ view[u] \in MessagesOf(log) \cup {NoMessage}
  /\ newest \in [User -> {0} \cup DOMAIN log]

JobsOK == DOMAIN job = Job /\ \A g \in Job : GoodJob(g, job[g], log, hub)

HistoryOK == failed \subseteq DOMAIN log /\ passed \subseteq User

Base == TablesOK /\ HandlesOK /\ QueuesOK /\ JobsOK /\ HistoryOK

LEMMA MessagesAre == Messages = MessagesOf(log)
  BY DEF Messages, MessagesOf

\* What is good with a log is good with a longer one.
LEMMA Grown ==
  ASSUME NEW lg, NEW lg2, \A v \in DOMAIN lg : v \in DOMAIN lg2 /\ lg2[v] = lg[v]
  PROVE  /\ DOMAIN lg \subseteq DOMAIN lg2
         /\ MessagesOf(lg) \subseteq MessagesOf(lg2)
         /\ \A h : GoodHandle(h, lg) => GoodHandle(h, lg2)
         /\ \A q : GoodQueue(q, lg) => GoodQueue(q, lg2)
         /\ \A g, j, hb, hb2 : GoodJob(g, j, lg, hb) /\ (hb \subseteq hb2 \/ j.at # "cast")
              => GoodJob(g, j, lg2, hb2)
<1>1. MessagesOf(lg) \subseteq MessagesOf(lg2)
  BY DEF MessagesOf
<1>2. DOMAIN lg \subseteq DOMAIN lg2
  OBVIOUS
<1>3. ASSUME NEW h, GoodHandle(h, lg)
      PROVE  GoodHandle(h, lg2)
  BY <1>1, <1>3 DEF GoodHandle
<1>4. ASSUME NEW q, GoodQueue(q, lg)
      PROVE  GoodQueue(q, lg2)
  <2>1. Seq(MessagesOf(lg)) \subseteq Seq(MessagesOf(lg2))
    BY <1>1
  <2>2. QED
    BY <1>4, <2>1 DEF GoodQueue
<1>5. ASSUME NEW g, NEW j, NEW hb, NEW hb2, GoodJob(g, j, lg, hb),
             hb \subseteq hb2 \/ j.at # "cast"
      PROVE  GoodJob(g, j, lg2, hb2)
  BY <1>1, <1>2, <1>5 DEF GoodJob
<1>6. QED
  BY <1>1, <1>2, <1>3, <1>4, <1>5

LEMMA RowIsLogged ==
  ASSUME TablesOK
  PROVE  /\ Message(row) \in MessagesOf(log) /\ Message(row).version = row.version
         /\ row.version \in DOMAIN log /\ row.version \in Nat
         /\ \A m \in MessagesOf(log) : m.version \in DOMAIN log
         /\ \A v \in DOMAIN log : v \in Nat /\ 0 < v /\ v <= row.version /\ v <= MaxVersion
  BY TablesAssumption DEF TablesOK, Message, MessagesOf

LEMMA JobsAfter ==
  ASSUME JobsOK, NEW g \in Job, NEW j, Do(g, j), LogGrows, hub \subseteq hub',
         GoodJob(g, j, log', hub')
  PROVE  JobsOK'
<1>1. \A x \in Job : GoodJob(x, job[x], log', hub')
  BY Grown DEF JobsOK, LogGrows
<1>2. job' = [job EXCEPT ![g] = j]
  BY DEF Do
<1>3. QED
  BY <1>1, <1>2 DEF JobsOK

LEMMA JobsStay ==
  ASSUME JobsOK, UNCHANGED job, LogGrows, hub \subseteq hub' \/ NoReaders
  PROVE  JobsOK'
<1>1. \A x \in Job : GoodJob(x, job[x], log', hub')
  BY Grown DEF JobsOK, LogGrows, NoReaders, Casting
<1>2. QED
  BY <1>1 DEF JobsOK

\* What a job is good for, by the place it is at.
LEMMA JobAt ==
  ASSUME JobsOK, NEW g \in Job
  PROVE  /\ job[g].at = "seek" =>
              /\ job[g].playing \in BOOLEAN /\ job[g].position \in Sought
              /\ job[g].read \in DOMAIN log /\ log[job[g].read].playing = job[g].playing
         /\ job[g].at = "reread" => job[g].as \in User /\ job[g].wrote \in DOMAIN log
         /\ job[g].at = "read" =>
              /\ job[g].message \in MessagesOf(log) /\ job[g].wrote \in DOMAIN log
              /\ job[g].message.version >= job[g].wrote
         /\ job[g].at = "cast" => job[g].message \in MessagesOf(log) /\ job[g].todo \subseteq hub
         /\ job[g].at = "disconnect" => job[g].member \in User
<1>1. GoodJob(g, job[g], log, hub)
  BY DEF JobsOK
<1>2. job[g] = Idle => job[g].at = "idle"
  BY DEF Idle
<1>3. QED
  BY <1>1, <1>2 DEF GoodJob

\* A table statement, or none, leaves what is said about connections and queues.
LEMMA RestStays ==
  ASSUME HandlesOK, QueuesOK, HistoryOK, LogGrows
  PROVE  /\ UNCHANGED connections => HandlesOK'
         /\ UNCHANGED delivery => QueuesOK'
         /\ failed' = failed /\ passed' \subseteq User => HistoryOK'
<1>1. /\ DOMAIN log \subseteq DOMAIN log' /\ MessagesOf(log) \subseteq MessagesOf(log')
      /\ \A h : GoodHandle(h, log) => GoodHandle(h, log')
      /\ \A q : GoodQueue(q, log) => GoodQueue(q, log')
  BY Grown DEF LogGrows
<1>2. ASSUME UNCHANGED connections
      PROVE  HandlesOK'
  BY <1>1, <1>2 DEF HandlesOK, connections
<1>3. ASSUME UNCHANGED delivery
      PROVE  QueuesOK'
  BY <1>1, <1>3 DEF QueuesOK, delivery
<1>4. QED
  BY <1>1, <1>2, <1>3 DEF HistoryOK

LEMMA TablesStay ==
  ASSUME TablesOK, UNCHANGED <<tables, log>>
  PROVE  /\ TablesOK' /\ LogGrows /\ row' = row
         /\ \A u \in User : DB!IsMember(TheRoom, u)' = DB!IsMember(TheRoom, u)
<1>1. row' = row
  BY DEF row, tables
<1>2. DB!TypeOK'
  BY DEF TablesOK, DB!TypeOK, tables
<1>3. QED
  BY <1>1, <1>2 DEF TablesOK, LogGrows, DB!IsMember, DB!Shared, tables

-----------------------------------------------------------------------------
(* The actions and the base of the invariant. *)

LEMMA InitBase == Init => Base
<1> SUFFICES ASSUME Init
             PROVE  Base
  OBVIOUS
<1> DEFINE first == [host |-> Owner, video |-> TheVideo, locked |-> FALSE, invite |-> "live",
                     playing |-> FALSE, position |-> 0, version |-> 1]
<1>1. row = first
  BY RoomAssumption DEF Init, row
<1>2. first \in DB!RoomRow
  BY UserAssumption, RoomAssumption DEF DB!RoomRow, DB!MaxPosition
<1>3. DB!TypeOK
  <2>1. owner \in [Video -> User \cup {NoUser}]
    BY UserAssumption DEF Init
  <2>2. rooms \in [Room -> DB!RoomRow \cup {NoRow}]
    BY <1>2 DEF Init
  <2>3. role \in [Room -> [User -> DB!Role]]
    BY DEF Init, DB!Role
  <2>4. QED
    BY <2>1, <2>2, <2>3 DEF DB!TypeOK
<1>4. TablesOK
  BY <1>1, <1>2, <1>3, TablesAssumption DEF TablesOK, Init
<1>5. HandlesOK
  BY DEF Init, HandlesOK, GoodHandle
<1>6. QueuesOK
  BY CapAssumption DEF Init, QueuesOK, GoodQueue
<1>7. JobsOK /\ HistoryOK
  BY DEF Init, JobsOK, GoodJob, HistoryOK
<1>8. QED
  BY <1>4, <1>5, <1>6, <1>7 DEF Base

\* Steps of a connection: the tables are left alone, and so are the jobs.
LEMMA CheckMembershipBase ==
  ASSUME Base, NEW u \in User, CheckMembership(u)
  PROVE  Base'
<1> USE DEF Base, CheckMembership
<1>1. TablesOK' /\ LogGrows
  BY TablesStay DEF history
<1>2. JobsOK' /\ HistoryOK'
  BY <1>1, JobsStay, RestStays DEF history, HistoryOK
<1>3. QueuesOK'
  BY <1>1, RestStays
<1>4. GoodHandle([at |-> "checked", room |-> Message(row)], log)
  BY RowIsLogged DEF GoodHandle
<1>5. HandlesOK'
  BY <1>4 DEF HandlesOK, history
<1>6. QED
  BY <1>1, <1>2, <1>3, <1>5

LEMMA RefuseUpgradeBase ==
  ASSUME Base, NEW u \in User, RefuseUpgrade(u)
  PROVE  Base'
<1> USE DEF Base, RefuseUpgrade
<1>1. TablesOK' /\ LogGrows
  BY TablesStay
<1>2. JobsOK' /\ HistoryOK'
  BY <1>1, JobsStay, RestStays DEF HistoryOK
<1>3. QueuesOK'
  BY <1>1, RestStays
<1>4. GoodHandle([at |-> "away", room |-> NoMessage], log)
  BY DEF GoodHandle
<1>5. HandlesOK'
  BY <1>4 DEF HandlesOK
<1>6. QED
  BY <1>1, <1>2, <1>3, <1>5

LEMMA AddClientBase ==
  ASSUME Base, NEW u \in User, AddClient(u)
  PROVE  Base'
<1> USE DEF Base, AddClient
<1>1. TablesOK' /\ LogGrows
  BY TablesStay DEF history
<1>2. JobsOK' /\ HistoryOK'
  BY <1>1, JobsStay, RestStays DEF history, HistoryOK
<1>3. QueuesOK'
  BY <1>1, RestStays
<1>4. [handle[u] EXCEPT !.at = "added"].at = "added"
      /\ [handle[u] EXCEPT !.at = "added"].room = handle[u].room
  OBVIOUS
<1>5. GoodHandle([handle[u] EXCEPT !.at = "added"], log)
  BY <1>4 DEF GoodHandle, HandlesOK
<1>6. since' \in [User -> {0} \cup DOMAIN log]
  BY RowIsLogged DEF HandlesOK
<1>7. HandlesOK'
  BY <1>4, <1>5, <1>6 DEF HandlesOK, history
<1>8. QED
  BY <1>1, <1>2, <1>3, <1>7

\* A message that fits goes into a queue.
LEMMA Queued ==
  ASSUME TablesOK, QueuesOK, NEW u \in User, NEW m \in MessagesOf(log), Len(queue[u]) < Cap,
         Queue(u, m), UNCHANGED <<view, log>>
  PROVE  QueuesOK'
<1>1. queue[u] \in Seq(MessagesOf(log))
  BY DEF QueuesOK, GoodQueue
<1>2. GoodQueue(Append(queue[u], m), log)
  BY <1>1, CapAssumption DEF GoodQueue
<1>3. queue' = [queue EXCEPT ![u] = Append(queue[u], m)]
  BY DEF Queue
<1>4. m.version \in DOMAIN log
  BY RowIsLogged
<1>5. newest' \in [User -> {0} \cup DOMAIN log]
  BY <1>4 DEF Queue, QueuesOK
<1>6. QED
  BY <1>2, <1>3, <1>5 DEF QueuesOK

LEMMA SendInitialBase ==
  ASSUME Base, NEW u \in User, SendInitial(u)
  PROVE  Base'
<1> USE DEF Base, SendInitial
<1>1. TablesOK' /\ LogGrows
  BY TablesStay DEF history
<1>2. JobsOK' /\ HistoryOK'
  BY <1>1, JobsStay, RestStays DEF history, HistoryOK
<1>3. handle[u].room \in MessagesOf(log)
  BY DEF HandlesOK, GoodHandle
<1>4. QueuesOK'
  BY <1>3, Queued DEF history
<1>5. GoodHandle([at |-> "open", room |-> NoMessage], log)
  BY DEF GoodHandle
<1>6. HandlesOK'
  BY <1>5 DEF HandlesOK, history
<1>7. QED
  BY <1>1, <1>2, <1>4, <1>6

LEMMA DeliverBase ==
  ASSUME Base, NEW u \in User, Deliver(u)
  PROVE  Base'
<1> USE DEF Base, Deliver
<1>1. TablesOK' /\ LogGrows
  BY TablesStay DEF history
<1>2. JobsOK' /\ HistoryOK'
  BY <1>1, JobsStay, RestStays DEF history, HistoryOK, connections
<1>3. HandlesOK'
  BY <1>1, RestStays
<1>4. queue[u] \in Seq(MessagesOf(log)) /\ queue[u] # <<>> /\ Len(queue[u]) <= Cap
  BY DEF QueuesOK, GoodQueue
<1>5. Head(queue[u]) \in MessagesOf(log) /\ GoodQueue(Tail(queue[u]), log)
  BY <1>4, CapAssumption DEF GoodQueue
<1>6. queue' = [queue EXCEPT ![u] = Tail(queue[u])]
  OBVIOUS
<1>7. QueuesOK'
  BY <1>5, <1>6 DEF QueuesOK, history
<1>8. QED
  BY <1>1, <1>2, <1>3, <1>7

LEMMA RemoveClientBase ==
  ASSUME Base, NEW u \in User, RemoveClient(u)
  PROVE  Base'
<1> USE DEF Base, RemoveClient
<1>1. TablesOK' /\ LogGrows
  BY TablesStay
<1>2. JobsOK' /\ HistoryOK'
  BY <1>1, JobsStay, RestStays DEF HistoryOK
<1>3. GoodQueue(<<>>, log)
  BY CapAssumption DEF GoodQueue
<1>4. QueuesOK'
  BY <1>3 DEF QueuesOK
<1>5. [handle[u] EXCEPT !.at = "away"].at = "away"
      /\ [handle[u] EXCEPT !.at = "away"].room = handle[u].room
  OBVIOUS
<1>6. GoodHandle([handle[u] EXCEPT !.at = "away"], log)
  BY <1>5 DEF GoodHandle, HandlesOK
<1>7. HandlesOK'
  BY <1>5, <1>6 DEF HandlesOK
<1>8. QED
  BY <1>1, <1>2, <1>4, <1>7

LEMMA JobNames == \A u \in User : Reader(u) \in Job /\ Http(u) \in Job /\ Reader(u) # Http(u)
                                 /\ Reader(u)[2] = "reader" /\ Http(u)[2] = "http"
  BY DEF Reader, Http, Job

\* A committed write, after which the room is to be read again.
WriteBy(g) ==
  /\ job[g] = Idle \/ job[g].at = "seek"
  /\ Wrote
  /\ \E a \in User : Do(g, Reread(a, row'.version))
  /\ UNCHANGED <<connections, delivery, failed, passed>>

LEMMA WriteBase ==
  ASSUME Base, NEW g \in Job, WriteBy(g)
  PROVE  Base'
<1> USE DEF Base, WriteBy
<1>1. TablesOK' /\ LogGrows
  BY DEF Wrote
<1>2. HandlesOK' /\ QueuesOK' /\ HistoryOK'
  BY <1>1, RestStays DEF HistoryOK
<1>3. PICK a \in User : Do(g, Reread(a, row'.version))
  OBVIOUS
<1>4. row'.version \in DOMAIN log'
  BY <1>1, TablesAssumption DEF TablesOK
<1>5. GoodJob(g, Reread(a, row'.version), log', hub')
  BY <1>4 DEF GoodJob, Reread
<1>6. JobsOK'
  BY <1>1, <1>3, <1>5, JobsAfter DEF connections
<1>7. QED
  BY <1>1, <1>2, <1>6

\* A job moves on, and nothing else changes but the history.
LEMMA JobStepBase ==
  ASSUME Base, NEW g \in Job, NEW j, Do(g, j), GoodJob(g, j, log, hub),
         UNCHANGED <<tables, connections, delivery, log, passed>>, failed' \subseteq DOMAIN log
  PROVE  Base'
<1> USE DEF Base
<1>1. TablesOK' /\ LogGrows
  BY TablesStay
<1>2. HandlesOK' /\ QueuesOK' /\ HistoryOK'
  BY <1>1, RestStays DEF HistoryOK
<1>3. JobsOK'
  BY <1>1, JobsAfter DEF connections
<1>4. QED
  BY <1>1, <1>2, <1>3

LEMMA GoodIdle == \A g, lg, hb : GoodJob(g, Idle, lg, hb)
  BY DEF GoodJob

LEMMA UpdateStep ==
  ASSUME Base, NEW u \in User, NEW b \in BOOLEAN, NEW p \in Sought, Update(u, b, p),
         job[Reader(u)] = Idle \/ job[Reader(u)].at = "seek"
  PROVE  /\ Base'
         /\ \/ WriteBy(Reader(u)) /\ row'.playing = b
            \/ /\ Do(Reader(u), Idle)
               /\ UNCHANGED <<tables, connections, delivery, history>>
<1>1. CASE /\ DB!UpdatePlayback(TheRoom, u, b, p)
           /\ Logged
           /\ Do(Reader(u), Reread(u, row'.version))
           /\ UNCHANGED <<connections, delivery, failed, passed>>
  <2>1. Wrote /\ row'.playing = b
    BY <1>1, PlaybackWrote DEF Base
  <2>2. WriteBy(Reader(u))
    BY <1>1, <2>1 DEF WriteBy
  <2>3. QED
    BY <2>1, <2>2, WriteBase, JobNames
<1>2. CASE Do(Reader(u), Idle) /\ UNCHANGED <<tables, connections, delivery, history>>
  <2>1. Base'
    BY <1>2, JobStepBase, JobNames, GoodIdle DEF history, Base, HistoryOK
  <2>2. QED
    BY <1>2, <2>1
<1>3. QED
  BY <1>1, <1>2 DEF Update

LEMMA SeekReadBase ==
  ASSUME Base, NEW u \in User, NEW p \in Sought, SeekRead(u, p)
  PROVE  Base'
<1> DEFINE j == [at |-> "seek", playing |-> row.playing, position |-> p, read |-> row.version]
<1>1. row.playing \in BOOLEAN
  BY DEF Base, TablesOK, DB!RoomRow
<1>2. log[row.version].playing = row.playing
  BY DEF Base, TablesOK, DB!Shared
<1>3. row.version \in DOMAIN log
  BY RowIsLogged DEF Base
<1>4. GoodJob(Reader(u), j, log, hub)
  BY <1>1, <1>2, <1>3, JobNames DEF GoodJob
<1>5. QED
  BY <1>4, JobStepBase, JobNames DEF SeekRead, history, Base, HistoryOK

LEMMA SeekWriteStep ==
  ASSUME Base, NEW u \in User, SeekWrite(u)
  PROVE  /\ Base'
         /\ \/ WriteBy(Reader(u)) /\ row'.playing = job[Reader(u)].playing
            \/ /\ Do(Reader(u), Idle)
               /\ UNCHANGED <<tables, connections, delivery, history>>
<1>1. job[Reader(u)].playing \in BOOLEAN /\ job[Reader(u)].position \in Sought
  BY JobAt, JobNames DEF SeekWrite, Base
<1>2. Update(u, job[Reader(u)].playing, job[Reader(u)].position)
  BY DEF SeekWrite
<1>3. QED
  BY <1>1, <1>2, UpdateStep DEF SeekWrite

LEMMA LockWrites ==
  ASSUME Base, NEW u \in User, NEW b \in BOOLEAN, Lock(u, b)
  PROVE  WriteBy(Http(u))
<1>1. Wrote
  BY LockWrote DEF Base, Lock
<1>2. QED
  BY <1>1 DEF Lock, WriteBy, Free

LEMMA TransferWrites ==
  ASSUME Base, NEW u \in User, NEW m \in User, Transfer(u, m)
  PROVE  WriteBy(Http(u))
<1>1. Wrote
  BY TransferWrote DEF Base, Transfer
<1>2. QED
  BY <1>1 DEF Transfer, WriteBy, Free

LEMMA KickBase ==
  ASSUME Base, NEW u \in User, NEW m \in User, Kick(u, m)
  PROVE  Base'
<1> USE DEF Base, Kick
<1>1. TablesOK' /\ LogGrows
  BY KickTables DEF LogGrows
<1>2. HandlesOK' /\ QueuesOK' /\ HistoryOK'
  BY <1>1, RestStays DEF HistoryOK
<1>3. GoodJob(Http(u), [at |-> "disconnect", member |-> m], log', hub')
  BY JobNames DEF GoodJob
<1>4. JobsOK'
  BY <1>1, <1>3, JobsAfter, JobNames DEF connections
<1>5. QED
  BY <1>1, <1>2, <1>4

LEMMA JoinBase ==
  ASSUME Base, NEW u \in User, Join(u)
  PROVE  Base'
<1> USE DEF Base, Join
<1>1. TablesOK' /\ LogGrows
  BY JoinTables DEF LogGrows
<1>2. HandlesOK' /\ QueuesOK' /\ HistoryOK'
  BY <1>1, RestStays DEF HistoryOK
<1>3. JobsOK'
  BY <1>1, JobsStay DEF connections
<1>4. QED
  BY <1>1, <1>2, <1>3

LEMMA DisconnectBase ==
  ASSUME Base, NEW u \in User, Disconnect(u)
  PROVE  Base'
<1> USE DEF Base, Disconnect
<1>1. TablesOK' /\ LogGrows
  BY TablesStay DEF history
<1>2. QueuesOK' /\ HistoryOK'
  BY <1>1, RestStays DEF history, HistoryOK
<1>3. HandlesOK'
  BY DEF HandlesOK, history
<1>4. JobsOK'
  BY <1>1, JobsAfter, JobNames, GoodIdle
<1>5. QED
  BY <1>1, <1>2, <1>3, <1>4

LEMMA RereadRoomBase ==
  ASSUME Base, NEW g \in Job, RereadRoom(g)
  PROVE  Base'
<1>1. job[g].at = "reread" /\ job[g].wrote \in DOMAIN log
  BY JobAt DEF Base, RereadRoom
<1>2. /\ Message(row) \in MessagesOf(log) /\ Message(row).version = row.version
      /\ \A v \in DOMAIN log : v <= row.version
  BY RowIsLogged DEF Base
<1>3. GoodJob(g, [at |-> "read", message |-> Message(row), wrote |-> job[g].wrote], log, hub)
  BY <1>1, <1>2 DEF GoodJob
<1>4. failed \subseteq DOMAIN log
  BY DEF Base, HistoryOK
<1>5. QED
  BY <1>1, <1>3, <1>4, GoodIdle, JobStepBase DEF RereadRoom

LEMMA GoodRest ==
  ASSUME NEW g, NEW lg, NEW hb, NEW m \in MessagesOf(lg), NEW todo \in SUBSET hb
  PROVE  GoodJob(g, Rest(m, todo), lg, hb)
  BY DEF GoodJob, Rest

LEMMA BroadcastStartBase ==
  ASSUME Base, NEW g \in Job, BroadcastStart(g)
  PROVE  Base'
<1>1. job[g].message \in MessagesOf(log)
  BY JobAt DEF Base, BroadcastStart
<1>2. GoodJob(g, Rest(job[g].message, hub), log, hub)
  BY <1>1, GoodRest
<1>3. QED
  BY <1>2, JobStepBase DEF BroadcastStart, history, Base, HistoryOK

LEMMA BroadcastToBase ==
  ASSUME Base, NEW g \in Job, NEW u \in User, BroadcastTo(g, u)
  PROVE  Base'
<1> USE DEF Base, BroadcastTo
<1>1. TablesOK' /\ LogGrows
  BY TablesStay DEF history
<1>2. job[g].message \in MessagesOf(log) /\ job[g].todo \subseteq hub
  BY JobAt DEF Casting
<1>3. JobsOK'
  <2>1. GoodJob(g, Rest(job[g].message, job[g].todo \ {u}), log, hub)
    BY <1>2, GoodRest
  <2>2. QED
    BY <1>1, <2>1, JobsAfter DEF history
<1>4. HistoryOK'
  BY <1>1 DEF HistoryOK, history
<1>5. QueuesOK'
  <2>1. CASE Len(queue[u]) < Cap
    BY <1>2, <2>1, Queued DEF history
  <2>2. CASE ~(Len(queue[u]) < Cap)
    BY <2>2 DEF QueuesOK, history
  <2>3. QED
    BY <2>1, <2>2
<1>6. cut' \subseteq hub
  BY <1>2 DEF HandlesOK
<1>7. HandlesOK'
  BY <1>6 DEF HandlesOK, history
<1>8. QED
  BY <1>1, <1>3, <1>4, <1>5, <1>7

LEMMA NextBase ==
  ASSUME Base, Next
  PROVE  Base'
<1>1. ASSUME NEW u \in User, NEW b \in BOOLEAN, NEW p \in Sought, PlayOrPause(u, b, p)
      PROVE  Base'
  BY <1>1, UpdateStep DEF PlayOrPause, CanRead, Free
<1>2. ASSUME NEW u \in User, \/ \E b \in BOOLEAN : Lock(u, b)
                             \/ \E m \in User : Transfer(u, m)
      PROVE  Base'
  BY <1>2, LockWrites, TransferWrites, WriteBase, JobNames
<1>3. QED
  BY <1>1, <1>2, CheckMembershipBase, RefuseUpgradeBase, AddClientBase, SendInitialBase,
     DeliverBase, RemoveClientBase, SeekReadBase, SeekWriteStep, KickBase, JoinBase,
     DisconnectBase, RereadRoomBase, BroadcastStartBase, BroadcastToBase DEF Next

-----------------------------------------------------------------------------
(* Who listens. *)

\* Between the membership check and addClient a user is a member, or noted as kicked.
CheckedAreAccounted ==
  \A u \in User : handle[u].at = "checked" => DB!IsMember(TheRoom, u) \/ u \in passed

ListenersOK == OnlyMembersListen /\ CheckedAreAccounted

\* Steps that take nobody out of the members or of passed, register nobody, and are not
\* DisconnectMember.
LEMMA ListenersKept ==
  ASSUME ListenersOK, hub \subseteq User, hub' \ cut' \subseteq hub \ cut,
         passed \subseteq passed',
         \A u \in User : DB!IsMember(TheRoom, u) => DB!IsMember(TheRoom, u)',
         \A u \in User : handle'[u].at = "checked" =>
           handle[u].at = "checked" \/ DB!IsMember(TheRoom, u)',
         \A w \in User : job[Http(w)].at = "disconnect" => job'[Http(w)] = job[Http(w)]
  PROVE  ListenersOK'
<1>1. OnlyMembersListen'
  <2> SUFFICES ASSUME NEW u \in hub' \ cut'
               PROVE  \/ DB!IsMember(TheRoom, u)'
                      \/ \E w \in User : /\ job'[Http(w)].at = "disconnect"
                                       /\ job'[Http(w)].member = u
                      \/ u \in passed'
    BY DEF OnlyMembersListen, Http
  <2>1. \/ DB!IsMember(TheRoom, u)
        \/ \E w \in User : job[Http(w)].at = "disconnect" /\ job[Http(w)].member = u
        \/ u \in passed
    BY DEF ListenersOK, OnlyMembersListen
  <2>2. QED
    BY <2>1
<1>2. CheckedAreAccounted'
  BY DEF ListenersOK, CheckedAreAccounted
<1>3. QED
  BY <1>1, <1>2 DEF ListenersOK

\* A job that is not at DisconnectMember moves on.
LEMMA OthersDisconnect ==
  ASSUME JobsOK, NEW g \in Job, NEW j, Do(g, j), job[g].at # "disconnect"
  PROVE  \A w \in User : job[Http(w)].at = "disconnect" => job'[Http(w)] = job[Http(w)]
  BY JobNames DEF JobsOK, Do

LEMMA NextListeners ==
  ASSUME Base, ListenersOK, Next
  PROVE  ListenersOK'
<1> USE DEF Base
<1>0. /\ hub \subseteq User /\ Idle.at = "idle"
      /\ \A u \in hub : handle[u].at \in {"added", "open"}
  BY DEF HandlesOK, Idle
<1>1. ASSUME NEW g \in Job, WriteBy(g)
      PROVE  ListenersOK'
  <2>1. \A w \in User : job[Http(w)].at = "disconnect" => job'[Http(w)] = job[Http(w)]
    BY <1>0, <1>1, OthersDisconnect DEF WriteBy
  <2>2. QED
    BY <1>0, <1>1, <2>1, ListenersKept DEF WriteBy, Wrote, connections
<1>2. ASSUME NEW g \in Job, NEW j, Do(g, j), job[g].at # "disconnect",
             UNCHANGED <<tables, handle, hub, passed, log>>, cut \subseteq cut'
      PROVE  ListenersOK'
  <2>1. \A w \in User : job[Http(w)].at = "disconnect" => job'[Http(w)] = job[Http(w)]
    BY <1>2, OthersDisconnect
  <2>2. QED
    BY <1>0, <1>2, <2>1, ListenersKept, TablesStay
<1>3. ASSUME NEW u \in User, CheckMembership(u) \/ SendInitial(u) \/ Deliver(u)
      PROVE  ListenersOK'
  <2>1. UNCHANGED <<tables, hub, cut, passed, job, log>>
    BY <1>3 DEF CheckMembership, SendInitial, Deliver, history, connections
  <2>2. \A w \in User : DB!IsMember(TheRoom, w)' = DB!IsMember(TheRoom, w)
    BY <2>1, TablesStay
  <2>3. \A w \in User : handle'[w].at = "checked" =>
          handle[w].at = "checked" \/ DB!IsMember(TheRoom, w)'
    BY <1>3, <2>2 DEF CheckMembership, SendInitial, Deliver, connections, HandlesOK
  <2>4. QED
    BY <1>0, <2>1, <2>2, <2>3, ListenersKept
<1>4. ASSUME NEW u \in User, RefuseUpgrade(u)
      PROVE  ListenersOK'
  <2>1. UNCHANGED <<tables, hub, cut, job, log>> /\ passed' = passed \ {u} /\ u \notin hub
    BY <1>0, <1>4 DEF RefuseUpgrade
  <2>2. \A w \in User : DB!IsMember(TheRoom, w)' = DB!IsMember(TheRoom, w)
    BY <2>1, TablesStay
  <2>3. \A w \in User : handle'[w].at = "checked" => handle[w].at = "checked" /\ w # u
    BY <1>4 DEF RefuseUpgrade, HandlesOK
  <2>4. QED
    BY <1>0, <2>1, <2>2, <2>3 DEF ListenersOK, OnlyMembersListen, CheckedAreAccounted, Http
<1>5. ASSUME NEW u \in User, AddClient(u)
      PROVE  ListenersOK'
  <2>1. UNCHANGED <<tables, cut, job, passed, log>> /\ hub' = hub \cup {u}
    BY <1>5 DEF AddClient, history
  <2>2. \A w \in User : DB!IsMember(TheRoom, w)' = DB!IsMember(TheRoom, w)
    BY <2>1, TablesStay
  <2>3. \A w \in User : handle'[w].at = "checked" => handle[w].at = "checked"
    BY <1>5 DEF AddClient, HandlesOK
  <2>4. DB!IsMember(TheRoom, u) \/ u \in passed
    BY <1>5 DEF AddClient, ListenersOK, CheckedAreAccounted
  <2>5. QED
    BY <1>0, <2>1, <2>2, <2>3, <2>4 DEF ListenersOK, OnlyMembersListen, CheckedAreAccounted, Http
<1>6. ASSUME NEW u \in User, RemoveClient(u)
      PROVE  ListenersOK'
  <2>1. /\ UNCHANGED <<tables, job, log>> /\ passed' = passed \ {u}
        /\ hub' = hub \ {u} /\ cut' = cut \ {u}
    BY <1>6 DEF RemoveClient
  <2>2. \A w \in User : DB!IsMember(TheRoom, w)' = DB!IsMember(TheRoom, w)
    BY <2>1, TablesStay
  <2>3. \A w \in User : handle'[w].at = "checked" => handle[w].at = "checked" /\ w # u
    BY <1>6 DEF RemoveClient, HandlesOK
  <2>4. QED
    BY <1>0, <2>1, <2>2, <2>3 DEF ListenersOK, OnlyMembersListen, CheckedAreAccounted, Http
<1>7. ASSUME NEW u \in User, NEW m \in User, Kick(u, m)
      PROVE  ListenersOK'
  <2>1. /\ UNCHANGED <<handle, hub, cut, log>>
        /\ passed' = IF handle[m].at = "checked" THEN passed \cup {m} ELSE passed
    BY <1>7 DEF Kick, connections
  <2>2. \A w \in User : w # m /\ DB!IsMember(TheRoom, w) => DB!IsMember(TheRoom, w)'
    BY <1>7, <2>1, KickTables DEF Kick
  <2>3. /\ \A w \in User : w # u => job'[Http(w)] = job[Http(w)]
        /\ job'[Http(u)] = [at |-> "disconnect", member |-> m] /\ job[Http(u)].at # "disconnect"
    BY <1>0, <1>7, JobNames DEF Kick, Do, JobsOK, Free, Http
  <2>4. OnlyMembersListen'
    <3> SUFFICES ASSUME NEW x \in hub \ cut
                 PROVE  \/ DB!IsMember(TheRoom, x)'
                        \/ \E w \in User : /\ job'[Http(w)].at = "disconnect"
                                         /\ job'[Http(w)].member = x
                        \/ x \in passed'
      BY <2>1 DEF OnlyMembersListen, Http
    <3>1. CASE x = m
      BY <2>3, <3>1
    <3>2. CASE x # m
      BY <1>0, <2>1, <2>2, <2>3, <3>2 DEF ListenersOK, OnlyMembersListen
    <3>3. QED
      BY <3>1, <3>2
  <2>5. CheckedAreAccounted'
    BY <2>1, <2>2 DEF ListenersOK, CheckedAreAccounted
  <2>6. QED
    BY <2>4, <2>5 DEF ListenersOK
<1>8. ASSUME NEW u \in User, Join(u)
      PROVE  ListenersOK'
  <2>1. UNCHANGED <<handle, hub, cut, job, log>> /\ passed' = passed \ {u}
    BY <1>8 DEF Join, connections
  <2>2. \A w \in User : w = u \/ DB!IsMember(TheRoom, w) => DB!IsMember(TheRoom, w)'
    BY <1>8, <2>1, JoinTables DEF Join
  <2>3. QED
    BY <1>0, <2>1, <2>2 DEF ListenersOK, OnlyMembersListen, CheckedAreAccounted, Http
<1>9. ASSUME NEW u \in User, Disconnect(u)
      PROVE  ListenersOK'
  <2>1. /\ UNCHANGED <<tables, handle, hub, passed, log>> /\ job[Http(u)].at = "disconnect"
        /\ cut' = cut \cup ({job[Http(u)].member} \cap hub)
    BY <1>9 DEF Disconnect, history
  <2>2. \A w \in User : DB!IsMember(TheRoom, w)' = DB!IsMember(TheRoom, w)
    BY <2>1, TablesStay
  <2>3. \A w \in User : w # u => job'[Http(w)] = job[Http(w)]
    BY <1>9, JobNames DEF Disconnect, Do, JobsOK, Http
  <2>4. OnlyMembersListen'
    <3> SUFFICES ASSUME NEW x \in hub \ cut'
                 PROVE  \/ DB!IsMember(TheRoom, x)'
                        \/ \E w \in User : /\ job'[Http(w)].at = "disconnect"
                                         /\ job'[Http(w)].member = x
                        \/ x \in passed'
      BY <2>1 DEF OnlyMembersListen, Http
    <3>1. x \in hub \ cut /\ job[Http(u)].member # x
      BY <2>1
    <3>2. QED
      BY <1>0, <2>1, <2>2, <2>3, <3>1 DEF ListenersOK, OnlyMembersListen
  <2>5. CheckedAreAccounted'
    BY <2>1, <2>2 DEF ListenersOK, CheckedAreAccounted
  <2>6. QED
    BY <2>4, <2>5 DEF ListenersOK
<1>10. ASSUME NEW u \in User, NEW b \in BOOLEAN, NEW p \in Sought, PlayOrPause(u, b, p)
       PROVE  ListenersOK'
  <2>1. job[Reader(u)] = Idle
    BY <1>10 DEF PlayOrPause, CanRead, Free
  <2>2. WriteBy(Reader(u)) \/ /\ Do(Reader(u), Idle)
                              /\ UNCHANGED <<tables, connections, delivery, history>>
    BY <1>10, <2>1, UpdateStep DEF PlayOrPause
  <2>3. QED
    BY <1>0, <1>1, <1>2, <2>1, <2>2, JobNames DEF connections, history
<1>11. ASSUME NEW u \in User, SeekWrite(u)
       PROVE  ListenersOK'
  <2>1. job[Reader(u)].at = "seek"
    BY <1>11 DEF SeekWrite
  <2>2. QED
    BY <1>1, <1>2, <1>11, <2>1, SeekWriteStep, JobNames DEF connections, history
<1>12. ASSUME NEW u \in User, NEW p \in Sought, SeekRead(u, p)
       PROVE  ListenersOK'
  BY <1>0, <1>2, <1>12, JobNames DEF SeekRead, CanRead, Free, connections, history
<1>13. ASSUME NEW u \in User, \/ \E b \in BOOLEAN : Lock(u, b)
                              \/ \E m \in User : Transfer(u, m)
       PROVE  ListenersOK'
  BY <1>1, <1>13, LockWrites, TransferWrites, JobNames
<1>14. ASSUME NEW g \in Job, \/ RereadRoom(g) \/ BroadcastStart(g)
                             \/ \E u \in User : BroadcastTo(g, u)
       PROVE  ListenersOK'
  <2>1. job[g].at # "disconnect"
    BY <1>14 DEF RereadRoom, BroadcastStart, BroadcastTo, Casting
  <2>2. QED
    BY <1>2, <1>14, <2>1
       DEF RereadRoom, BroadcastStart, BroadcastTo, connections, history
<1>15. QED
  BY <1>3, <1>4, <1>5, <1>6, <1>7, <1>8, <1>9, <1>10, <1>11, <1>12, <1>13, <1>14 DEF Next

-----------------------------------------------------------------------------
(* The latest state is on its way. *)

\* A job that will queue version v, or a later one that only v can be, for u.
Carries(j, u, v) ==
  \/ j.at = "reread" /\ j.wrote = v
  \/ j.at = "read" /\ j.message.version = v
  \/ j.at = "cast" /\ j.message.version = v /\ u \in j.todo

LatestIsOnItsWay ==
  row.version \notin failed =>
    \A u \in hub \ cut : since[u] < row.version =>
      newest[u] = row.version \/ \E g \in Job : Carries(job[g], u, row.version)

\* Steps that write nothing and let go of no message.
LEMMA LatestKept ==
  ASSUME LatestIsOnItsWay, row' = row, failed \subseteq failed',
         \A u \in hub' \ cut' :
           /\ u \in hub \ cut /\ since'[u] = since[u]
           /\ newest[u] = row.version => newest'[u] = row.version
           /\ \A g \in Job : Carries(job[g], u, row.version) =>
                \/ Carries(job'[g], u, row.version)
                \/ newest'[u] = row.version \/ row.version \in failed'
  PROVE  LatestIsOnItsWay'
<1> SUFFICES ASSUME row.version \notin failed', NEW u \in hub' \ cut', since'[u] < row.version
             PROVE  \/ newest'[u] = row.version
                    \/ \E g \in Job : Carries(job'[g], u, row.version)
  BY DEF LatestIsOnItsWay, Carries, Job
<1>1. newest[u] = row.version \/ \E g \in Job : Carries(job[g], u, row.version)
  BY DEF LatestIsOnItsWay
<1>2. QED
  BY <1>1

\* A job that carries nothing moves on, and the queues are left alone.
LEMMA LatestKeptByIdle ==
  ASSUME Base, LatestIsOnItsWay, NEW g \in Job, NEW j, Do(g, j),
         job[g] = Idle \/ job[g].at \in {"seek", "disconnect"}, row' = row,
         UNCHANGED <<hub, since, newest, failed>>, cut \subseteq cut'
  PROVE  LatestIsOnItsWay'
<1>1. \A u : ~Carries(job[g], u, row.version)
  BY DEF Carries, Idle
<1>2. \A x \in Job : x # g => job'[x] = job[x]
  BY DEF Do, Base, JobsOK
<1>3. QED
  BY <1>1, <1>2, LatestKept

\* The version of a message in hand is no later than the room's, so queueing it does not
\* take the latest one away.
LEMMA QueueKeepsNewest ==
  ASSUME Base, NEW u \in User, NEW m \in MessagesOf(log), Queue(u, m)
  PROVE  /\ \A x \in User : newest[x] = row.version => newest'[x] = row.version
         /\ m.version = row.version => newest'[u] = row.version
<1>1. m.version \in Nat /\ m.version <= row.version /\ row.version \in Nat
  BY RowIsLogged DEF Base
<1>2. newest[u] = 0 \/ newest[u] \in DOMAIN log
  BY DEF Base, QueuesOK
<1>3. newest[u] \in Nat /\ newest[u] <= row.version
  BY <1>1, <1>2, RowIsLogged DEF Base
<1>4. newest' = [newest EXCEPT ![u] = IF m.version > newest[u] THEN m.version ELSE newest[u]]
  BY DEF Queue
<1>5. /\ newest'[u] = IF m.version > newest[u] THEN m.version ELSE newest[u]
      /\ \A x \in User : x # u => newest'[x] = newest[x]
  BY <1>4 DEF Base, QueuesOK
<1>6. QED
  BY <1>1, <1>3, <1>5

LEMMA WriteLatest ==
  ASSUME Base, Base', NEW g \in Job, WriteBy(g)
  PROVE  LatestIsOnItsWay'
<1>1. PICK a \in User : Do(g, Reread(a, row'.version))
  BY DEF WriteBy
<1>2. job'[g].at = "reread" /\ job'[g].wrote = row'.version
  BY <1>1 DEF Do, Base, JobsOK, Reread
<1>3. \A u : Carries(job'[g], u, row'.version)
  BY <1>2 DEF Carries
<1>4. QED
  BY <1>3 DEF LatestIsOnItsWay, Carries, Job

LEMMA RereadLatest ==
  ASSUME Base, LatestIsOnItsWay, NEW g \in Job, RereadRoom(g)
  PROVE  LatestIsOnItsWay'
<1>1. row' = row
  BY DEF RereadRoom, tables, row
<1>2. /\ UNCHANGED <<hub, cut, since, newest>> /\ failed \subseteq failed'
      /\ job[g].at = "reread"
  BY DEF RereadRoom, connections, delivery
<1>3. \A x \in Job : x # g => job'[x] = job[x]
  BY DEF RereadRoom, Do, Base, JobsOK
<1>4. ASSUME NEW u, Carries(job[g], u, row.version)
      PROVE  Carries(job'[g], u, row.version) \/ row.version \in failed'
  <2>1. job[g].wrote = row.version
    BY <1>2, <1>4 DEF Carries
  <2>2. CASE Do(g, [at |-> "read", message |-> Message(row), wrote |-> job[g].wrote])
    <3>1. job'[g] = [at |-> "read", message |-> Message(row), wrote |-> job[g].wrote]
      BY <2>2 DEF Do, Base, JobsOK
    <3>2. QED
      BY <3>1 DEF Carries, Message
  <2>3. CASE failed' = failed \cup {job[g].wrote}
    BY <2>1, <2>3
  <2>4. QED
    BY <2>2, <2>3 DEF RereadRoom
<1>5. QED
  BY <1>1, <1>2, <1>3, <1>4, LatestKept

LEMMA RestCarries ==
  ASSUME NEW m, NEW todo, NEW u \in todo
  PROVE  Carries(Rest(m, todo), u, m.version)
  BY DEF Carries, Rest

LEMMA BroadcastLatest ==
  ASSUME Base, LatestIsOnItsWay, NEW g \in Job,
         BroadcastStart(g) \/ \E u \in User : BroadcastTo(g, u)
  PROVE  LatestIsOnItsWay'
<1>1. CASE BroadcastStart(g)
  <2>1. row' = row /\ UNCHANGED <<hub, cut, since, newest, failed>> /\ job[g].at = "read"
    BY <1>1 DEF BroadcastStart, connections, delivery, history, tables, row
  <2>2. /\ \A x \in Job : x # g => job'[x] = job[x]
        /\ job'[g] = Rest(job[g].message, hub)
    BY <1>1 DEF BroadcastStart, Do, Base, JobsOK
  <2>3. \A u \in hub : Carries(job[g], u, row.version) => Carries(job'[g], u, row.version)
    BY <2>1, <2>2, RestCarries DEF Carries
  <2>4. QED
    BY <2>1, <2>2, <2>3, LatestKept
<1>2. ASSUME NEW v \in User, BroadcastTo(g, v)
      PROVE  LatestIsOnItsWay'
  <2>1. /\ row' = row /\ UNCHANGED <<hub, since, failed>>
        /\ cut \subseteq cut' /\ job[g].at = "cast"
    BY <1>2 DEF BroadcastTo, Casting, history, tables, row
  <2>2. /\ \A x \in Job : x # g => job'[x] = job[x]
        /\ job'[g] = Rest(job[g].message, job[g].todo \ {v})
    BY <1>2 DEF BroadcastTo, Do, Base, JobsOK
  <2>3. \A u : u # v /\ Carries(job[g], u, row.version) => Carries(job'[g], u, row.version)
    <3>1. SUFFICES ASSUME NEW u, u # v, Carries(job[g], u, row.version)
                   PROVE  Carries(job'[g], u, row.version)
      OBVIOUS
    <3>2. job[g].message.version = row.version /\ u \in job[g].todo \ {v}
      BY <2>1, <3>1 DEF Carries
    <3>3. Carries(Rest(job[g].message, job[g].todo \ {v}), u, job[g].message.version)
      BY <3>2, RestCarries
    <3>4. QED
      BY <2>2, <3>2, <3>3
  <2>4. job[g].message \in MessagesOf(log)
    BY <2>1, JobAt DEF Base
  <2>5. \A u \in User : newest[u] = row.version => newest'[u] = row.version
    BY <1>2, <2>4, QueueKeepsNewest DEF BroadcastTo
  <2>6. Carries(job[g], v, row.version) => newest'[v] = row.version \/ v \in cut'
    <3>1. Carries(job[g], v, row.version) => job[g].message.version = row.version
      BY <2>1 DEF Carries
    <3>2. QED
      BY <1>2, <2>4, <3>1, QueueKeepsNewest DEF BroadcastTo
  <2>7. hub \subseteq User
    BY DEF Base, HandlesOK
  <2>8. QED
    BY <2>1, <2>2, <2>3, <2>5, <2>6, <2>7, LatestKept
<1>3. QED
  BY <1>1, <1>2

LEMMA NextLatest ==
  ASSUME Base, Base', LatestIsOnItsWay, Next
  PROVE  LatestIsOnItsWay'
<1> USE DEF Base
<1>0. hub \subseteq User
  BY DEF HandlesOK
<1>1. ASSUME NEW u \in User, CheckMembership(u) \/ RefuseUpgrade(u) \/ Deliver(u)
      PROVE  LatestIsOnItsWay'
  <2>1. row' = row /\ UNCHANGED <<hub, cut, since, newest, failed, job>>
    BY <1>1 DEF CheckMembership, RefuseUpgrade, Deliver, connections, delivery, history, tables, row
  <2>2. QED
    BY <2>1, LatestKept
<1>2. ASSUME NEW u \in User, AddClient(u)
      PROVE  LatestIsOnItsWay'
  <2>1. /\ row' = row /\ UNCHANGED <<cut, newest, failed, job>> /\ hub' = hub \cup {u}
        /\ since' = [since EXCEPT ![u] = row.version]
    BY <1>2 DEF AddClient, delivery, history, tables, row
  <2>2. /\ since'[u] = row.version /\ ~(since'[u] < row.version)
        /\ \A x \in User : x # u => since'[x] = since[x]
    BY <2>1, RowIsLogged DEF HandlesOK
  <2>3. QED
    BY <1>0, <2>1, <2>2 DEF LatestIsOnItsWay, Carries, Job
<1>3. ASSUME NEW u \in User, SendInitial(u)
      PROVE  LatestIsOnItsWay'
  <2>1. row' = row /\ UNCHANGED <<hub, cut, since, failed, job>>
    BY <1>3 DEF SendInitial, history, tables, row
  <2>2. handle[u].room \in MessagesOf(log)
    BY <1>3 DEF SendInitial, HandlesOK, GoodHandle
  <2>3. \A x \in User : newest[x] = row.version => newest'[x] = row.version
    BY <1>3, <2>2, QueueKeepsNewest DEF SendInitial
  <2>4. QED
    BY <1>0, <2>1, <2>3, LatestKept
<1>4. ASSUME NEW u \in User, RemoveClient(u)
      PROVE  LatestIsOnItsWay'
  <2>1. row' = row /\ UNCHANGED <<failed, job>> /\ hub' = hub \ {u} /\ cut' = cut \ {u}
    BY <1>4 DEF RemoveClient, tables, row
  <2>2. \A x \in hub' : x # u /\ since'[x] = since[x] /\ newest'[x] = newest[x]
    BY <1>0, <1>4, <2>1 DEF RemoveClient, HandlesOK, QueuesOK
  <2>3. QED
    BY <2>1, <2>2, LatestKept
<1>5. ASSUME NEW u \in User, NEW b \in BOOLEAN, NEW p \in Sought, PlayOrPause(u, b, p)
      PROVE  LatestIsOnItsWay'
  <2>1. job[Reader(u)] = Idle
    BY <1>5 DEF PlayOrPause, CanRead, Free
  <2>2. WriteBy(Reader(u)) \/ /\ Do(Reader(u), Idle)
                              /\ UNCHANGED <<tables, connections, delivery, history>>
    BY <1>5, <2>1, UpdateStep DEF PlayOrPause
  <2>3. CASE Do(Reader(u), Idle) /\ UNCHANGED <<tables, connections, delivery, history>>
    BY <2>1, <2>3, LatestKeptByIdle, JobNames DEF connections, delivery, history, tables, row
  <2>4. QED
    BY <2>2, <2>3, WriteLatest, JobNames
<1>6. ASSUME NEW u \in User, SeekWrite(u)
      PROVE  LatestIsOnItsWay'
  <2>1. job[Reader(u)].at = "seek"
    BY <1>6 DEF SeekWrite
  <2>2. CASE Do(Reader(u), Idle) /\ UNCHANGED <<tables, connections, delivery, history>>
    BY <2>1, <2>2, LatestKeptByIdle, JobNames DEF connections, delivery, history, tables, row
  <2>3. QED
    BY <1>6, <2>2, SeekWriteStep, WriteLatest, JobNames
<1>7. ASSUME NEW u \in User, NEW p \in Sought, SeekRead(u, p)
      PROVE  LatestIsOnItsWay'
  BY <1>7, LatestKeptByIdle, JobNames
     DEF SeekRead, CanRead, Free, connections, delivery, history, tables, row
<1>8. ASSUME NEW u \in User, \/ \E b \in BOOLEAN : Lock(u, b)
                             \/ \E m \in User : Transfer(u, m)
      PROVE  LatestIsOnItsWay'
  BY <1>8, LockWrites, TransferWrites, WriteLatest, JobNames
<1>9. ASSUME NEW u \in User, NEW m \in User, Kick(u, m)
      PROVE  LatestIsOnItsWay'
  <2>1. row' = row
    BY <1>9 DEF Kick, DB!KickMember, row
  <2>2. QED
    BY <1>9, <2>1, LatestKeptByIdle, JobNames DEF Kick, Free, connections, delivery
<1>10. ASSUME NEW u \in User, Join(u)
       PROVE  LatestIsOnItsWay'
  <2>1. row' = row
    BY <1>10 DEF Join, DB!JoinRoom, row
  <2>2. QED
    BY <1>10, <2>1, LatestKept DEF Join, connections, delivery
<1>11. ASSUME NEW u \in User, Disconnect(u)
       PROVE  LatestIsOnItsWay'
  BY <1>11, LatestKeptByIdle, JobNames DEF Disconnect, delivery, history, tables, row
<1>12. QED
  BY <1>1, <1>2, <1>3, <1>4, <1>5, <1>6, <1>7, <1>8, <1>9, <1>10, <1>11, RereadLatest,
     BroadcastLatest DEF Next

-----------------------------------------------------------------------------
(* The inductive invariant. *)

IInv == Base /\ ListenersOK /\ LatestIsOnItsWay

LEMMA InitIInv == Init => IInv
<1>1. Init => ListenersOK
  BY DEF Init, ListenersOK, OnlyMembersListen, CheckedAreAccounted
<1>2. Init => LatestIsOnItsWay
  BY DEF Init, LatestIsOnItsWay
<1>3. QED
  BY <1>1, <1>2, InitBase DEF IInv

LEMMA NextIInv == IInv /\ [Next]_vars => IInv'
<1>1. CASE IInv /\ Next
  BY <1>1, NextBase, NextListeners, NextLatest DEF IInv
<1>2. CASE IInv /\ UNCHANGED vars
  <2> USE <1>2 DEF vars, tables, connections, delivery, history, IInv
  <2>1. TablesOK' /\ LogGrows /\ row' = row
    BY TablesStay DEF Base
  <2>2. HandlesOK' /\ QueuesOK' /\ HistoryOK'
    BY <2>1, RestStays DEF Base, HistoryOK
  <2>3. JobsOK'
    BY <2>1, JobsStay DEF Base
  <2>4. ListenersOK'
    BY DEF ListenersOK, OnlyMembersListen, CheckedAreAccounted, DB!IsMember, Http
  <2>5. LatestIsOnItsWay'
    BY <2>1 DEF LatestIsOnItsWay, Carries, Job
  <2>6. QED
    BY <2>1, <2>2, <2>3, <2>4, <2>5 DEF Base
<1>3. QED
  BY <1>1, <1>2

LEMMA Invariant == Spec => []IInv
  BY InitIInv, NextIInv, PTL DEF Spec

-----------------------------------------------------------------------------
(* Theorems. *)

LEMMA BaseImpliesTypes == Base => TypeOK
<1> SUFFICES ASSUME Base
             PROVE  TypeOK
  OBVIOUS
<1>1. DB!TypeOK /\ DOMAIN log = 1..row.version
  BY DEF Base, TablesOK
<1>2. \A v \in {0} \cup DOMAIN log : v \in 0..MaxVersion
  BY RowIsLogged, TablesAssumption DEF Base
<1>3. newest \in [User -> 0..MaxVersion] /\ since \in [User -> 0..MaxVersion]
  BY <1>2 DEF Base, HandlesOK, QueuesOK
<1>4. hub \subseteq User /\ cut \subseteq hub /\ failed \subseteq DOMAIN log /\ passed \subseteq User
  BY DEF Base, HandlesOK, HistoryOK
<1>5. \A u \in User :
        /\ handle[u].at \in {"away", "checked", "added", "open"}
        /\ handle[u].room \in Messages \cup {NoMessage}
        /\ queue[u] \in Seq(Messages) /\ Len(queue[u]) <= Cap
        /\ view[u] \in Messages \cup {NoMessage}
  BY MessagesAre DEF Base, HandlesOK, QueuesOK, GoodHandle, GoodQueue
<1>6. \A g \in Job :
        \/ job[g] = Idle
        \/ job[g].at = "seek" /\ g[2] = "reader"
        \/ job[g].at = "reread" /\ job[g].as \in User
        \/ job[g].at = "read" /\ job[g].message \in Messages
        \/ job[g].at = "cast" /\ job[g].message \in Messages /\ job[g].todo \subseteq User
        \/ job[g].at = "disconnect" /\ job[g].member \in User /\ g[2] = "http"
  BY <1>4, MessagesAre DEF Base, JobsOK, GoodJob
<1>7. QED
  BY <1>1, <1>3, <1>4, <1>5, <1>6 DEF TypeOK

\* The state of the server is well formed: no queue exceeds its capacity, and every version
\* of the room is in the log.
THEOREM TypeCorrect == Spec => []TypeOK
<1>1. IInv => TypeOK
  BY BaseImpliesTypes DEF IInv
<1>2. QED
  BY <1>1, Invariant, PTL

\* No message mixes two writes: what is queued, in hand or on a screen was committed as such.
THEOREM StatesCorrect == Spec => []StatesAreCommitted
<1>1. ASSUME Base
      PROVE  StatesAreCommitted
  <2>1. \A u \in User : \A i \in 1..Len(queue[u]) : queue[u][i] \in Messages
    BY <1>1, MessagesAre DEF Base, QueuesOK, GoodQueue
  <2>2. \A u \in User : view[u] \in Messages \cup {NoMessage}
                       /\ handle[u].room \in Messages \cup {NoMessage}
    BY <1>1, MessagesAre DEF Base, QueuesOK, HandlesOK, GoodHandle
  <2>3. \A g \in Job : job[g].at \in {"read", "cast"} => job[g].message \in Messages
    BY <1>1, JobAt, MessagesAre DEF Base
  <2>4. ASSUME NEW x \in Held
        PROVE  x \in Messages \cup {NoMessage}
    <3>1. CASE \E u \in User : x \in {queue[u][i] : i \in 1..Len(queue[u])}
      BY <2>1, <3>1
    <3>2. CASE \E u \in User : x \in {view[u], handle[u].room}
      BY <2>2, <3>2
    <3>3. CASE x \in {job[g].message : g \in {g \in Job : job[g].at \in {"read", "cast"}}}
      BY <2>3, <3>3
    <3>4. QED
      BY <2>4, <3>1, <3>2, <3>3 DEF Held
  <2>5. QED
    BY <2>4 DEF StatesAreCommitted
<1>2. IInv => StatesAreCommitted
  BY <1>1 DEF IInv
<1>3. QED
  BY <1>2, Invariant, PTL

\* A request never broadcasts the room as it was before its own write.
THEOREM OwnWriteCorrect == Spec => []OwnWriteIsShown
<1>1. IInv => OwnWriteIsShown
  BY JobAt DEF IInv, Base, OwnWriteIsShown
<1>2. QED
  BY <1>1, Invariant, PTL

\* The latest state has been queued for everybody who was registered before it.
THEOREM LatestCorrect == Spec => []RegisteredGetTheLatest
<1>1. IInv => RegisteredGetTheLatest
  BY DEF IInv, LatestIsOnItsWay, RegisteredGetTheLatest, Settled, Carries
<1>2. QED
  BY <1>1, Invariant, PTL

\* Whoever stays connected without being a member is about to be disconnected, or was kicked
\* between the membership check and addClient.
THEOREM ListenersCorrect == Spec => []OnlyMembersListen
<1>1. IInv => OnlyMembersListen
  BY DEF IInv, ListenersOK
<1>2. QED
  BY <1>1, Invariant, PTL

\* However stale its reading, a seek writes the playing flag of the version it has read.
THEOREM SeekCorrect == Spec => SeekWritesWhatItRead
<1>1. ASSUME IInv, NEW u \in User, SeekWrite(u), row'.version # row.version
      PROVE  row'.playing = log[job[Reader(u)].read].playing
  <2>1. log[job[Reader(u)].read].playing = job[Reader(u)].playing
    BY <1>1, JobAt, JobNames DEF IInv, Base, SeekWrite
  <2>2. row'.playing = job[Reader(u)].playing \/ UNCHANGED tables
    BY <1>1, SeekWriteStep DEF IInv
  <2>3. QED
    BY <1>1, <2>1, <2>2 DEF tables, row
<1>2. IInv => [\A u \in User :
        SeekWrite(u) /\ row'.version # row.version =>
          row'.playing = log[job[Reader(u)].read].playing]_vars
  BY <1>1
<1>3. QED
  BY <1>2, Invariant, PTL DEF SeekWritesWhatItRead
-----------------------------------------------------------------------------
(* The tables underneath. *)

\* The statements of Rooms, by either name.
LEMMA SameNext == Tables!Next => DB!Next
<1>1. Tables!MaxPosition = DB!MaxPosition
  BY DEF Tables!MaxPosition, DB!MaxPosition
<1>2. \A x : Tables!Bump(x) = DB!Bump(x)
  BY DEF Tables!Bump, DB!Bump
<1>3. \A x, u, y : Tables!SetRole(x, u, y) = DB!SetRole(x, u, y)
  BY DEF Tables!SetRole, DB!SetRole
<1>4. \A r, u : /\ Tables!IsMember(r, u) <=> DB!IsMember(r, u)
                /\ Tables!IsHost(r, u) <=> DB!IsHost(r, u)
  BY DEF Tables!IsMember, DB!IsMember, Tables!IsHost, DB!IsHost
<1>5. \A r, v, u : Tables!CreateRoom(r, v, u) => DB!CreateRoom(r, v, u)
  BY DEF Tables!CreateRoom, DB!CreateRoom
<1>6. \A r, u : Tables!JoinRoom(r, u) => DB!JoinRoom(r, u)
  BY <1>4 DEF Tables!JoinRoom, DB!JoinRoom
<1>7. \A r : Tables!ExpireInvite(r) => DB!ExpireInvite(r)
  BY DEF Tables!ExpireInvite, DB!ExpireInvite
<1>8. \A r, u, b, p : Tables!UpdatePlayback(r, u, b, p) => DB!UpdatePlayback(r, u, b, p)
  BY <1>1, <1>2, <1>4 DEF Tables!UpdatePlayback, DB!UpdatePlayback
<1>9. \A r, h, u : Tables!KickMember(r, h, u) => DB!KickMember(r, h, u)
  BY <1>4 DEF Tables!KickMember, DB!KickMember
<1>10. \A r, h, b : Tables!SetRoomLocked(r, h, b) => DB!SetRoomLocked(r, h, b)
  BY <1>2, <1>4 DEF Tables!SetRoomLocked, DB!SetRoomLocked
<1>11. \A r, h, u : Tables!TransferHost(r, h, u) => DB!TransferHost(r, h, u)
  BY <1>2, <1>3, <1>4 DEF Tables!TransferHost, DB!TransferHost
<1>12. \A v, u : Tables!CreateVideo(v, u) => DB!CreateVideo(v, u)
  BY DEF Tables!CreateVideo, DB!CreateVideo
<1>13. Tables!RoomNext => DB!RoomNext
  BY <1>5, <1>6, <1>7, <1>8, <1>9, <1>10, <1>11 DEF Tables!RoomNext, DB!RoomNext
<1>14. QED
  BY <1>12, <1>13 DEF Tables!Next, DB!Next

\* A reader or a request runs one statement at a time, or none.
LEMMA UpdateStatement ==
  ASSUME NEW u \in User, NEW b \in BOOLEAN, NEW p \in Sought, Update(u, b, p)
  PROVE  Tables!Next \/ UNCHANGED tables
<1>1. CASE DB!UpdatePlayback(TheRoom, u, b, p)
  <2>1. Tables!UpdatePlayback(TheRoom, u, b, p)
    BY <1>1 DEF DB!UpdatePlayback, Tables!UpdatePlayback, DB!IsMember, Tables!IsMember,
       DB!MaxPosition, Tables!MaxPosition, DB!Bump, Tables!Bump
  <2>2. QED
    BY <2>1, RoomAssumption DEF Tables!Next, Tables!RoomNext
<1>2. QED
  BY <1>1 DEF Update

LEMMA RequestStatement ==
  ASSUME NEW u \in User,
         \/ \E b \in BOOLEAN : Lock(u, b)
         \/ \E m \in User : Transfer(u, m) \/ Kick(u, m)
         \/ Join(u)
  PROVE  Tables!Next
<1>1. ASSUME NEW b \in BOOLEAN, Lock(u, b)
      PROVE  Tables!Next
  <2>1. Tables!SetRoomLocked(TheRoom, u, b)
    BY <1>1 DEF Lock, DB!SetRoomLocked, Tables!SetRoomLocked, DB!IsHost, Tables!IsHost,
       DB!Bump, Tables!Bump
  <2>2. QED
    BY <2>1, RoomAssumption DEF Tables!Next, Tables!RoomNext
<1>2. ASSUME NEW m \in User, Transfer(u, m)
      PROVE  Tables!Next
  <2>1. Tables!TransferHost(TheRoom, u, m)
    BY <1>2 DEF Transfer, DB!TransferHost, Tables!TransferHost, DB!IsHost, Tables!IsHost,
       DB!IsMember, Tables!IsMember, DB!SetRole, Tables!SetRole, DB!Bump, Tables!Bump
  <2>2. QED
    BY <2>1, RoomAssumption DEF Tables!Next, Tables!RoomNext
<1>3. ASSUME NEW m \in User, Kick(u, m)
      PROVE  Tables!Next
  <2>1. Tables!KickMember(TheRoom, u, m)
    BY <1>3 DEF Kick, DB!KickMember, Tables!KickMember, DB!IsHost, Tables!IsHost,
       DB!IsMember, Tables!IsMember
  <2>2. QED
    BY <2>1, RoomAssumption DEF Tables!Next, Tables!RoomNext
<1>4. ASSUME Join(u)
      PROVE  Tables!Next
  <2>1. Tables!JoinRoom(TheRoom, u)
    BY <1>4 DEF Join, DB!JoinRoom, Tables!JoinRoom, DB!IsMember, Tables!IsMember
  <2>2. QED
    BY <2>1, RoomAssumption DEF Tables!Next, Tables!RoomNext
<1>5. QED
  BY <1>1, <1>2, <1>3, <1>4

LEMMA StepStatement == IInv /\ [Next]_vars => Tables!Next \/ UNCHANGED tables
<1> SUFFICES ASSUME IInv, [Next]_vars
             PROVE  Tables!Next \/ UNCHANGED tables
  OBVIOUS
<1>1. ASSUME NEW u \in User, SeekWrite(u)
      PROVE  Tables!Next \/ UNCHANGED tables
  <2>1. job[Reader(u)].playing \in BOOLEAN /\ job[Reader(u)].position \in Sought
    BY <1>1, JobAt, JobNames DEF SeekWrite, IInv, Base
  <2>2. QED
    BY <1>1, <2>1, UpdateStatement DEF SeekWrite
<1>2. ASSUME NEW u \in User, NEW b \in BOOLEAN, NEW p \in Sought, PlayOrPause(u, b, p)
      PROVE  Tables!Next \/ UNCHANGED tables
  BY <1>2, UpdateStatement DEF PlayOrPause
<1>3. ASSUME NEW u \in User,
             \/ CheckMembership(u) \/ RefuseUpgrade(u) \/ AddClient(u) \/ SendInitial(u)
             \/ Deliver(u) \/ RemoveClient(u) \/ Disconnect(u)
             \/ \E p \in Sought : SeekRead(u, p)
      PROVE  UNCHANGED tables
  BY <1>3 DEF CheckMembership, RefuseUpgrade, AddClient, SendInitial, Deliver, RemoveClient,
     Disconnect, SeekRead
<1>4. ASSUME NEW g \in Job,
             RereadRoom(g) \/ BroadcastStart(g) \/ \E u \in User : BroadcastTo(g, u)
      PROVE  UNCHANGED tables
  BY <1>4 DEF RereadRoom, BroadcastStart, BroadcastTo
<1>5. CASE UNCHANGED vars
  BY <1>5 DEF vars
<1>6. QED
  BY <1>1, <1>2, <1>3, <1>4, <1>5, RequestStatement DEF Next

\* The tables as they are when the room opens.
LEMMA InitTables == Init => Tables!IInv
<1> SUFFICES ASSUME Init
             PROVE  Tables!IInv
  OBVIOUS
<1>1. Tables!TypeOK
  BY InitBase, SameTypes DEF Base, TablesOK
<1>2. Tables!NoOrphans
  <2>1. \A r \in Room : rooms[r] = NoRow => r # TheRoom
    BY InitBase, TablesAssumption DEF Base, TablesOK, row
  <2>2. \A r \in Room : r # TheRoom => \A u \in User : role[r][u] = "none"
    BY DEF Init
  <2>3. QED
    BY <2>1, <2>2 DEF Tables!NoOrphans
<1>3. Tables!HostHasTheRole
  <2>1. ASSUME NEW u \in User
        PROVE  role[TheRoom][u] = "host" <=> u = Owner
    <3>1. role[TheRoom][u] = CASE u = Owner -> "host" [] u \in Guest -> "member" [] OTHER -> "none"
      BY RoomAssumption DEF Init
    <3>2. QED
      BY <3>1, UserAssumption
  <2>2. rooms[TheRoom].host = Owner /\ rooms[TheRoom] # NoRow
    BY InitBase, RoomAssumption, TablesAssumption DEF Init, Base, TablesOK, row
  <2>3. \A r \in Room : r # TheRoom => rooms[r] = NoRow /\ \A u \in User : role[r][u] = "none"
    BY DEF Init
  <2>4. QED
    BY <2>1, <2>2, <2>3 DEF Tables!HostHasTheRole, Tables!IsHost
<1>4. QED
  BY <1>1, <1>2, <1>3 DEF Tables!IInv

LEMMA StepTables == Tables!IInv /\ (Tables!Next \/ UNCHANGED tables) => Tables!IInv'
<1> SUFFICES ASSUME Tables!IInv, Tables!Next \/ UNCHANGED tables
             PROVE  Tables!IInv'
  OBVIOUS
<1>1. [Tables!Next]_(Tables!vars)
  BY DEF Tables!vars, tables
<1>2. Tables!TypeOK'
  BY <1>1, TablesMayUse, Tables!NextTypeOK DEF Tables!IInv
<1>3. Tables!HostHasTheRole'
  BY <1>1, TablesMayUse, Tables!NextHostHasTheRole DEF Tables!IInv
<1>4. Tables!NoOrphans'
  BY <1>1, TablesMayUse, Tables!NextNoOrphans
<1>5. QED
  BY <1>2, <1>3, <1>4 DEF Tables!IInv

LEMMA TablesInvariant == Spec => []Tables!IInv
<1>1. IInv /\ Tables!IInv /\ [Next]_vars => Tables!IInv'
  BY StepStatement, StepTables
<1>2. QED
  BY <1>1, InitTables, Invariant, PTL DEF Spec

\* Whatever readers and requests do at once, between their statements and under stale
\* readings, the tables only ever take the steps of Rooms.
THEOREM RunsStatements == Spec => [][DB!Next]_(DB!vars)
<1>1. IInv /\ [Next]_vars => [DB!Next]_(DB!vars)
  BY StepStatement, SameNext DEF DB!vars, tables
<1>2. QED
  BY <1>1, Invariant, PTL DEF Spec

\* host_id and the role column agree while any number of users watch, kick, transfer and join.
THEOREM HostRoleCorrect == Spec => []DB!HostHasTheRole
<1>1. Tables!IInv => DB!HostHasTheRole
  BY DEF Tables!IInv, Tables!HostHasTheRole, DB!HostHasTheRole, Tables!IsHost, DB!IsHost
<1>2. QED
  BY <1>1, TablesInvariant, PTL

\* And so the server takes the steps a watch room promises: whatever order requests run in,
\* nobody enters a locked room, and the host is never removed.
THEOREM KeepsPromise == Spec => [][Tables!Promise!Next]_(Tables!Promise!vars)
<1>1. Tables!IInv /\ Tables!IInv' /\ (Tables!Next \/ UNCHANGED tables)
        => [Tables!Promise!Next]_(Tables!Promise!vars)
  <2> SUFFICES ASSUME Tables!IInv, Tables!IInv', Tables!Next \/ UNCHANGED tables
               PROVE  [Tables!Promise!Next]_(Tables!Promise!vars)
    OBVIOUS
  <2>1. [Tables!Next]_(Tables!vars)
    BY DEF Tables!vars, tables
  <2>2. QED
    BY <2>1, TablesMayUse, Tables!PromiseStep
<1>2. IInv /\ Tables!IInv /\ Tables!IInv' /\ [Next]_vars => [Tables!Promise!Next]_(Tables!Promise!vars)
  BY <1>1, StepStatement
<1>3. QED
  BY <1>2, Invariant, TablesInvariant, PTL DEF Spec
=============================================================================
