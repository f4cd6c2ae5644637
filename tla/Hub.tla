-------------------------------- MODULE Hub --------------------------------
(***************************************************************************)
(* The connections of one room: internal/websocket/hub.go and client.go,   *)
(* goroutine by goroutine.  A connection is a Client with the goroutine of *)
(* Handle, its readPump and its writePump, and however many goroutines run *)
(* its close() (spawned by "go client.close()" and "go c.close()", or the  *)
(* deferred calls at the end of the pumps).  The hub's RWMutex is held for *)
(* reading while a broadcast goes round the room.                          *)
(*                                                                         *)
(* What the frames say is left out, except the notice of a kick.  Payloads *)
(* and versions are in RoomServer.                                         *)
(***************************************************************************)
EXTENDS Integers, Sequences

CONSTANTS Conn,      \* Client objects, each of a user of its own
          Request,   \* lock and transfer requests that end in BroadcastRoomState
          Cap,       \* cap(client.send), 256 in the code
          Fickle,    \* bound of the model: connections that may be lost or kicked
          MaxFrames  \* bound of the model: frames read, from all connections together

\* Handle queues two messages before the writer runs.
ASSUME CapAssumption == Cap \in Nat /\ Cap >= 2
ASSUME MaxFramesAssumption == MaxFrames \in Nat

VARIABLES hub,      \* Hub.clients of the room
          handler,  \* Handle: "idle", about to queue "state" or "ping", "started" the pumps
          queue,    \* client.send
          reader,   \* readPump: "off", "reading", "leaving" (its deferred call), "gone"
          writer,   \* writePump: "off", "running", "gone"
          closing,  \* how many goroutines are about to enter c.close()
          latched,  \* how many are past its check that done is open
          done,     \* connections whose done channel and socket are closed
          lost,     \* connections whose peer went away or let the read deadline pass
          ready,    \* goroutines about to call Hub.broadcast
          todo,     \* clients a broadcast has not reached yet; it holds the lock for reading
          frames,   \* frames read so far
          asked,    \* requests made so far
          stopped,  \* Hub.Close has run
          crashed   \* the process has panicked: nothing happens any more

VARIABLES kicked,   \* connections of users removed with DisconnectMember
          missed,   \* connections for which a full queue dropped a message
          told      \* connections whose peer has been sent the notice of the kick

pumps == <<handler, reader, writer>>
closers == <<closing, latched, done, crashed>>
casts == <<ready, todo>>
bounds == <<lost, frames, asked, stopped>>
history == <<kicked, missed, told>>
vars == <<hub, queue, pumps, closers, casts, bounds, history>>

-----------------------------------------------------------------------------
\* Goroutines that broadcast: three kinds of broadcastPresence, a reader passing on what
\* its user did, and the handler of a request.
Presence == Conn \X {"joined", "ponged", "left"}
Caster == Presence \cup (Conn \X {"reader"}) \cup Request

Busy(g) == g \in ready \/ todo[g] # {}

\* Lock() waits for every RLock() to be given back.
NoReaders == \A g \in Caster : todo[g] = {}

TypeOK ==
  /\ hub \subseteq Conn
  /\ handler \in [Conn -> {"idle", "state", "ping", "started"}]
  /\ queue \in [Conn -> Seq({"news", "kicked"})]
  /\ \A c \in Conn : Len(queue[c]) <= Cap
  /\ reader \in [Conn -> {"off", "reading", "leaving", "gone"}]
  /\ writer \in [Conn -> {"off", "running", "gone"}]
  /\ closing \in [Conn -> Nat] /\ latched \in [Conn -> Nat]
  /\ done \subseteq Conn /\ lost \subseteq Conn
  /\ ready \subseteq Caster
  /\ todo \in [Caster -> SUBSET Conn]
  /\ frames \in 0..MaxFrames
  /\ asked \subseteq Request
  /\ stopped \in BOOLEAN /\ crashed \in BOOLEAN
  /\ kicked \subseteq Conn /\ missed \subseteq Conn /\ told \subseteq kicked

Init ==
  /\ hub = {}
  /\ handler = [c \in Conn |-> "idle"]
  /\ queue = [c \in Conn |-> <<>>]
  /\ reader = [c \in Conn |-> "off"]
  /\ writer = [c \in Conn |-> "off"]
  /\ closing = [c \in Conn |-> 0]
  /\ latched = [c \in Conn |-> 0]
  /\ done = {} /\ lost = {}
  /\ ready = {}
  /\ todo = [g \in Caster |-> {}]
  /\ frames = 0
  /\ asked = {}
  /\ stopped = FALSE /\ crashed = FALSE
  /\ kicked = {} /\ missed = {} /\ told = {}

-----------------------------------------------------------------------------
(* Queues and closing. *)

Full(c) == Len(queue[c]) = Cap

\* Mutant: a full queue drops the message and the client stays.
TrySendOrDrop(c, message, n) ==
  /\ queue' = IF Full(c) THEN queue ELSE [queue EXCEPT ![c] = Append(@, message)]
  /\ closing' = [closing EXCEPT ![c] = @ + n]
  /\ missed' = IF Full(c) THEN missed \cup {c} ELSE missed

\* select { case c.send <- payload: default: go c.close() }, with n more calls of close.
TrySend(c, message, n) ==
  /\ queue' = IF Full(c) THEN queue ELSE [queue EXCEPT ![c] = Append(@, message)]
  /\ closing' = [closing EXCEPT ![c] = @ + n + IF Full(c) THEN 1 ELSE 0]
  /\ missed' = IF Full(c) THEN missed \cup {c} ELSE missed

\* close(): return if done is closed ...
CloseCheck(c) ==
  /\ ~crashed /\ closing[c] > 0
  /\ closing' = [closing EXCEPT ![c] = @ - 1]
  /\ latched' = IF c \in done THEN latched ELSE [latched EXCEPT ![c] = @ + 1]
  /\ UNCHANGED <<hub, queue, pumps, done, crashed, casts, bounds, history>>

\* ... or else close it, which panics if another goroutine just did, and the socket.
CloseCommit(c) ==
  /\ ~crashed /\ latched[c] > 0
  /\ latched' = [latched EXCEPT ![c] = @ - 1]
  /\ done' = done \cup {c}
  /\ crashed' = (c \in done)
  /\ UNCHANGED <<hub, queue, pumps, closing, casts, bounds, history>>

-----------------------------------------------------------------------------
(* Handle. *)

\* addClient, and the presence broadcast it spawns.
AddClient(c) ==
  /\ ~crashed /\ handler[c] = "idle" /\ NoReaders
  /\ handler' = [handler EXCEPT ![c] = "state"]
  /\ hub' = hub \cup {c}
  /\ ready' = ready \cup {<<c, "joined">>}
  /\ UNCHANGED <<queue, reader, writer, closers, todo, bounds, history>>

\* client.send <- state: waits for room in the queue, and nothing drains it yet.
QueueState(c) ==
  /\ ~crashed /\ handler[c] = "state" /\ ~Full(c)
  /\ handler' = [handler EXCEPT ![c] = "ping"]
  /\ queue' = [queue EXCEPT ![c] = Append(@, "news")]
  /\ UNCHANGED <<hub, reader, writer, closers, casts, bounds, history>>

\* client.send <- ping, then both pumps.
QueuePing(c) ==
  /\ ~crashed /\ handler[c] = "ping" /\ ~Full(c)
  /\ handler' = [handler EXCEPT ![c] = "started"]
  /\ queue' = [queue EXCEPT ![c] = Append(@, "news")]
  /\ reader' = [reader EXCEPT ![c] = "reading"]
  /\ writer' = [writer EXCEPT ![c] = "running"]
  /\ UNCHANGED <<hub, closers, casts, bounds, history>>

-----------------------------------------------------------------------------
(* readPump.  It does nothing else while it broadcasts. *)

\* A frame that has come in may still be read when the socket is closed or the peer gone.
CanRead(c) ==
  /\ ~crashed /\ reader[c] = "reading" /\ ~Busy(<<c, "reader">>)
  /\ frames < MaxFrames
  /\ frames' = frames + 1

\* presence.pong: go broadcastPresence.  The model has one of these per connection at a time.
ReadPong(c) ==
  /\ CanRead(c) /\ ~Busy(<<c, "ponged">>)
  /\ ready' = ready \cup {<<c, "ponged">>}
  /\ UNCHANGED <<hub, queue, pumps, closers, todo, lost, asked, stopped, history>>

\* playback.* or chat.send, accepted by the database: the reader broadcasts it itself.
ReadCommand(c) ==
  /\ CanRead(c)
  /\ ready' = ready \cup {<<c, "reader">>}
  /\ UNCHANGED <<hub, queue, pumps, closers, todo, lost, asked, stopped, history>>

\* Mutant: the error has the code by which a tab knows that it was kicked (app.js:77).
ReadRefusedAsKick(c) ==
  /\ CanRead(c)
  /\ TrySend(c, "kicked", 0)
  /\ UNCHANGED <<hub, pumps, latched, done, crashed, casts, lost, asked, stopped, kicked, told>>

\* A frame that is not understood or refused: sendError.
ReadRefused(c) ==
  /\ CanRead(c)
  /\ TrySend(c, "news", 0)
  /\ UNCHANGED <<hub, pumps, latched, done, crashed, casts, lost, asked, stopped, kicked, told>>

ReadFails(c) ==
  /\ ~crashed /\ reader[c] = "reading" /\ ~Busy(<<c, "reader">>)
  /\ c \in done \cup lost
  /\ reader' = [reader EXCEPT ![c] = "leaving"]
  /\ UNCHANGED <<hub, queue, handler, writer, closers, casts, bounds, history>>

\* Mutant: the deferred call closes the connection and leaves it registered.
CloseOnly(c) ==
  /\ ~crashed /\ reader[c] = "leaving" /\ NoReaders
  /\ reader' = [reader EXCEPT ![c] = "gone"]
  /\ closing' = [closing EXCEPT ![c] = @ + 1]
  /\ UNCHANGED <<hub, queue, handler, writer, latched, done, crashed, casts, bounds, history>>

\* Mutant: removeClient without the hub's lock.
RemoveClientUnlocked(c) ==
  /\ ~crashed /\ reader[c] = "leaving"
  /\ reader' = [reader EXCEPT ![c] = "gone"]
  /\ hub' = hub \ {c}
  /\ ready' = ready \cup {<<c, "left">>}
  /\ closing' = [closing EXCEPT ![c] = @ + 1]
  /\ UNCHANGED <<queue, handler, writer, latched, done, crashed, todo, bounds, history>>

\* Mutant: removeClient without the close() that stops the writer.
RemoveClientOpen(c) ==
  /\ ~crashed /\ reader[c] = "leaving" /\ NoReaders
  /\ reader' = [reader EXCEPT ![c] = "gone"]
  /\ hub' = hub \ {c}
  /\ ready' = ready \cup {<<c, "left">>}
  /\ UNCHANGED <<queue, handler, writer, closers, todo, bounds, history>>

\* The deferred removeClient, with its presence broadcast, then close().
RemoveClient(c) ==
  /\ ~crashed /\ reader[c] = "leaving" /\ NoReaders
  /\ reader' = [reader EXCEPT ![c] = "gone"]
  /\ hub' = hub \ {c}
  /\ ready' = ready \cup {<<c, "left">>}
  /\ closing' = [closing EXCEPT ![c] = @ + 1]
  /\ UNCHANGED <<queue, handler, writer, latched, done, crashed, todo, bounds, history>>

-----------------------------------------------------------------------------
(* writePump.  A ping of the ticker that is written changes nothing here. *)

Write(c) ==
  /\ ~crashed /\ writer[c] = "running" /\ queue[c] # <<>> /\ c \notin done
  /\ queue' = [queue EXCEPT ![c] = Tail(@)]
  /\ told' = IF Head(queue[c]) = "kicked" /\ c \notin lost THEN told \cup {c} ELSE told
  /\ UNCHANGED <<hub, pumps, closers, casts, bounds, kicked, missed>>

\* A message or a ping of the ticker cannot be written: the deferred close().
WriteFails(c) ==
  /\ ~crashed /\ writer[c] = "running" /\ c \in done \cup lost
  /\ writer' = [writer EXCEPT ![c] = "gone"]
  /\ \/ queue[c] # <<>> /\ queue' = [queue EXCEPT ![c] = Tail(@)]
     \/ UNCHANGED queue
  /\ closing' = [closing EXCEPT ![c] = @ + 1]
  /\ UNCHANGED <<hub, handler, reader, latched, done, crashed, casts, bounds, history>>

-----------------------------------------------------------------------------
(* Hub. *)

\* A handler has committed a lock or a transfer and calls BroadcastRoomState.
BroadcastRoomState(q) ==
  /\ ~crashed /\ q \notin asked
  /\ asked' = asked \cup {q}
  /\ ready' = ready \cup {q}
  /\ UNCHANGED <<hub, queue, pumps, closers, todo, lost, frames, stopped, history>>

\* broadcast takes the lock for reading ...
BroadcastStart(g) ==
  /\ ~crashed /\ g \in ready
  /\ ready' = ready \ {g}
  /\ todo' = [todo EXCEPT ![g] = hub]
  /\ UNCHANGED <<hub, queue, pumps, closers, bounds, history>>

\* Mutant: client.send <- payload without a default, which waits for the client.
BroadcastToBlocking(g, c) ==
  /\ ~crashed /\ c \in todo[g] /\ ~Full(c)
  /\ todo' = [todo EXCEPT ![g] = @ \ {c}]
  /\ TrySend(c, "news", 0)
  /\ UNCHANGED <<hub, pumps, latched, done, crashed, ready, bounds, kicked, told>>

\* ... and offers the message to the clients one by one, in any order; the last gives it back.
BroadcastTo(g, c) ==
  /\ ~crashed /\ c \in todo[g]
  /\ todo' = [todo EXCEPT ![g] = @ \ {c}]
  /\ TrySend(c, "news", 0)
  /\ UNCHANGED <<hub, pumps, latched, done, crashed, ready, bounds, kicked, told>>

\* Mutant: the connection closed without the notice.
DisconnectSilently(c) ==
  /\ ~crashed /\ c \in (hub \cap Fickle) \ kicked
  /\ kicked' = kicked \cup {c}
  /\ closing' = [closing EXCEPT ![c] = @ + 1]
  /\ UNCHANGED <<hub, queue, pumps, latched, done, crashed, casts, bounds, missed, told>>

\* DisconnectMember: the notice, then go client.close(), whatever became of the notice.
DisconnectMember(c) ==
  /\ ~crashed /\ c \in (hub \cap Fickle) \ kicked
  /\ kicked' = kicked \cup {c}
  /\ TrySend(c, "kicked", 1)
  /\ UNCHANGED <<hub, pumps, latched, done, crashed, casts, bounds, told>>

\* Mutant: the map emptied and the connections left open.
CloseMapOnly ==
  /\ ~crashed /\ ~stopped /\ NoReaders
  /\ stopped' = TRUE
  /\ hub' = {}
  /\ UNCHANGED <<queue, pumps, closers, casts, lost, frames, asked, history>>

\* Hub.Close, at shutdown: everybody out, then close() for each.
Close ==
  /\ ~crashed /\ ~stopped /\ NoReaders
  /\ stopped' = TRUE
  /\ hub' = {}
  /\ closing' = [c \in Conn |-> closing[c] + IF c \in hub THEN 1 ELSE 0]
  /\ UNCHANGED <<queue, pumps, latched, done, crashed, casts, lost, frames, asked, history>>

\* The peer goes away, or nothing it sends moves the read deadline.
Lose(c) ==
  /\ ~crashed /\ c \in Fickle /\ handler[c] # "idle"
  /\ lost' = lost \cup {c}
  /\ UNCHANGED <<hub, queue, pumps, closers, casts, frames, asked, stopped, history>>

-----------------------------------------------------------------------------
Next ==
  \/ \E c \in Conn :
       \/ AddClient(c) \/ QueueState(c) \/ QueuePing(c)
       \/ ReadPong(c) \/ ReadCommand(c) \/ ReadRefused(c) \/ ReadFails(c) \/ RemoveClient(c)
       \/ Write(c) \/ WriteFails(c)
       \/ CloseCheck(c) \/ CloseCommit(c)
       \/ DisconnectMember(c) \/ Lose(c)
  \/ \E q \in Request : BroadcastRoomState(q)
  \/ \E g \in Caster : BroadcastStart(g) \/ \E c \in Conn : BroadcastTo(g, c)
  \/ Close

\* Goroutines that can run do: the scheduler is fair to each of them.  A read of a closed
\* socket or a silent one fails, at the deadline at the latest; a write is only sure to fail
\* on a closed socket.  Lock() of the RWMutex holds off new readers, hence SF.
Fairness ==
  /\ \A c \in Conn :
       /\ WF_vars(QueueState(c) \/ QueuePing(c))
       /\ WF_vars(ReadFails(c))
       /\ SF_vars(RemoveClient(c))
       /\ WF_vars(Write(c))
       /\ WF_vars(c \in done /\ WriteFails(c))
       /\ WF_vars(CloseCheck(c) \/ CloseCommit(c))
  /\ \A g \in Caster :
       /\ WF_vars(BroadcastStart(g))
       /\ WF_vars(\E c \in Conn : BroadcastTo(g, c))

Spec == Init /\ [][Next]_vars

FairSpec == Spec /\ Fairness

-----------------------------------------------------------------------------
(* Properties. *)

\* The hub forgets a connection before its reader ends: who is registered is still with its
\* handler, which has yet to start the pumps, or with a reader that has yet to call
\* removeClient (client.go:50-61, 94-97).  Whether these come to it is PumpsEnd; a handler may
\* wait for ever.
RegisteredHasKeeper ==
  \A c \in hub : reader[c] \in {"reading", "leaving"} \/ handler[c] \in {"state", "ping"}

\* A broadcast only ever goes to registered connections: nobody leaves or enters the map
\* while it is walked, although all of them go on reading, failing and closing (hub.go:22-43,
\* 72-75).
BroadcastWalksTheRoom == \A g \in Caster : todo[g] \subseteq hub

\* The connection is closed, or a call of close() for it is under way.
CutOff(c) == c \in done \/ closing[c] + latched[c] > 0

\* A client misses a broadcast only if it is cut off, and so reconnects and gets the whole
\* state: a full queue never leaves it connected with a gap (hub.go:76-80, client.go:220-225).
MissedIsClosing == \A c \in missed : CutOff(c)

\* Those that were registered and are not any more.
Departed == {c \in Conn : handler[c] # "idle" /\ c \notin hub}

\* Nobody stays connected whom the hub does not know any more, or whose writer has ended: a
\* tab that hears nothing loses its socket and reconnects, whoever has taken it out of the
\* map, its own reader or the shutdown (client.go:94-97, 134-137, hub.go:95-108).
OutIsCutOff ==
  \A c \in Conn : c \in Departed \/ writer[c] = "gone" => CutOff(c)

Lifetime == INSTANCE Link WITH
              live <- hub, out <- Departed, cut <- {c \in Conn : CutOff(c)}

\* However its goroutines, the broadcasts, a kick and the shutdown interleave, a connection
\* enters the map once and leaves it once, is never reopened, and does not miss a message or
\* leave without being cut off (hub.go:22-43, 67-108, client.go:220-234).
LifetimeKept == Lifetime!Spec

\* A connection that is closed or lost is wound up: both pumps end, the socket is closed and
\* the hub forgets it.  Each pump waits for the other's deferred close().  The one thing that
\* can prevent it is a queue that broadcasts have filled before Handle has queued its two
\* messages: nothing drains it before the pumps run (client.go:52-61).
WoundUp(c) == reader[c] = "gone" /\ writer[c] = "gone" /\ c \in done \ hub

Stuck(c) == handler[c] \in {"state", "ping"} /\ Full(c)

PumpsEnd ==
  \A c \in Conn :
    handler[c] # "idle" /\ c \in done \cup lost ~> WoundUp(c) \/ Stuck(c) \/ crashed

\* No client, however slow, dead or half started, holds up a broadcast or the lock it holds.
BroadcastsEnd == \A g \in Caster : Busy(g) ~> ~Busy(g) \/ crashed

\* client.go:227-229 returns if done is closed, so that close() may be called by anybody at
\* any time: no call of it panics.
CloseIsIdempotent == ~crashed

\* A member who is kicked stops reconnecting only if told (app.js:77-82): a notice that found
\* room in the queue is lost only with the connection, which close() may end before the
\* writer gets to it (hub.go:89-90).
NoticeKept ==
  \A c \in kicked \ missed :
    c \in told \cup lost \cup done \/ \E i \in 1..Len(queue[c]) : queue[c][i] = "kicked"
=============================================================================
