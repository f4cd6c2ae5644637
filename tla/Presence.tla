------------------------------ MODULE Presence ------------------------------
(***************************************************************************)
(* Who is in a room, and for how long: the presence lists of               *)
(* internal/websocket/hub.go and the pings, pongs and deadlines of         *)
(* internal/websocket/client.go, in discrete time.                         *)
(*                                                                         *)
(* A list is built under one RLock and broadcast under another, by a       *)
(* goroutine for every connection that joins, leaves or measures its ping. *)
(* It is built connection by connection, while pings change; one list is   *)
(* built at a time here, since walks that share the lock do not see each   *)
(* other.  What happens inside a broadcast and how a connection is closed  *)
(* is in Hub; a broadcast is one step here.                                *)
(***************************************************************************)
EXTENDS Integers, Functions

CONSTANTS User,       \* accounts
          Conn,       \* places for connections, each of a user
          RoundTrip,  \* what a pong may say a ping has taken, in milliseconds
          Ponger,     \* peers that send WebSocket pongs, which no browser does by itself
          PongWait,   \* pongWait, in ticks
          MaxTasks    \* bound: goroutines of broadcastPresence a join or a pong may find at work

ASSUME PongWaitAssumption == PongWait \in Nat /\ PongWait * 9 >= 10
\* The 0 ms of a connection nobody has measured is told from a time.
ASSUME RoundTripAssumption == RoundTrip \subseteq Int \ {0}

VARIABLES user,     \* Client.userID
          hub,      \* Hub.clients of the room
          ping,     \* Client.pingMS
          reader,   \* readPump: "none", "starting", "reading"
          deadline, \* ticks until the read deadline
          beat,     \* ticks until the ticker of writePump fires
          gone,     \* connections whose peer has gone away
          building, \* goroutines of broadcastPresence that have yet to build their list
          lists     \* those that have built it, by the users on it

VARIABLES walking, \* whether a list is being built, under the hub's lock
          todo,    \* the connections it has yet to come to
          list     \* users: the ping of each user so far

VARIABLES asked, \* connections that have not answered their last ping
          knows, \* connections offered the present users since one last came or went
          met    \* what the walk has met: the ping and the reader of each connection

timers == <<deadline, beat>>
tasks == <<building, lists>>
walk == <<walking, todo, list, met>>
vars == <<user, hub, ping, reader, timers, gone, tasks, walk, asked, knows>>

-----------------------------------------------------------------------------
\* pingPeriod = (pongWait * 9) / 10
PingPeriod == (PongWait * 9) \div 10

MaxPing == 60000

Users == {user[c] : c \in hub}

AtWork == building + SumFunction(lists) + (IF walking THEN 1 ELSE 0)

TypeOK ==
  /\ user \in [Conn -> User]
  /\ hub = {c \in Conn : reader[c] # "none"}
  /\ ping \in [Conn -> RoundTrip \cup {0, -1}]
  /\ reader \in [Conn -> {"none", "starting", "reading"}]
  /\ \A c \in Conn : deadline[c] \in 0..PongWait /\ beat[c] \in 0..PingPeriod
  /\ gone \subseteq hub /\ asked \subseteq hub /\ knows \subseteq Conn
  /\ building \in Nat /\ lists \in [SUBSET User -> Nat]
  /\ walking \in BOOLEAN /\ todo \subseteq hub
  /\ DOMAIN list \subseteq User /\ \A u \in DOMAIN list : list[u] \in RoundTrip \cup {0, -1}
  /\ DOMAIN met = IF walking THEN hub \ todo ELSE {}

Init ==
  /\ user \in [Conn -> User]
  /\ hub = {}
  /\ ping = [c \in Conn |-> 0]
  /\ reader = [c \in Conn |-> "none"]
  /\ deadline = [c \in Conn |-> PongWait]
  /\ beat = [c \in Conn |-> PingPeriod]
  /\ gone = {}
  /\ building = 0 /\ lists = [l \in SUBSET User |-> 0]
  /\ walking = FALSE /\ todo = {} /\ list = <<>> /\ met = <<>>
  /\ asked = {} /\ knows = {}

-----------------------------------------------------------------------------
(* Connections. *)

\* go broadcastPresence
Started == building' = building + 1 /\ UNCHANGED lists

\* addClient, once it has the lock: the ping of a new Client is 0.
AddClient(c) ==
  /\ reader[c] = "none" /\ ~walking /\ AtWork < MaxTasks
  /\ reader' = [reader EXCEPT ![c] = "starting"]
  /\ hub' = hub \cup {c}
  /\ Started
  /\ knows' = {}
  /\ UNCHANGED <<user, ping, timers, gone, walk, asked>>

\* Mutant: pingMS left at its zero value.
StartPumpsAtZero(c) ==
  /\ reader[c] = "starting"
  /\ reader' = [reader EXCEPT ![c] = "reading"]
  /\ asked' = asked \cup {c}
  /\ UNCHANGED <<user, hub, ping, timers, gone, tasks, walk, knows>>

\* The pumps start: the deadline and the ticker run, and the ping Handle has queued goes out.
StartPumps(c) ==
  /\ reader[c] = "starting"
  /\ reader' = [reader EXCEPT ![c] = "reading"]
  /\ ping' = [ping EXCEPT ![c] = -1]
  /\ asked' = asked \cup {c}
  /\ UNCHANGED <<user, hub, timers, gone, tasks, walk, knows>>

\* A time is stored and told to the room.
Measured(c, ms) ==
  /\ AtWork < MaxTasks
  /\ ping' = [ping EXCEPT ![c] = ms]
  /\ Started

\* presence.pong, the answer of the tab: a time within a minute counts, and the deadline
\* stays where it is.
ReadPong(c, ms) ==
  /\ reader[c] = "reading" /\ c \notin gone
  /\ IF ms \in 0..MaxPing THEN Measured(c, ms) ELSE UNCHANGED <<ping, tasks>>
  /\ asked' = asked \ {c}
  /\ UNCHANGED <<user, hub, reader, timers, gone, walk, knows>>

\* A WebSocket pong: any time its payload names counts, and the deadline moves.
ReadControlPong(c) ==
  /\ c \in Ponger /\ reader[c] = "reading" /\ c \notin gone
  /\ \/ \E ms \in RoundTrip : Measured(c, ms)
     \/ UNCHANGED <<ping, tasks>>
  /\ deadline' = [deadline EXCEPT ![c] = PongWait]
  /\ UNCHANGED <<user, hub, reader, beat, gone, walk, asked, knows>>

\* The peer goes away, and the network may or may not say so.
Lose(c) ==
  /\ reader[c] \in {"starting", "reading"}
  /\ gone' = gone \cup {c}
  /\ UNCHANGED <<user, hub, ping, reader, timers, tasks, walk, asked, knows>>

\* removeClient has the lock; the place of the connection is free for another one.
Vacate(c) ==
  /\ ~walking
  /\ reader' = [reader EXCEPT ![c] = "none"]
  /\ ping' = [ping EXCEPT ![c] = 0]
  /\ deadline' = [deadline EXCEPT ![c] = PongWait]
  /\ beat' = [beat EXCEPT ![c] = PingPeriod]
  /\ gone' = gone \ {c}
  /\ asked' = asked \ {c}

\* Mutant: the list built before the client is deleted, with it.
RemoveClientAfterList(c) ==
  /\ Vacate(c)
  /\ hub' = hub \ {c}
  /\ lists' = [lists EXCEPT ![Users] = @ + 1]
  /\ knows' = {}
  /\ UNCHANGED <<user, building, walk>>

\* Mutant: a reader that ends without taking its client out.
RemoveClientNotDeleted(c) ==
  /\ Vacate(c)
  /\ Started
  /\ knows' = {}
  /\ UNCHANGED <<user, hub, walk>>

RemoveClient(c) ==
  /\ Vacate(c)
  /\ hub' = hub \ {c}
  /\ Started
  /\ knows' = {}
  /\ UNCHANGED <<user, walk>>

\* The network says that the peer has gone, or the deadline has passed.
ReadFails(c) ==
  /\ reader[c] = "reading"
  /\ c \in gone \/ deadline[c] = 0
  /\ RemoveClient(c)

\* Mutant: whoever is sent a ping is given another pongWait to answer.
SendPingAndWait(c) ==
  /\ reader[c] = "reading" /\ beat[c] = 0
  /\ beat' = [beat EXCEPT ![c] = PingPeriod]
  /\ deadline' = [deadline EXCEPT ![c] = PongWait]
  /\ asked' = asked \cup {c}
  /\ UNCHANGED <<user, hub, ping, reader, gone, tasks, walk, knows>>

\* The ticker of writePump: a ping as a JSON message.
SendPing(c) ==
  /\ reader[c] = "reading" /\ beat[c] = 0
  /\ beat' = [beat EXCEPT ![c] = PingPeriod]
  /\ asked' = asked \cup {c}
  /\ UNCHANGED <<user, hub, ping, reader, deadline, gone, tasks, walk, knows>>

\* Time passes, but not beyond a timer that is due.
Tick ==
  LET running == {c \in Conn : reader[c] = "reading"}
  IN  /\ running # {}
      /\ \A c \in running : deadline[c] > 0 /\ beat[c] > 0
      /\ deadline' = [c \in Conn |-> IF c \in running THEN deadline[c] - 1 ELSE deadline[c]]
      /\ beat' = [c \in Conn |-> IF c \in running THEN beat[c] - 1 ELSE beat[c]]
      /\ UNCHANGED <<user, hub, ping, reader, gone, tasks, walk, asked, knows>>

-----------------------------------------------------------------------------
(* broadcastPresence. *)

\* Mutant: an unmeasured ping, -1, wins over a measured one.
MergeLeast(users, c) ==
  IF user[c] \notin DOMAIN users \/ ping[c] < users[user[c]]
  THEN [u \in DOMAIN users \cup {user[c]} |-> IF u = user[c] THEN ping[c] ELSE users[u]]
  ELSE users

\* One turn of the loop of participants: of the connections of a user the first counts, until
\* a better one comes.
Merge(users, c) ==
  IF \/ user[c] \notin DOMAIN users
     \/ ping[c] >= 0 /\ (users[user[c]] < 0 \/ ping[c] < users[user[c]])
  THEN [u \in DOMAIN users \cup {user[c]} |-> IF u = user[c] THEN ping[c] ELSE users[u]]
  ELSE users

\* participants takes the lock.
StartList ==
  /\ building > 0 /\ ~walking
  /\ building' = building - 1
  /\ walking' = TRUE /\ todo' = hub /\ list' = <<>> /\ met' = <<>>
  /\ UNCHANGED <<user, hub, ping, reader, timers, gone, lists, asked, knows>>

\* A turn of its loop: the map is walked in any order, and the ping of a connection read as it
\* is when its turn comes.
LoadPing(c) ==
  /\ c \in todo /\ todo' = todo \ {c}
  /\ list' = Merge(list, c)
  /\ met' = [d \in DOMAIN met \cup {c} |->
                IF d = c THEN [ms |-> ping[c], reader |-> reader[c]] ELSE met[d]]
  /\ UNCHANGED <<user, hub, ping, reader, timers, gone, tasks, walking, asked, knows>>

\* It returns: of the list in hand only the users matter to what follows.
EndList ==
  /\ walking /\ todo = {}
  /\ lists' = [lists EXCEPT ![DOMAIN list] = @ + 1]
  /\ walking' = FALSE /\ list' = <<>> /\ met' = <<>>
  /\ UNCHANGED <<user, hub, ping, reader, timers, gone, building, todo, asked, knows>>

Broadcast(users) ==
  /\ lists[users] > 0
  /\ lists' = [lists EXCEPT ![users] = @ - 1]
  /\ knows' = IF users = Users THEN knows \cup hub ELSE knows
  /\ UNCHANGED <<user, hub, ping, reader, timers, gone, building, walk, asked>>

-----------------------------------------------------------------------------
Next ==
  \/ \E c \in Conn :
       \/ AddClient(c) \/ StartPumps(c)
       \/ \E ms \in RoundTrip : ReadPong(c, ms)
       \/ ReadControlPong(c)
       \/ Lose(c) \/ ReadFails(c) \/ SendPing(c) \/ LoadPing(c)
  \/ StartList \/ EndList
  \/ \E users \in SUBSET User : Broadcast(users)
  \/ Tick

\* Time passes, the pumps of a connection run, and a list begun is finished; nothing is assumed
\* of the peers.  A reader that waits for the lock gets it between two lists: a waiting Lock()
\* of an RWMutex holds off new readers.
Fairness ==
  /\ WF_vars(Tick) /\ WF_vars(EndList)
  /\ \A c \in Conn :
       /\ WF_vars(StartPumps(c)) /\ WF_vars(SendPing(c)) /\ WF_vars(LoadPing(c))
       /\ SF_vars(deadline[c] = 0 /\ ReadFails(c))

Spec == Init /\ [][Next]_vars

FairSpec == Spec /\ Fairness

-----------------------------------------------------------------------------
(* Properties. *)

\* The pings measured on the connections of u, as the walk met them.
Measurements(u) == {met[c].ms : c \in {d \in DOMAIN met : user[d] = u /\ met[d].ms >= 0}}

\* A list names everybody in the room with the least of his pings, in whatever order the map
\* is walked, however many tabs he has open and whatever is measured meanwhile; a tab shows
\* "connecting" for anything below 0 (hub.go:52-58, app.js:74).
ListIsTheRoom ==
  walking /\ todo = {} =>
    /\ DOMAIN list = Users
    /\ \A u \in Users :
         IF Measurements(u) = {} THEN list[u] < 0
         ELSE list[u] \in Measurements(u) /\ \A ms \in Measurements(u) : list[u] <= ms

\* A time is only shown for somebody if a pong has brought it, or if it is the 0 of a
\* connection whose reader had not run yet (client.go:105 comes after hub.go:30, and
\* app.js:74 means to show "connecting").
TimesAreMeasured ==
  walking => \A u \in DOMAIN list :
    list[u] >= 0 => \/ list[u] \in RoundTrip
                    \/ \E c \in DOMAIN met : user[c] = u /\ met[c].reader = "starting"

\* Once all is said, everybody in the room has been offered the list of those who are in it,
\* though an older list may have come after it (hub.go:46).
EverybodyIsTold ==
  building = 0 /\ ~walking /\ (\A l \in SUBSET User : lists[l] = 0) => hub \subseteq knows

\* A peer that has gone is out of the room at its deadline, if it is not noticed before.
GoneIsRemoved == \A c \in Conn : c \in gone ~> c \notin gone

\* client.go:18-20 sends a ping before the wait for pongs is over, app.js:72 answers each
\* one: a peer that is there and has answered every ping is not cut off.
AnsweringPeerStays == [][\A c \in Conn : ReadFails(c) => c \in gone \cup asked]_vars
=============================================================================
