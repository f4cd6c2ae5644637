-------------------------------- MODULE Tab --------------------------------
(***************************************************************************)
(* One tab of web/static/js/app.js: the rooms it opens, its connections    *)
(* and reconnections and its chat log, with the chat of the server behind  *)
(* it (chat.send in internal/websocket/client.go, AddChatMessage and       *)
(* ChatHistory in internal/database/store.go).                             *)
(*                                                                         *)
(* An action is one callback of the tab, up to its first await, or one     *)
(* statement of the server.  The events of a socket come in the order of   *)
(* the WebSocket standard: nothing is received once close() is called, and *)
(* the close event comes later, once.                                      *)
(***************************************************************************)
EXTENDS Integers, Sequences, FiniteSets, Functions

CONSTANTS Room,     \* rooms the user of the tab is a member of at first
          NoRoom,   \* room = null
          Sender,   \* connections of other users, who chat: each has a readPump of its own
          Seat,     \* the row of room_members a connection is of: its user and its room
          Limit,    \* 50: lines ChatHistory returns at most
          MaxOpens, \* bound of the model: calls of openRoom
          MaxLines  \* bound of the model: chat lines stored

ASSUME NoRoomAssumption == NoRoom \notin Room
ASSUME SeatAssumption == DOMAIN Seat = Sender /\ \A s \in Sender : Seat[s].room \in Room
ASSUME LimitAssumption == Limit \in Nat \ {0}
ASSUME BoundsAssumption == MaxOpens \in Nat /\ MaxLines \in Nat

VARIABLES screen,      \* the panel last shown: "auth", "studio", "room"
          room,        \* room
          intentional, \* intentionalDisconnect
          timer,       \* whether the timeout of reconnectTimer is yet to fire
          late,        \* timeouts yet to fire that reconnectTimer has forgotten
          socket,      \* socket: its place in sockets, 0 for null
          sockets,     \* the connections: where they are, of which room, what is on its way
          openings,    \* the calls of openRoom, suspended for the history or done
          pending,     \* the answers under way that will call openRoom
          applying     \* applyingRemoteState

VARIABLES signed, \* whether the cookies of the tab are good
          member, \* the rooms its user is a member of
          barred, \* the rows of Seat that a kick has deleted
          lines,  \* chat_messages, by the row of Seat each was sent from
          job     \* the chat.send each reader is at

VARIABLES overlaps, \* openings that found an earlier connection not yet gone
          stranded, \* whether the history of the room shown could not be had
          shown,    \* #chat-log: how often each line is in it
          excused,  \* lines the tab may miss or show twice, see EachLineOnce
          spoken    \* lines from each connection stored after its user was kicked

panel == <<screen, room, intentional>>
timeouts == <<timer, late>>
tab == <<panel, timeouts, socket, sockets, openings, pending, applying>>
chat == <<barred, lines, job>>
server == <<signed, member, chat>>
history == <<overlaps, stranded, shown, excused, spoken>>
vars == <<tab, server, history>>

-----------------------------------------------------------------------------
Slot == 1..MaxOpens

Line == 1..MaxLines

Free == [at |-> "free"]

Done == [at |-> "done"]

Idle == [at |-> "idle"]

Tested == [at |-> "tested"]

Chat(n) == [type |-> "chat.message", line |-> n]
State == [type |-> "room.state"]
Kicked == [type |-> "kicked"]

Live == {i \in Slot : sockets[i].at # "free"}

Connected == {i \in Slot : sockets[i].at = "open"}

Suspended == {o \in DOMAIN openings : openings[o] # Done}

\* What will yet connect, or reconnect, by itself.
Loops == Cardinality(Live) + Cardinality(Suspended) + late + (IF timer THEN 1 ELSE 0)

Stored(r) == {n \in DOMAIN lines : lines[n].room = r}

\* Lines stored that their sender has yet to broadcast.
InFlight == {job[s].line : s \in {t \in Sender : job[t].at = "stored"}}

TypeOK ==
  /\ screen \in {"auth", "studio", "room"} /\ room \in Room \cup {NoRoom}
  /\ {intentional, timer, signed, stranded, applying} \subseteq BOOLEAN
  /\ late \in 0..MaxOpens /\ overlaps \in 0..MaxOpens
  /\ socket \in {0} \cup Slot
  /\ \A i \in Slot :
       \/ sockets[i] = Free
       \/ /\ sockets[i].at \in {"connecting", "open", "closing"} /\ sockets[i].room \in Room
          /\ sockets[i].feed \in Seq({State, Kicked} \cup {Chat(n) : n \in Line})
          /\ sockets[i].at # "open" => sockets[i].feed = <<>>
  /\ Len(openings) <= MaxOpens
  /\ \A o \in DOMAIN openings :
       \/ openings[o] = Done
       \/ openings[o].at = "asking" /\ openings[o].room \in Room
       \/ openings[o].at = "answered" /\ openings[o].lines \subseteq Line
  /\ pending \subseteq Room /\ member \subseteq Room /\ barred \subseteq Range(Seat)
  /\ lines \in Seq(Range(Seat)) /\ Len(lines) <= MaxLines
  /\ shown \in [Line -> Nat] /\ excused \subseteq Line /\ spoken \in [Sender -> 0..MaxLines]
  /\ \A s \in Sender :
       \/ job[s] = Idle
       \/ job[s].at = "tested"
       \/ job[s].at = "stored" /\ job[s].line \in DOMAIN lines

Init ==
  /\ screen = "studio" /\ room = NoRoom /\ intentional = FALSE
  /\ timer = FALSE /\ late = 0 /\ socket = 0
  /\ sockets = [i \in Slot |-> Free]
  /\ openings = <<>> /\ pending = {} /\ applying = FALSE
  /\ signed = TRUE /\ member = Room /\ barred = {}
  /\ lines = <<>> /\ job = [s \in Sender |-> Idle]
  /\ overlaps = 0 /\ stranded = FALSE
  /\ shown = [n \in Line |-> 0] /\ excused = {} /\ spoken = [s \in Sender |-> 0]

-----------------------------------------------------------------------------
(* Opening a room. *)

\* A click on a room, an invite or a new room: all end in openRoom, and until then the user
\* may do something else, or ask again.  An invite makes the user a member.
Ask(r) ==
  /\ screen = "studio" /\ signed
  /\ Len(openings) + Cardinality(pending) < MaxOpens
  /\ pending' = pending \cup {r}
  /\ member' \in {member, member \cup {r}}
  /\ UNCHANGED <<panel, timeouts, socket, sockets, openings, applying, signed, chat, history>>

\* close() of the current socket; what has not been received is not going to be.
SocketClosed ==
  IF socket # 0 /\ sockets[socket].at # "free"
  THEN [sockets EXCEPT ![socket].at = "closing", ![socket].feed = <<>>]
  ELSE sockets

\* Mutant: the timeout of an earlier disconnection left alone.
OpenRoomOverTimer(r) ==
  /\ r \in pending /\ pending' = pending \ {r}
  /\ UNCHANGED timeouts
  /\ sockets' = SocketClosed
  /\ room' = r /\ intentional' = FALSE /\ screen' = "room"
  /\ openings' = Append(openings, [at |-> "asking", room |-> r])
  /\ overlaps' = IF Live \cup Suspended # {} \/ late > 0 THEN overlaps + 1 ELSE overlaps
  /\ stranded' = FALSE /\ excused' = {}
  /\ shown' = [n \in Line |-> 0]
  /\ UNCHANGED <<socket, applying, server, spoken>>

\* intentionalDisconnect is true only until the next line of openRoom: the close event of the
\* socket it closes will find it false again.
OpenRoom(r) ==
  /\ r \in pending /\ pending' = pending \ {r}
  /\ timer' = FALSE
  /\ sockets' = SocketClosed
  /\ room' = r /\ intentional' = FALSE /\ screen' = "room"
  /\ openings' = Append(openings, [at |-> "asking", room |-> r])
  /\ overlaps' = IF Live \cup Suspended # {} \/ late > 0 THEN overlaps + 1 ELSE overlaps
  /\ stranded' = FALSE /\ excused' = {}
  /\ shown' = [n \in Line |-> 0]
  /\ UNCHANGED <<late, socket, applying, server, spoken>>

\* Mutant: ORDER BY created_at without DESC.
ChatHistoryOldest(r) ==
  IF r \in member THEN {n \in Stored(r) : Cardinality({m \in Stored(r) : m < n}) < Limit} ELSE {}

\* The newest lines, and nothing for somebody who is not a member.
ChatHistory(r) ==
  IF r \in member THEN {n \in Stored(r) : Cardinality({m \in Stored(r) : m > n}) < Limit} ELSE {}

\* Lines the history does not reach.
OutOfReach(r) ==
  {n \in Stored(r) : r \notin member \/ Cardinality({m \in Stored(r) : m > n}) >= Limit}

AnswerHistory(o) ==
  /\ openings[o].at = "asking" /\ signed
  /\ openings' = [openings EXCEPT ![o] =
       [at |-> "answered", lines |-> ChatHistory(openings[o].room)]]
  /\ excused' = excused \cup OutOfReach(openings[o].room) \cup InFlight
  /\ UNCHANGED <<panel, timeouts, socket, sockets, pending, applying, server, overlaps,
                 stranded, shown, spoken>>

\* The rejection of openRoom is caught by nobody.
HistoryFails(o) ==
  /\ openings[o].at = "asking"
  /\ openings' = [openings EXCEPT ![o] = Done]
  /\ stranded' = (stranded \/ o = Len(openings))
  /\ UNCHANGED <<panel, timeouts, socket, sockets, pending, applying, server, overlaps, shown,
                 excused, spoken>>

\* Mutant: intentionalDisconnect is not looked at.
ConnectSocketAnyway ==
  IF room = NoRoom
  THEN UNCHANGED <<socket, sockets>>
  ELSE \E i \in Slot :
         /\ sockets[i] = Free /\ socket' = i
         /\ sockets' = [sockets EXCEPT ![i] = [at |-> "connecting", room |-> room, feed |-> <<>>]]

ConnectSocket ==
  IF room = NoRoom \/ intentional
  THEN UNCHANGED <<socket, sockets>>
  ELSE \E i \in Slot :
         /\ sockets[i] = Free /\ socket' = i
         /\ sockets' = [sockets EXCEPT ![i] = [at |-> "connecting", room |-> room, feed |-> <<>>]]

\* openRoom goes on, whatever room it is by now; without a room it throws at player.src.
Resume(o) ==
  /\ openings[o].at = "answered"
  /\ openings' = [openings EXCEPT ![o] = Done]
  /\ shown' = [n \in Line |-> IF n \in openings[o].lines THEN shown[n] + 1 ELSE shown[n]]
  /\ ConnectSocket
  /\ UNCHANGED <<panel, timeouts, pending, applying, server, overlaps, stranded, excused, spoken>>

-----------------------------------------------------------------------------
(* Connections. *)

\* Handle: members are accepted, and get the state of the room first.
Accept(i) ==
  /\ sockets[i].at = "connecting" /\ signed /\ sockets[i].room \in member
  /\ sockets' = [sockets EXCEPT ![i].at = "open", ![i].feed = <<State>>]
  /\ UNCHANGED <<panel, timeouts, socket, openings, pending, applying, server, history>>

\* Refused, or lost with what is on its way.
Ends(i) ==
  /\ sockets[i].at \in {"connecting", "open"}
  /\ sockets' = [sockets EXCEPT ![i].at = "closing", ![i].feed = <<>>]
  /\ excused' = excused \cup {n \in Line : Chat(n) \in Range(sockets[i].feed)}
  /\ UNCHANGED <<panel, timeouts, socket, openings, pending, applying, server, overlaps,
                 stranded, shown, spoken>>

\* Mutant: no reconnection.
CloseEventForGood(i) ==
  /\ sockets[i].at = "closing"
  /\ sockets' = [sockets EXCEPT ![i] = Free]
  /\ socket' = IF socket = i THEN 0 ELSE socket
  /\ UNCHANGED <<panel, timeouts, openings, pending, applying, server, history>>

\* Mutant: onerror starts a reconnection, and onclose another.
CloseEventTwice(i) ==
  /\ sockets[i].at = "closing"
  /\ sockets' = [sockets EXCEPT ![i] = Free]
  /\ socket' = IF socket = i THEN 0 ELSE socket
  /\ IF intentional \/ room = NoRoom
     THEN UNCHANGED <<timer, late>>
     ELSE timer' = TRUE /\ late' = IF timer THEN late + 2 ELSE late + 1
  /\ UNCHANGED <<panel, openings, pending, applying, server, history>>

\* onclose, of whichever socket.  A closed socket is as good as none: its place is free.
CloseEvent(i) ==
  /\ sockets[i].at = "closing"
  /\ sockets' = [sockets EXCEPT ![i] = Free]
  /\ socket' = IF socket = i THEN 0 ELSE socket
  /\ IF intentional \/ room = NoRoom
     THEN UNCHANGED <<timer, late>>
     ELSE timer' = TRUE /\ late' = IF timer THEN late + 1 ELSE late
  /\ UNCHANGED <<panel, openings, pending, applying, server, history>>

TimerFires ==
  /\ \/ timer /\ timer' = FALSE /\ UNCHANGED late
     \/ late > 0 /\ late' = late - 1 /\ UNCHANGED timer
  /\ ConnectSocket
  /\ UNCHANGED <<panel, openings, pending, applying, server, history>>

-----------------------------------------------------------------------------
(* Messages. *)

Arrives(i, type) ==
  sockets[i].at = "open" /\ sockets[i].feed # <<>> /\ Head(sockets[i].feed).type = type

Shifted(i) == [sockets EXCEPT ![i].feed = Tail(@)]

\* room.state: renderRoomControls is not a function here, so handleMessage throws before
\* it comes to take applyingRemoteState back.
ReceiveState(i) ==
  /\ Arrives(i, "room.state")
  /\ applying' = TRUE
  /\ sockets' = Shifted(i)
  /\ UNCHANGED <<panel, timeouts, socket, openings, pending, server, history>>

ReceiveChat(i) ==
  /\ Arrives(i, "chat.message")
  /\ shown' = [shown EXCEPT ![Head(sockets[i].feed).line] = @ + 1]
  /\ sockets' = Shifted(i)
  /\ UNCHANGED <<panel, timeouts, socket, openings, pending, applying, server, overlaps,
                 stranded, excused, spoken>>

\* The notice of a kick: whichever socket brings it, the current one is closed.
ReceiveKicked(i) ==
  /\ Arrives(i, "kicked")
  /\ intentional' = TRUE /\ screen' = "studio"
  /\ sockets' = IF socket = i THEN SocketClosed ELSE [SocketClosed EXCEPT ![i].feed = Tail(@)]
  /\ UNCHANGED <<room, timeouts, socket, openings, pending, applying, server, history>>

-----------------------------------------------------------------------------
(* The user. *)

\* What the listeners of the player look at, between two callbacks, before they send.
Sends == ~applying /\ socket \in Connected

Leave ==
  /\ screen = "room"
  /\ intentional' = TRUE /\ timer' = FALSE /\ screen' = "studio"
  /\ sockets' = SocketClosed
  /\ UNCHANGED <<room, late, socket, openings, pending, applying, server, history>>

\* The button is on the studio panel, which a late loadStudio shows beside a room.  The request
\* and what follows its answer are one step; a pending timeout is left alone.
Logout ==
  /\ screen \in {"studio", "room"} /\ signed
  /\ intentional' = TRUE /\ room' = NoRoom /\ screen' = "auth" /\ signed' = FALSE
  /\ sockets' = SocketClosed
  /\ UNCHANGED <<timeouts, socket, openings, pending, applying, member, chat, history>>

Login ==
  /\ screen = "auth"
  /\ screen' = "studio" /\ signed' = TRUE
  /\ UNCHANGED <<room, intentional, timeouts, socket, sockets, openings, pending, applying,
                 member, chat, history>>

-----------------------------------------------------------------------------
(* The server. *)

\* Mutant: a sender is not looked up among the members.
SendTestNobody(s) ==
  /\ job[s] = Idle
  /\ job' = [job EXCEPT ![s] = Tested]
  /\ UNCHANGED <<tab, signed, member, barred, lines, history>>

\* A reader comes to chat.send.  AddChatMessage, first statement: is its user a member?
SendTest(s) ==
  /\ job[s] = Idle /\ Seat[s] \notin barred
  /\ job' = [job EXCEPT ![s] = Tested]
  /\ UNCHANGED <<tab, signed, member, barred, lines, history>>

\* AddChatMessage, second statement.
Insert(s) ==
  /\ job[s] = Tested /\ Len(lines) < MaxLines
  /\ lines' = Append(lines, Seat[s])
  /\ job' = [job EXCEPT ![s] = [at |-> "stored", line |-> Len(lines')]]
  /\ spoken' = IF Seat[s] \in barred THEN [spoken EXCEPT ![s] = @ + 1] ELSE spoken
  /\ UNCHANGED <<tab, signed, member, barred, overlaps, stranded, shown, excused>>

InsertFails(s) ==
  /\ job[s] = Tested
  /\ job' = [job EXCEPT ![s] = Idle]
  /\ UNCHANGED <<tab, signed, member, barred, lines, history>>

\* The line goes to every connection of the room there is.
BroadcastChat(s) ==
  LET n    == job[s].line
      here == {i \in Connected : sockets[i].room = lines[n].room}
  IN  /\ job[s].at = "stored"
      /\ job' = [job EXCEPT ![s] = Idle]
      /\ sockets' = [i \in Slot |->
           IF i \in here THEN [sockets[i] EXCEPT !.feed = Append(@, Chat(n))] ELSE sockets[i]]
      /\ excused' = IF here = {} /\ \A o \in DOMAIN openings : openings[o].at # "asking"
                    THEN excused \cup {n} ELSE excused
      /\ UNCHANGED <<panel, timeouts, socket, openings, pending, applying, signed, member,
                     barred, lines, overlaps, stranded, shown, spoken>>

\* KickMember, with all the connections its user may have in the room.  That he comes back by
\* the invite is left out.
KickSender(seat) ==
  /\ barred' = barred \cup {seat}
  /\ UNCHANGED <<tab, signed, member, lines, job, history>>

\* kickHandler: the user of the tab is removed, and his connections are told.
KickUser(r) ==
  /\ r \in member /\ member' = member \ {r}
  /\ sockets' = [i \in Slot |-> IF i \in Connected /\ sockets[i].room = r
                                THEN [sockets[i] EXCEPT !.feed = Append(@, Kicked)]
                                ELSE sockets[i]]
  /\ UNCHANGED <<panel, timeouts, socket, openings, pending, applying, signed, chat, history>>

-----------------------------------------------------------------------------
Next ==
  \/ \E r \in Room : Ask(r) \/ OpenRoom(r) \/ KickUser(r)
  \/ \E o \in DOMAIN openings : AnswerHistory(o) \/ HistoryFails(o) \/ Resume(o)
  \/ \E i \in Slot :
       \/ Accept(i) \/ Ends(i) \/ CloseEvent(i)
       \/ ReceiveState(i) \/ ReceiveChat(i) \/ ReceiveKicked(i)
  \/ TimerFires \/ Leave \/ Logout \/ Login
  \/ \E s \in Sender : SendTest(s) \/ Insert(s) \/ InsertFails(s) \/ BroadcastChat(s)
  \/ \E seat \in Range(Seat) : KickSender(seat)

Spec == Init /\ [][Next]_vars

-----------------------------------------------------------------------------
(* Properties. *)

\* The tab has one connection, or one attempt at it, for the room it shows, and one more only
\* for an openRoom that did not wait for an earlier connection to go: the close event of that
\* one reconnects as well (app.js:30 undoes line 27 before onclose looks at it).
StraysComeOfOverlap == Loops <= 1 + overlaps

\* A tab that shows a room is connected to it or going to be, however often it is cut off,
\* unless its history could not be had (app.js:32, 42-49).
ShownRoomIsAlive == screen = "room" /\ ~stranded => Loops > 0

\* Once a tab has left its room, been kicked or signed out, nothing still under way, a timeout,
\* a close event or an openRoom waiting for its history, connects it again (app.js:37).  What
\* it leaves behind are the connections of openings that overlapped, one for each at most: only
\* the current one is closed (app.js:21, 80, 95).
LeftKeepsOnlyStrays ==
  screen # "room" => Cardinality({i \in Live : sockets[i].at # "closing"}) <= overlaps

\* When nothing is under way, and no openings have overlapped, each line of the room is in the
\* chat log once and no line of another room is.  Excused are lines further back than the
\* history goes, lines stored but not yet broadcast when the history was read (app.js:32), and
\* lines broadcast while the tab had no connection (reconnecting reads no history) or lost with
\* it.
EachLineOnce ==
  /\ screen = "room" /\ overlaps = 0 /\ ~stranded
  /\ Suspended = {} /\ socket \in Connected /\ sockets[socket].feed = <<>>
  /\ \A s \in Sender : job[s].at # "stored"
  => \A n \in DOMAIN lines :
       \/ n \in excused
       \/ shown[n] = IF lines[n].room = room THEN 1 ELSE 0

\* The test and the INSERT of a chat line are two statements (store.go:384, 392), and every
\* connection has a reader of its own: a kick lets one line through from each connection the
\* kicked user has in the room, and no more.
KickedSaysOneEach == \A s \in Sender : spoken[s] <= 1

\* README.md:3 promises "synchronizing video playback": what the user of a connected tab does
\* with the player reaches the server once the tab has acted on what it has received
\* (app.js:70 is there to see to that).
OwnActionsAreSent ==
  screen = "room" /\ socket \in Connected /\ sockets[socket].feed = <<>> => Sends
=============================================================================
