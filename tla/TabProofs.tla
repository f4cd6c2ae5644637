----------------------------- MODULE TabProofs -----------------------------
(***************************************************************************)
(* Proofs about Tab, for any rooms, senders and bounds: how many           *)
(* connections a tab has, that it never gives up on the room it shows,     *)
(* that leaving a room leaves only strays behind, and how much somebody    *)
(* who was kicked still says.                                              *)
(***************************************************************************)
EXTENDS Tab, FiniteSetTheorems, TLAPS

Msg == {State, Kicked} \cup {Chat(n) : n \in Line}

\* Sockets through which nothing comes, and those through which something may.
Waiting == [at: {"connecting", "closing"}, room: Room, feed: {<<>>}]

Open == [at: {"open"}, room: Room, feed: Seq(Msg)]

Socket == {Free} \cup Waiting \cup Open

Opening == {Done} \cup [at: {"asking"}, room: Room] \cup [at: {"answered"}, lines: SUBSET Line]

\* What chat.send may be doing when n lines are stored.
JobAfter(n) == {Idle, Tested} \cup [at: {"stored"}, line: 1..n]

PanelOK ==
  /\ screen \in {"auth", "studio", "room"} /\ room \in Room \cup {NoRoom}
  /\ intentional \in BOOLEAN /\ signed \in BOOLEAN /\ stranded \in BOOLEAN /\ applying \in BOOLEAN
  /\ timer \in BOOLEAN /\ late \in Nat /\ overlaps \in Nat
  /\ socket \in {0} \cup Slot

PendingOK ==
  /\ pending \subseteq Room /\ member \subseteq Room /\ IsFiniteSet(pending)
  /\ Len(openings) + Cardinality(pending) <= MaxOpens

ChatOK ==
  /\ barred \subseteq Range(Seat)
  /\ lines \in Seq(Range(Seat)) /\ Len(lines) <= MaxLines
  /\ job \in [Sender -> JobAfter(Len(lines))]
  /\ shown \in [Line -> Nat] /\ excused \subseteq Line
  /\ spoken \in [Sender -> 0..Len(lines)]

SocketsOK == sockets \in [Slot -> Socket]

OpeningsOK == openings \in Seq(Opening)

Typed == PanelOK /\ PendingOK /\ ChatOK /\ SocketsOK /\ OpeningsOK

-----------------------------------------------------------------------------
(* Sockets. *)

LEMMA SocketAt ==
  ASSUME NEW x \in Socket
  PROVE  /\ x.at = "free" <=> x = Free
         /\ x.at \in {"connecting", "closing"} <=> x \in Waiting
         /\ x.at = "open" <=> x \in Open
<1>1. Free.at = "free"
  BY DEF Free
<1>2. \A y \in Waiting : y.at \in {"connecting", "closing"}
  BY DEF Waiting
<1>3. \A y \in Open : y.at = "open"
  BY DEF Open
<1>4. QED
  BY <1>1, <1>2, <1>3 DEF Socket

LEMMA Emptied ==
  ASSUME NEW x \in Waiting \cup Open
  PROVE  LET y == [x EXCEPT !.at = "closing", !.feed = <<>>]
         IN  y \in Waiting /\ y.at = "closing" /\ y.room = x.room
  BY DEF Waiting, Open

LEMMA Opened ==
  ASSUME NEW x \in Waiting
  PROVE  LET y == [x EXCEPT !.at = "open", !.feed = <<State>>]
         IN  y \in Open
<1>1. <<State>> \in Seq(Msg)
  BY DEF Msg
<1>2. QED
  BY <1>1 DEF Waiting, Open

LEMMA Fed ==
  ASSUME NEW x \in Open, NEW m \in Msg
  PROVE  [x EXCEPT !.feed = Append(@, m)] \in Open
<1>1. Append(x.feed, m) \in Seq(Msg)
  BY DEF Open
<1>2. QED
  BY <1>1 DEF Open

LEMMA Taken ==
  ASSUME NEW x \in Open, x.feed # <<>>
  PROVE  [x EXCEPT !.feed = Tail(@)] \in Open
<1>1. Tail(x.feed) \in Seq(Msg)
  BY DEF Open
<1>2. QED
  BY <1>1 DEF Open

\* The connection that SocketClosed closes stays in its place until its close event.
LEMMA ClosedSocket ==
  ASSUME PanelOK, SocketsOK, NEW x, x = SocketClosed
  PROVE  /\ x \in [Slot -> Socket]
         /\ \A i \in Slot : x[i].at # "free" <=> sockets[i].at # "free"
         /\ \A i \in Slot : i # socket => x[i] = sockets[i]
         /\ socket \in Slot /\ sockets[socket].at # "free" => x[socket].at = "closing"
<1>1. CASE socket # 0 /\ sockets[socket].at # "free"
  <2>1. socket \in Slot /\ sockets[socket] \in Waiting \cup Open
    BY <1>1, SocketAt DEF PanelOK, SocketsOK, Socket, Free
  <2>2. DEFINE y == [sockets[socket] EXCEPT !.at = "closing", !.feed = <<>>]
  <2>3. y \in Waiting /\ y.at = "closing"
    BY <2>1, Emptied
  <2>4. x = [sockets EXCEPT ![socket] = y]
    BY <1>1 DEF SocketClosed
  <2>5. x \in [Slot -> Socket] /\ x[socket] = y /\ \A i \in Slot : i # socket => x[i] = sockets[i]
    BY <2>1, <2>3, <2>4 DEF SocketsOK, Socket
  <2>6. QED
    BY <2>3, <2>5, <1>1
<1>2. CASE ~(socket # 0 /\ sockets[socket].at # "free")
  <2>1. x = sockets
    BY <1>2 DEF SocketClosed
  <2>2. QED
    BY <1>2, <2>1 DEF SocketsOK, Slot
<1>3. QED
  BY <1>1, <1>2

LEMMA Connecting ==
  ASSUME PanelOK, SocketsOK, ConnectSocket
  PROVE  /\ SocketsOK' /\ socket' \in {0} \cup Slot
         /\ \/ (room = NoRoom \/ intentional) /\ UNCHANGED <<socket, sockets>>
            \/ /\ room # NoRoom /\ ~intentional
               /\ socket' \in Slot /\ socket' \notin Live /\ Live' = Live \cup {socket'}
<1>1. CASE room = NoRoom \/ intentional
  BY <1>1 DEF ConnectSocket, PanelOK, SocketsOK
<1>2. CASE ~(room = NoRoom \/ intentional)
  <2>1. PICK i \in Slot : /\ sockets[i] = Free /\ socket' = i
                          /\ sockets' = [sockets EXCEPT ![i] =
                                [at |-> "connecting", room |-> room, feed |-> <<>>]]
    BY <1>2 DEF ConnectSocket
  <2>2. DEFINE y == [at |-> "connecting", room |-> room, feed |-> <<>>]
  <2>3. y \in Waiting /\ y.at # "free"
    BY <1>2 DEF Waiting, PanelOK
  <2>4. /\ sockets' \in [Slot -> Socket] /\ sockets'[i] = y
        /\ \A x \in Slot : x # i => sockets'[x] = sockets[x]
    BY <2>1, <2>3 DEF SocketsOK, Socket
  <2>5. i \notin Live /\ Live' = Live \cup {i}
    BY <2>1, <2>3, <2>4 DEF Live, Free
  <2>6. QED
    BY <1>2, <2>1, <2>4, <2>5 DEF SocketsOK
<1>3. QED
  BY <1>1, <1>2

-----------------------------------------------------------------------------
(* Calls of openRoom. *)

LEMMA OpeningAt ==
  ASSUME NEW x \in Opening
  PROVE  /\ x.at = "asking" => x # Done /\ x.room \in Room
         /\ x.at = "answered" => x # Done /\ x.lines \subseteq Line
  BY DEF Opening, Done

LEMMA OpeningAdded ==
  ASSUME OpeningsOK, NEW x \in Opening, x # Done, openings' = Append(openings, x)
  PROVE  /\ OpeningsOK' /\ Len(openings') = Len(openings) + 1
         /\ Len(openings') \notin Suspended /\ Suspended' = Suspended \cup {Len(openings')}
<1>1. Len(openings) \in Nat /\ DOMAIN openings = 1..Len(openings)
  BY DEF OpeningsOK
<1>2. /\ Len(openings') = Len(openings) + 1 /\ openings' \in Seq(Opening)
      /\ DOMAIN openings' = 1..Len(openings')
      /\ openings'[Len(openings')] = x
      /\ \A o \in 1..Len(openings) : openings'[o] = openings[o]
  BY DEF OpeningsOK
<1>3. QED
  BY <1>1, <1>2 DEF OpeningsOK, Suspended

LEMMA OpeningMoved ==
  ASSUME OpeningsOK, NEW o \in DOMAIN openings, openings[o] # Done, NEW x \in Opening,
         openings' = [openings EXCEPT ![o] = x]
  PROVE  /\ OpeningsOK' /\ Len(openings') = Len(openings) /\ o \in Suspended
         /\ Suspended' = IF x = Done THEN Suspended \ {o} ELSE Suspended
<1>1. /\ Len(openings') = Len(openings) /\ openings' \in Seq(Opening)
      /\ DOMAIN openings' = DOMAIN openings
      /\ openings'[o] = x
      /\ \A p \in DOMAIN openings : p # o => openings'[p] = openings[p]
  BY DEF OpeningsOK
<1>2. QED
  BY <1>1 DEF OpeningsOK, Suspended

-----------------------------------------------------------------------------
(* Counting. *)

LEMMA FiniteSubset ==
  ASSUME NEW n \in Nat, NEW S \in SUBSET (1..n)
  PROVE  IsFiniteSet(S) /\ Cardinality(S) \in Nat /\ (Cardinality(S) = 0 <=> S = {})
<1>1. IsFiniteSet(1..n)
  BY FS_Interval
<1>2. IsFiniteSet(S)
  BY <1>1, FS_Subset
<1>3. QED
  BY <1>2, FS_CardinalityType, FS_EmptySet

LEMMA Counted ==
  /\ IsFiniteSet(Live) /\ Cardinality(Live) \in Nat /\ (Cardinality(Live) = 0 <=> Live = {})
  /\ OpeningsOK => /\ IsFiniteSet(Suspended) /\ Cardinality(Suspended) \in Nat
                   /\ Cardinality(Suspended) = 0 <=> Suspended = {}
<1>1. Live \subseteq 1..MaxOpens /\ MaxOpens \in Nat
  BY BoundsAssumption DEF Live, Slot
<1>2. OpeningsOK => Suspended \subseteq 1..Len(openings) /\ Len(openings) \in Nat
  BY DEF OpeningsOK, Suspended
<1>3. QED
  BY <1>1, <1>2, FiniteSubset

LEMMA OneMore ==
  ASSUME NEW S, IsFiniteSet(S), NEW x, x \notin S
  PROVE  Cardinality(S \cup {x}) = Cardinality(S) + 1
  BY FS_AddElement

LEMMA OneLess ==
  ASSUME NEW S, IsFiniteSet(S), NEW x \in S
  PROVE  Cardinality(S \ {x}) = Cardinality(S) - 1
  BY FS_RemoveElement

-----------------------------------------------------------------------------
(* The invariant. *)

\* Every connection or reconnection comes of an opening, and each opening but the first that
\* did not wait is an overlap.
CountOK ==
  /\ Loops <= 1 + overlaps
  /\ Len(openings) = 0 => Loops = 0 /\ overlaps = 0
  /\ Len(openings) > 0 => overlaps < Len(openings)

\* What onclose and connectSocket look at says whether a room is shown.
PanelTells ==
  IF screen = "room" THEN ~intentional /\ room # NoRoom ELSE intentional \/ room = NoRoom

\* Without an overlap the variable socket names the only connection there is.
OneSocket == overlaps = 0 => \A i \in Live : i = socket

\* Whatever it is that keeps the shown room alive.
RoomIsKept ==
  screen = "room" /\ ~stranded =>
    Live # {} \/ timer \/ late > 0 \/ Len(openings) \in Suspended

\* Connections, and attempts at one, that the variable socket has forgotten.
Strays == {i \in Live : i # socket /\ sockets[i].at # "closing"}

StraysCounted == Cardinality(Strays) <= overlaps

\* The connection that it has not forgotten does not outlive the room.
CurrentIsClosed == screen # "room" => \A i \in Live : i = socket => sockets[i].at = "closing"

TabInv ==
  CountOK /\ PanelTells /\ OneSocket /\ StraysCounted /\ CurrentIsClosed /\ RoomIsKept

\* A connection has said nothing since its user was kicked, or one line that was already
\* under way.
SpokenOnce ==
  \A s \in Sender :
    /\ Seat[s] \notin barred => spoken[s] = 0
    /\ job[s] = Tested => spoken[s] = 0
    /\ spoken[s] <= 1

IInv == Typed /\ TabInv /\ SpokenOnce

\* Steps that move no connection, opening or timeout, except towards its end.
Still ==
  /\ UNCHANGED <<panel, timeouts, overlaps, stranded, socket>>
  /\ Live' = Live /\ Suspended' = Suspended /\ Len(openings') = Len(openings)
  /\ \A i \in Live : sockets[i].at = "closing" => sockets'[i].at = "closing"

LEMMA FewerStrays ==
  ASSUME TabInv, Strays' \subseteq Strays, overlaps \in Nat, overlaps' \in Nat,
         overlaps <= overlaps'
  PROVE  StraysCounted'
<1>1. IsFiniteSet(Strays) /\ Cardinality(Strays) \in Nat
  BY Counted, FS_Subset, FS_CardinalityType DEF Strays
<1>2. Cardinality(Strays') \in Nat /\ Cardinality(Strays') <= Cardinality(Strays)
  BY <1>1, FS_Subset, FS_CardinalityType
<1>3. QED
  BY <1>1, <1>2 DEF TabInv, StraysCounted

LEMMA StillKeeps ==
  ASSUME Typed, TabInv, Still
  PROVE  TabInv'
<1> USE DEF Still, panel, timeouts, TabInv
<1>1. CountOK'
  BY DEF CountOK, Loops
<1>2. PanelTells' /\ OneSocket' /\ RoomIsKept'
  BY DEF PanelTells, OneSocket, RoomIsKept
<1>3. StraysCounted'
  <2>1. Strays' \subseteq Strays
    BY DEF Strays
  <2>2. overlaps \in Nat /\ overlaps' = overlaps
    BY DEF Typed, PanelOK
  <2>3. QED
    BY <2>1, <2>2, FewerStrays
<1>4. CurrentIsClosed'
  BY DEF CurrentIsClosed
<1>5. QED
  BY <1>1, <1>2, <1>3, <1>4

-----------------------------------------------------------------------------
(* Steps that are still. *)

LEMMA SocketMoved ==
  ASSUME SocketsOK, NEW i \in Slot, NEW x \in Socket, sockets' = [sockets EXCEPT ![i] = x],
         sockets[i].at # "free", x.at # "free", sockets[i].at = "closing" => x.at = "closing"
  PROVE  /\ SocketsOK' /\ Live' = Live
         /\ \A j \in Live : sockets[j].at = "closing" => sockets'[j].at = "closing"
<1>1. /\ sockets' \in [Slot -> Socket] /\ sockets'[i] = x
      /\ \A j \in Slot : j # i => sockets'[j] = sockets[j]
  BY DEF SocketsOK
<1>2. QED
  BY <1>1 DEF SocketsOK, Live

LEMMA SocketsFed ==
  ASSUME SocketsOK, NEW here \in SUBSET Connected, NEW m \in Msg,
         sockets' = [i \in Slot |-> IF i \in here THEN [sockets[i] EXCEPT !.feed = Append(@, m)]
                                    ELSE sockets[i]]
  PROVE  /\ SocketsOK' /\ Live' = Live
         /\ \A j \in Live : sockets[j].at = "closing" => sockets'[j].at = "closing"
<1>1. \A i \in here : /\ i \in Slot /\ sockets[i] \in Open
                      /\ sockets'[i] = [sockets[i] EXCEPT !.feed = Append(@, m)]
  BY SocketAt DEF Connected, SocketsOK
<1>2. \A i \in here : sockets'[i] \in Open
  BY <1>1, Fed
<1>3. \A i \in Slot \ here : sockets'[i] = sockets[i]
  OBVIOUS
<1>4. SocketsOK'
  <2>1. \A i \in Slot : sockets'[i] \in Socket
    BY <1>2, <1>3 DEF SocketsOK, Socket
  <2>2. QED
    BY <2>1 DEF SocketsOK
<1>5. \A i \in here : sockets[i].at = "open" /\ sockets'[i].at = "open"
  BY <1>1, <1>2, SocketAt DEF Socket
<1>6. QED
  BY <1>3, <1>4, <1>5 DEF Live

LEMMA AskStep ==
  ASSUME Typed, NEW r \in Room, Ask(r)
  PROVE  Typed' /\ Still /\ UNCHANGED <<barred, job, spoken>>
<1> USE DEF Ask
<1>1. /\ UNCHANGED <<panel, timeouts, socket, sockets, openings, applying, signed, chat, history>>
      /\ pending' = pending \cup {r} /\ member' \subseteq Room
      /\ Len(openings) + Cardinality(pending) < MaxOpens
  BY DEF Typed, PendingOK
<1>2. Cardinality(pending) \in Nat /\ Len(openings) \in Nat /\ MaxOpens \in Nat
  BY BoundsAssumption, FS_CardinalityType DEF Typed, PendingOK, OpeningsOK
<1>3. /\ IsFiniteSet(pending') /\ Cardinality(pending') \in Nat
      /\ Cardinality(pending') <= Cardinality(pending) + 1
  <2>1. IsFiniteSet(pending)
    BY DEF Typed, PendingOK
  <2>2. IsFiniteSet(pending \cup {r})
    BY <2>1, FS_AddElement
  <2>3. Cardinality(pending \cup {r}) = IF r \in pending THEN Cardinality(pending)
                                        ELSE Cardinality(pending) + 1
    BY <2>1, FS_AddElement
  <2>4. QED
    BY <1>1, <1>2, <2>2, <2>3, FS_CardinalityType
<1>4. PendingOK'
  BY <1>1, <1>2, <1>3 DEF Typed, PendingOK
<1>5. PanelOK' /\ ChatOK' /\ SocketsOK' /\ OpeningsOK'
  BY <1>1 DEF Typed, PanelOK, ChatOK, SocketsOK, OpeningsOK, panel, timeouts, chat, history
<1>6. QED
  BY <1>1, <1>4, <1>5 DEF Typed, Still, panel, timeouts, chat, history, Live, Suspended

LEMMA StoredAreLines ==
  ASSUME ChatOK
  PROVE  /\ DOMAIN lines \subseteq Line /\ \A r : Stored(r) \subseteq Line
         /\ InFlight \subseteq Line
<1>1. DOMAIN lines = 1..Len(lines) /\ Len(lines) \in Nat /\ Len(lines) <= MaxLines
  BY DEF ChatOK
<1>2. DOMAIN lines \subseteq Line
  BY <1>1, BoundsAssumption DEF Line
<1>3. \A s \in Sender : job[s].at = "stored" => job[s].line \in 1..Len(lines)
  BY DEF ChatOK, JobAfter, Idle, Tested
<1>4. QED
  BY <1>1, <1>2, <1>3 DEF Stored, InFlight

LEMMA AnswerHistoryStep ==
  ASSUME Typed, NEW o \in DOMAIN openings, AnswerHistory(o)
  PROVE  Typed' /\ Still /\ UNCHANGED <<barred, job, spoken>>
<1> USE DEF AnswerHistory
<1> DEFINE x == [at |-> "answered", lines |-> ChatHistory(openings[o].room)]
<1>1. openings[o] \in Opening /\ openings[o].at = "asking" /\ openings[o] # Done
  BY DEF Typed, OpeningsOK, Done
<1>2. x \in Opening /\ x # Done
  <2>1. ChatHistory(openings[o].room) \subseteq Line
    BY StoredAreLines DEF Typed, ChatHistory
  <2>2. QED
    BY <2>1 DEF Opening, Done
<1>3. OpeningsOK' /\ Len(openings') = Len(openings) /\ Suspended' = Suspended
  BY <1>1, <1>2, OpeningMoved DEF Typed
<1>4. excused' \subseteq Line
  BY StoredAreLines DEF Typed, ChatOK, OutOfReach
<1>5. PanelOK' /\ ChatOK' /\ SocketsOK' /\ PendingOK'
  BY <1>3, <1>4 DEF Typed, PanelOK, ChatOK, SocketsOK, PendingOK, panel, timeouts, server, chat
<1>6. QED
  BY <1>3, <1>5 DEF Typed, Still, panel, timeouts, server, chat, Live

LEMMA AcceptStep ==
  ASSUME Typed, NEW i \in Slot, Accept(i)
  PROVE  Typed' /\ Still /\ UNCHANGED <<barred, job, spoken>>
<1> USE DEF Accept
<1> DEFINE x == [sockets[i] EXCEPT !.at = "open", !.feed = <<State>>]
<1>1. sockets[i] \in Waiting
  BY SocketAt DEF Typed, SocketsOK
<1>2. x \in Socket /\ x.at # "free"
  BY <1>1, Opened DEF Socket, Open
<1>3. sockets' = [sockets EXCEPT ![i] = x]
  OBVIOUS
<1>4. /\ SocketsOK' /\ Live' = Live
      /\ \A j \in Live : sockets[j].at = "closing" => sockets'[j].at = "closing"
  BY <1>2, <1>3, SocketMoved DEF Typed
<1>5. QED
  BY <1>4 DEF Typed, Still, PanelOK, ChatOK, OpeningsOK, PendingOK, panel, timeouts, server,
     chat, history, Suspended

LEMMA EndsStep ==
  ASSUME Typed, NEW i \in Slot, Ends(i)
  PROVE  Typed' /\ Still /\ UNCHANGED <<barred, job, spoken>>
<1> USE DEF Ends
<1> DEFINE x == [sockets[i] EXCEPT !.at = "closing", !.feed = <<>>]
<1>1. sockets[i] \in Waiting \cup Open
  BY SocketAt DEF Typed, SocketsOK
<1>2. x \in Socket /\ x.at = "closing"
  BY <1>1, Emptied DEF Socket
<1>3. sockets' = [sockets EXCEPT ![i] = x]
  OBVIOUS
<1>4. /\ SocketsOK' /\ Live' = Live
      /\ \A j \in Live : sockets[j].at = "closing" => sockets'[j].at = "closing"
  BY <1>2, <1>3, SocketMoved DEF Typed
<1>5. excused' \subseteq Line
  BY DEF Typed, ChatOK
<1>6. QED
  BY <1>4, <1>5 DEF Typed, Still, PanelOK, ChatOK, OpeningsOK, PendingOK, panel, timeouts,
     server, chat, Suspended

LEMMA ShiftedSocket ==
  ASSUME Typed, NEW i \in Slot, NEW type, Arrives(i, type), sockets' = Shifted(i)
  PROVE  /\ SocketsOK' /\ Live' = Live
         /\ \A j \in Live : sockets[j].at = "closing" => sockets'[j].at = "closing"
<1> USE DEF Arrives
<1> DEFINE x == [sockets[i] EXCEPT !.feed = Tail(@)]
<1>1. sockets[i] \in Open
  BY SocketAt DEF Typed, SocketsOK
<1>2. x \in Open /\ x.at = "open"
  BY <1>1, Taken DEF Open
<1>3. sockets' = [sockets EXCEPT ![i] = x]
  BY DEF Shifted
<1>4. x \in Socket
  BY <1>2 DEF Socket
<1>5. QED
  BY <1>2, <1>3, <1>4, SocketMoved DEF Typed

LEMMA ReceiveStateStep ==
  ASSUME Typed, NEW i \in Slot, ReceiveState(i)
  PROVE  Typed' /\ Still /\ UNCHANGED <<barred, job, spoken>>
<1> USE DEF ReceiveState
<1>1. /\ SocketsOK' /\ Live' = Live
      /\ \A j \in Live : sockets[j].at = "closing" => sockets'[j].at = "closing"
  BY ShiftedSocket
<1>2. QED
  BY <1>1 DEF Typed, Still, PanelOK, ChatOK, OpeningsOK, PendingOK, panel, timeouts,
     server, chat, history, Suspended

LEMMA ReceiveChatStep ==
  ASSUME Typed, NEW i \in Slot, ReceiveChat(i)
  PROVE  Typed' /\ Still /\ UNCHANGED <<barred, job, spoken>>
<1> USE DEF ReceiveChat
<1>1. /\ SocketsOK' /\ Live' = Live
      /\ \A j \in Live : sockets[j].at = "closing" => sockets'[j].at = "closing"
  BY ShiftedSocket
<1>2. shown' \in [Line -> Nat]
  <2>1. DEFINE n == Head(sockets[i].feed).line
  <2>2. shown' = [shown EXCEPT ![n] = shown[n] + 1] /\ shown \in [Line -> Nat]
    BY DEF Typed, ChatOK
  <2>3. ASSUME NEW m \in Line
        PROVE  shown'[m] \in Nat
    BY <2>2
  <2>4. QED
    BY <2>2, <2>3
<1>3. QED
  BY <1>1, <1>2 DEF Typed, Still, PanelOK, ChatOK, OpeningsOK, PendingOK, panel, timeouts,
     server, chat, Suspended

LEMMA BroadcastChatStep ==
  ASSUME Typed, NEW s \in Sender, BroadcastChat(s)
  PROVE  Typed' /\ Still /\ UNCHANGED <<barred, spoken>> /\ job' = [job EXCEPT ![s] = Idle]
<1> USE DEF BroadcastChat
<1> DEFINE n == job[s].line
           here == {i \in Connected : sockets[i].room = lines[n].room}
<1>1. n \in Line /\ Chat(n) \in Msg
  BY StoredAreLines DEF Typed, InFlight, Msg
<1>2. /\ SocketsOK' /\ Live' = Live
      /\ \A j \in Live : sockets[j].at = "closing" => sockets'[j].at = "closing"
  <2>1. here \subseteq Connected
    OBVIOUS
  <2>2. sockets' = [i \in Slot |-> IF i \in here THEN [sockets[i] EXCEPT !.feed = Append(@, Chat(n))]
                                   ELSE sockets[i]]
    OBVIOUS
  <2>3. QED
    BY <1>1, <2>1, <2>2, SocketsFed DEF Typed
<1>3. ChatOK'
  <2>1. excused' \subseteq Line
    BY <1>1 DEF Typed, ChatOK
  <2>2. job' \in [Sender -> JobAfter(Len(lines'))]
    BY DEF Typed, ChatOK, JobAfter
  <2>3. QED
    BY <2>1, <2>2 DEF Typed, ChatOK
<1>4. QED
  BY <1>2, <1>3 DEF Typed, Still, PanelOK, OpeningsOK, PendingOK, panel, timeouts, Suspended

LEMMA KickUserStep ==
  ASSUME Typed, NEW r \in Room, KickUser(r)
  PROVE  Typed' /\ Still /\ UNCHANGED <<barred, job, spoken>>
<1> USE DEF KickUser
<1> DEFINE here == {i \in Connected : sockets[i].room = r}
<1>1. /\ SocketsOK' /\ Live' = Live
      /\ \A j \in Live : sockets[j].at = "closing" => sockets'[j].at = "closing"
  <2>1. here \subseteq Connected /\ Kicked \in Msg
    BY DEF Msg
  <2>2. sockets' = [i \in Slot |-> IF i \in here THEN [sockets[i] EXCEPT !.feed = Append(@, Kicked)]
                                   ELSE sockets[i]]
    OBVIOUS
  <2>3. QED
    BY <2>1, <2>2, SocketsFed DEF Typed
<1>2. QED
  BY <1>1 DEF Typed, Still, PanelOK, ChatOK, OpeningsOK, PendingOK, panel, timeouts,
     chat, history, Suspended

-----------------------------------------------------------------------------
(* chat.send and what is spoken. *)

LEMMA SpokenStays ==
  ASSUME SpokenOnce, UNCHANGED <<barred, job, spoken>>
  PROVE  SpokenOnce'
  BY DEF SpokenOnce

\* Chat steps leave the tab alone.
LEMMA ChatStep ==
  ASSUME Typed, UNCHANGED <<tab, signed, member, overlaps, stranded>>, ChatOK'
  PROVE  Typed' /\ Still
  BY DEF Typed, Still, tab, PanelOK, SocketsOK, OpeningsOK, PendingOK, panel, timeouts, Live,
     Suspended

LEMMA SendTestStep ==
  ASSUME Typed, SpokenOnce, NEW s \in Sender, SendTest(s)
  PROVE  Typed' /\ Still /\ SpokenOnce'
<1> USE DEF SendTest
<1>1. job' \in [Sender -> JobAfter(Len(lines))]
  BY DEF Typed, ChatOK, JobAfter
<1>2. ChatOK'
  BY <1>1 DEF Typed, ChatOK, history
<1>3. Typed' /\ Still
  BY <1>2, ChatStep DEF history
<1>4. SpokenOnce'
  BY DEF SpokenOnce, Typed, ChatOK, history
<1>5. QED
  BY <1>3, <1>4

LEMMA InsertStep ==
  ASSUME Typed, SpokenOnce, NEW s \in Sender, Insert(s)
  PROVE  Typed' /\ Still /\ SpokenOnce'
<1> USE DEF Insert
<1>1. Seat[s] \in Range(Seat)
  BY SeatAssumption DEF Range
<1>2. /\ lines' \in Seq(Range(Seat)) /\ Len(lines') = Len(lines) + 1
      /\ Len(lines) \in Nat /\ Len(lines') <= MaxLines
  BY <1>1, BoundsAssumption DEF Typed, ChatOK
<1>3. job' \in [Sender -> JobAfter(Len(lines'))]
  <2>1. [at |-> "stored", line |-> Len(lines')] \in JobAfter(Len(lines'))
    BY <1>2 DEF JobAfter
  <2>2. JobAfter(Len(lines)) \subseteq JobAfter(Len(lines'))
    BY <1>2 DEF JobAfter
  <2>3. QED
    BY <2>1, <2>2 DEF Typed, ChatOK
<1>4. spoken' \in [Sender -> 0..Len(lines')]
  <2>1. spoken \in [Sender -> 0..Len(lines)]
    BY DEF Typed, ChatOK
  <2>2. spoken' = spoken \/ spoken' = [spoken EXCEPT ![s] = spoken[s] + 1]
    OBVIOUS
  <2>3. \A t \in Sender : spoken[t] \in 0..Len(lines') /\ spoken[t] + 1 \in 0..Len(lines')
    BY <1>2, <2>1
  <2>4. QED
    BY <2>1, <2>2, <2>3
<1>5. ChatOK'
  BY <1>2, <1>3, <1>4 DEF Typed, ChatOK
<1>6. Typed' /\ Still
  BY <1>5, ChatStep
<1>7. SpokenOnce'
  <2>1. spoken[s] = 0 /\ spoken'[s] \in {0, 1} /\ (Seat[s] \notin barred => spoken'[s] = 0)
    BY DEF SpokenOnce, Typed, ChatOK
  <2>2. job'[s] # Tested
    BY DEF Typed, ChatOK, Tested
  <2>3. \A t \in Sender : t # s => job'[t] = job[t] /\ spoken'[t] = spoken[t]
    BY DEF Typed, ChatOK
  <2>4. QED
    BY <2>1, <2>2, <2>3 DEF SpokenOnce
<1>8. QED
  BY <1>6, <1>7

LEMMA InsertFailsStep ==
  ASSUME Typed, SpokenOnce, NEW s \in Sender, InsertFails(s)
  PROVE  Typed' /\ Still /\ SpokenOnce'
<1> USE DEF InsertFails
<1>1. job' \in [Sender -> JobAfter(Len(lines))]
  BY DEF Typed, ChatOK, JobAfter
<1>2. ChatOK'
  BY <1>1 DEF Typed, ChatOK, history
<1>3. Typed' /\ Still
  BY <1>2, ChatStep DEF history
<1>4. SpokenOnce'
  BY DEF SpokenOnce, Typed, ChatOK, history, Idle, Tested
<1>5. QED
  BY <1>3, <1>4

LEMMA KickSenderStep ==
  ASSUME Typed, SpokenOnce, NEW seat \in Range(Seat), KickSender(seat)
  PROVE  Typed' /\ Still /\ SpokenOnce'
<1> USE DEF KickSender
<1>1. ChatOK'
  BY DEF Typed, ChatOK, history
<1>2. Typed' /\ Still
  BY <1>1, ChatStep DEF history
<1>3. SpokenOnce'
  BY DEF SpokenOnce, history
<1>4. QED
  BY <1>2, <1>3

LEMMA BroadcastSpoken ==
  ASSUME Typed, SpokenOnce, NEW s \in Sender, BroadcastChat(s)
  PROVE  SpokenOnce'
<1>1. UNCHANGED <<barred, spoken>> /\ job' = [job EXCEPT ![s] = Idle]
  BY BroadcastChatStep
<1>2. QED
  BY <1>1 DEF SpokenOnce, Typed, ChatOK, Idle, Tested

-----------------------------------------------------------------------------
(* Steps that move connections, openings and timeouts. *)

\* The first parts of the invariant from what a step does to the count.
LEMMA FewerLoops ==
  ASSUME CountOK, Loops \in Nat, overlaps \in Nat, Loops' \in Nat, Loops' <= Loops,
         overlaps' = overlaps, Len(openings') = Len(openings)
  PROVE  CountOK'
  BY DEF CountOK

LEMMA LoopsAreNat ==
  /\ PanelOK /\ OpeningsOK => Loops \in Nat
  /\ PanelOK' /\ OpeningsOK' => Loops' \in Nat
<1>1. \A x, y, z \in Nat, t \in BOOLEAN : x + y + z + (IF t THEN 1 ELSE 0) \in Nat
  OBVIOUS
<1>2. PanelOK /\ OpeningsOK => Loops \in Nat
  BY <1>1, Counted DEF Loops, PanelOK
<1>3. PanelOK' /\ OpeningsOK' => Loops' \in Nat
  <2>1. Live' \subseteq 1..MaxOpens /\ MaxOpens \in Nat
    BY BoundsAssumption DEF Live, Slot
  <2>2. OpeningsOK' => Suspended' \subseteq 1..Len(openings') /\ Len(openings') \in Nat
    BY DEF OpeningsOK, Suspended
  <2>3. Cardinality(Live') \in Nat /\ (OpeningsOK' => Cardinality(Suspended') \in Nat)
    BY <2>1, <2>2, FiniteSubset
  <2>4. QED
    BY <1>1, <2>3 DEF Loops, PanelOK
<1>4. QED
  BY <1>2, <1>3

\* What a primed count is, from what a step does to the sets.
LEMMA CountedAfter ==
  /\ IsFiniteSet(Live') /\ Cardinality(Live') \in Nat
  /\ OpeningsOK' => Cardinality(Suspended') \in Nat
<1>1. Live' \subseteq 1..MaxOpens /\ MaxOpens \in Nat
  BY BoundsAssumption DEF Live, Slot
<1>2. OpeningsOK' => Suspended' \subseteq 1..Len(openings') /\ Len(openings') \in Nat
  BY DEF OpeningsOK, Suspended
<1>3. QED
  BY <1>1, <1>2, FiniteSubset

LEMMA OpenRoomStep ==
  ASSUME Typed, TabInv, NEW r \in Room, OpenRoom(r)
  PROVE  Typed' /\ TabInv' /\ UNCHANGED <<barred, job, spoken>>
<1> USE DEF OpenRoom
<1> DEFINE x == [at |-> "asking", room |-> r]
<1>1. /\ OpeningsOK' /\ Len(openings') = Len(openings) + 1 /\ Len(openings) \in Nat
      /\ Len(openings') \notin Suspended /\ Suspended' = Suspended \cup {Len(openings')}
  <2>1. x \in Opening /\ x # Done
    BY DEF Opening, Done
  <2>2. QED
    BY <2>1, OpeningAdded DEF Typed, OpeningsOK
<1>2. SocketsOK' /\ Live' = Live /\ \A i \in Slot : i # socket => sockets'[i] = sockets[i]
  <2>1. /\ sockets' \in [Slot -> Socket]
        /\ \A i \in Slot : sockets'[i].at # "free" <=> sockets[i].at # "free"
        /\ \A i \in Slot : i # socket => sockets'[i] = sockets[i]
    BY ClosedSocket DEF Typed
  <2>2. QED
    BY <2>1 DEF SocketsOK, Live
<1>3. PendingOK'
  <2>1. IsFiniteSet(pending) /\ Cardinality(pending) \in Nat
    BY FS_CardinalityType DEF Typed, PendingOK
  <2>2. IsFiniteSet(pending') /\ Cardinality(pending') = Cardinality(pending) - 1
    BY <2>1, OneLess, FS_Subset
  <2>3. QED
    BY <1>1, <2>1, <2>2, BoundsAssumption DEF Typed, PendingOK, server
<1>4. PanelOK' /\ ChatOK'
  <2>1. UNCHANGED <<signed, applying, late, socket, barred, lines, job, spoken>>
    BY DEF server, chat
  <2>2. overlaps' \in Nat
    BY DEF Typed, PanelOK
  <2>3. PanelOK'
    BY <2>1, <2>2 DEF Typed, PanelOK
  <2>4. shown' \in [Line -> Nat] /\ excused' \subseteq Line
    OBVIOUS
  <2>5. ChatOK'
    BY <2>1, <2>4 DEF Typed, ChatOK
  <2>6. QED
    BY <2>3, <2>5
<1>5. Typed'
  BY <1>1, <1>2, <1>3, <1>4 DEF Typed
<1>6. CountOK'
  <2>1. Cardinality(Suspended') = Cardinality(Suspended) + 1
    BY <1>1, Counted, OneMore DEF Typed
  <2>2. /\ Cardinality(Live) \in Nat /\ Cardinality(Suspended) \in Nat /\ late \in Nat
        /\ overlaps \in Nat /\ Loops \in Nat
    BY Counted, LoopsAreNat DEF Typed, PanelOK
  <2>3. Loops' = Cardinality(Live) + Cardinality(Suspended) + 1 + late
    BY <1>2, <2>1, <2>2 DEF Loops
  <2>4. Loops' <= Loops + 1
    BY <2>2, <2>3 DEF Loops
  <2>5. CASE Live \cup Suspended # {} \/ late > 0
    <3>1. overlaps' = overlaps + 1
      BY <2>5
    <3>2. Cardinality(Live) + Cardinality(Suspended) + late > 0
      BY <2>2, <2>5, Counted DEF Typed
    <3>3. Loops > 0
      BY <2>2, <3>2 DEF Loops
    <3>4. Loops' <= 1 + overlaps'
      BY <2>2, <2>3, <2>4, <3>1 DEF TabInv, CountOK
    <3>5. Len(openings) > 0 /\ overlaps < Len(openings)
      BY <1>1, <3>3 DEF TabInv, CountOK
    <3>6. QED
      BY <1>1, <2>2, <3>1, <3>4, <3>5 DEF CountOK
  <2>6. CASE ~(Live \cup Suspended # {} \/ late > 0)
    <3>1. overlaps' = overlaps
      BY <2>6
    <3>2. Cardinality(Live) = 0 /\ Cardinality(Suspended) = 0 /\ late = 0
      BY <2>2, <2>6, Counted DEF Typed
    <3>3. Loops' <= 1 + overlaps'
      BY <2>2, <2>3, <3>1, <3>2
    <3>4. overlaps' < Len(openings')
      BY <1>1, <2>2, <3>1 DEF TabInv, CountOK
    <3>5. QED
      BY <1>1, <3>3, <3>4 DEF CountOK
  <2>7. QED
    BY <2>5, <2>6
<1>7. PanelTells' /\ CurrentIsClosed' /\ RoomIsKept'
  BY <1>1, NoRoomAssumption DEF PanelTells, CurrentIsClosed, RoomIsKept
<1>8. OneSocket'
  BY <1>2 DEF OneSocket, TabInv, Typed, PanelOK
<1>9. StraysCounted'
  <2>1. Strays' \subseteq Strays
    BY <1>2 DEF Strays, Live
  <2>2. overlaps \in Nat /\ overlaps' \in Nat /\ overlaps <= overlaps'
    BY DEF Typed, PanelOK
  <2>3. QED
    BY <2>1, <2>2, FewerStrays
<1>10. QED
  BY <1>5, <1>6, <1>7, <1>8, <1>9 DEF TabInv, server, chat

LEMMA HistoryFailsStep ==
  ASSUME Typed, TabInv, NEW o \in DOMAIN openings, HistoryFails(o)
  PROVE  Typed' /\ TabInv' /\ UNCHANGED <<barred, job, spoken>>
<1> USE DEF HistoryFails
<1>1. /\ OpeningsOK' /\ Len(openings') = Len(openings) /\ o \in Suspended
      /\ Suspended' = Suspended \ {o}
  <2>1. openings[o] # Done /\ Done \in Opening
    BY DEF Done, Opening
  <2>2. QED
    BY <2>1, OpeningMoved DEF Typed
<1>2. Typed'
  BY <1>1 DEF Typed, PanelOK, PendingOK, ChatOK, SocketsOK, panel, timeouts, server, chat
<1>3. Live' = Live
  BY DEF Live
<1>4. CountOK'
  <2>1. Cardinality(Suspended') = Cardinality(Suspended) - 1
    BY <1>1, Counted, OneLess DEF Typed
  <2>2. Loops' <= Loops
    BY <1>3, <2>1, Counted DEF Typed, PanelOK, Loops, timeouts
  <2>3. Loops \in Nat /\ Loops' \in Nat /\ overlaps \in Nat
    BY <1>2, LoopsAreNat DEF Typed, PanelOK
  <2>4. QED
    BY <1>1, <2>2, <2>3, FewerLoops DEF TabInv
<1>5. PanelTells' /\ OneSocket' /\ StraysCounted' /\ CurrentIsClosed'
  BY <1>3 DEF TabInv, PanelTells, OneSocket, StraysCounted, Strays, CurrentIsClosed, panel
<1>6. RoomIsKept'
  BY <1>1, <1>3 DEF TabInv, RoomIsKept, panel, timeouts
<1>7. QED
  BY <1>2, <1>4, <1>5, <1>6 DEF TabInv, server, chat

\* What a new connection makes a stray is not more than what there was beside it.
LEMMA NewConnection ==
  ASSUME Typed', CountOK', socket' \notin Live, Live' = Live \cup {socket'}
  PROVE  StraysCounted'
<1>1. IsFiniteSet(Live) /\ Cardinality(Live) \in Nat
  BY Counted
<1>2. Cardinality(Live') = Cardinality(Live) + 1
  BY <1>1, OneMore
<1>3. /\ Cardinality(Suspended') \in Nat /\ late' \in Nat /\ timer' \in BOOLEAN
      /\ overlaps' \in Nat
  BY CountedAfter DEF Typed, PanelOK
<1>4. Cardinality(Live) <= overlaps'
  <2>1. Loops' <= 1 + overlaps'
    BY DEF CountOK
  <2>2. QED
    BY <1>1, <1>2, <1>3, <2>1 DEF Loops
<1>5. Strays' \subseteq Live
  BY DEF Strays
<1>6. Cardinality(Strays') \in Nat /\ Cardinality(Strays') <= Cardinality(Live)
  BY <1>1, <1>5, FS_Subset, FS_CardinalityType
<1>7. QED
  BY <1>1, <1>3, <1>4, <1>6 DEF StraysCounted

\* A connection of connectSocket comes of an opening or timeout that goes, the only one there
\* was unless openings overlap.
LEMMA ResumeStep ==
  ASSUME Typed, TabInv, NEW o \in DOMAIN openings, Resume(o)
  PROVE  Typed' /\ TabInv' /\ UNCHANGED <<barred, job, spoken>>
<1> USE DEF Resume
<1>1. openings[o] \in Opening /\ openings[o] # Done
  BY DEF Typed, OpeningsOK, Done
<1>2. /\ OpeningsOK' /\ Len(openings') = Len(openings) /\ o \in Suspended
      /\ Suspended' = Suspended \ {o}
  <2>1. Done \in Opening
    BY DEF Opening
  <2>2. QED
    BY <1>1, <2>1, OpeningMoved DEF Typed
<1>3. /\ SocketsOK' /\ socket' \in {0} \cup Slot
      /\ \/ (room = NoRoom \/ intentional) /\ UNCHANGED <<socket, sockets>>
         \/ /\ room # NoRoom /\ ~intentional
            /\ socket' \in Slot /\ socket' \notin Live /\ Live' = Live \cup {socket'}
  BY Connecting DEF Typed
<1>4. shown' \in [Line -> Nat]
  BY DEF Typed, ChatOK
<1>5. Typed'
  <2>1. PanelOK'
    BY <1>3 DEF Typed, PanelOK, panel, timeouts, server
  <2>2. PendingOK' /\ ChatOK'
    BY <1>2, <1>4 DEF Typed, PendingOK, ChatOK, server, chat
  <2>3. QED
    BY <1>2, <1>3, <2>1, <2>2 DEF Typed
<1>6. /\ Cardinality(Suspended') = Cardinality(Suspended) - 1
      /\ Cardinality(Suspended) \in Nat /\ Cardinality(Suspended') \in Nat
      /\ Cardinality(Live) \in Nat /\ late \in Nat /\ overlaps \in Nat /\ timer \in BOOLEAN
      /\ Loops \in Nat /\ Loops' \in Nat
  BY <1>2, <1>5, Counted, CountedAfter, OneLess, LoopsAreNat DEF Typed, PanelOK
<1>7. PanelTells'
  BY DEF TabInv, PanelTells, panel
<1>8. CASE (room = NoRoom \/ intentional) /\ UNCHANGED <<socket, sockets>>
  <2>1. Live' = Live
    BY <1>8 DEF Live
  <2>2. Loops' <= Loops
    BY <1>6, <2>1 DEF Loops, timeouts
  <2>3. CountOK'
    BY <1>2, <1>6, <2>2, FewerLoops DEF TabInv
  <2>4. OneSocket' /\ StraysCounted' /\ CurrentIsClosed'
    BY <1>8, <2>1 DEF TabInv, OneSocket, StraysCounted, Strays, CurrentIsClosed, panel
  <2>5. RoomIsKept'
    BY <1>8 DEF TabInv, PanelTells, RoomIsKept, panel
  <2>6. QED
    BY <1>5, <1>7, <2>3, <2>4, <2>5 DEF TabInv, server, chat
<1>9. CASE room # NoRoom /\ ~intentional /\ socket' \notin Live /\ Live' = Live \cup {socket'}
  <2>1. Cardinality(Live') = Cardinality(Live) + 1
    BY <1>9, Counted, OneMore
  <2>2. Loops' = Loops
    BY <1>6, <2>1 DEF Loops, timeouts
  <2>3. CountOK'
    BY <1>2, <1>6, <2>2, FewerLoops DEF TabInv
  <2>4. OneSocket'
    <3>1. overlaps = 0 => Live = {}
      BY <1>6, Counted DEF TabInv, CountOK, Loops
    <3>2. QED
      BY <1>9, <3>1 DEF OneSocket
  <2>5. screen = "room"
    BY <1>9 DEF TabInv, PanelTells
  <2>6. CurrentIsClosed' /\ RoomIsKept'
    BY <1>9, <2>5 DEF CurrentIsClosed, RoomIsKept, panel
  <2>7. StraysCounted'
    BY <1>5, <1>9, <2>3, NewConnection
  <2>8. QED
    BY <1>5, <1>7, <2>3, <2>4, <2>6, <2>7 DEF TabInv, server, chat
<1>10. QED
  BY <1>3, <1>8, <1>9

LEMMA CloseEventStep ==
  ASSUME Typed, TabInv, NEW i \in Slot, CloseEvent(i)
  PROVE  Typed' /\ TabInv' /\ UNCHANGED <<barred, job, spoken>>
<1> USE DEF CloseEvent
<1>1. i \in Live
  BY DEF Live
<1>2. SocketsOK' /\ Live' = Live \ {i} /\ \A j \in Live' : sockets'[j] = sockets[j]
  <2>1. /\ sockets' \in [Slot -> Socket] /\ sockets'[i] = Free /\ Free.at = "free"
        /\ \A j \in Slot : j # i => sockets'[j] = sockets[j]
    BY DEF Typed, SocketsOK, Socket, Free
  <2>2. QED
    BY <2>1 DEF SocketsOK, Live
<1>3. \/ (intentional \/ room = NoRoom) /\ UNCHANGED <<timer, late>>
      \/ ~(intentional \/ room = NoRoom) /\ timer' = TRUE /\ late' = IF timer THEN late + 1 ELSE late
  OBVIOUS
<1>4. PanelOK'
  <2>1. timer' \in BOOLEAN /\ late' \in Nat
    <3>1. timer' \in BOOLEAN
      BY <1>3, Zenon DEF Typed, PanelOK
    <3>2. late' = late \/ late' = late + 1
      BY <1>3
    <3>3. late' \in Nat
      BY <3>2 DEF Typed, PanelOK
    <3>4. QED
      BY <3>1, <3>3
  <2>2. QED
    BY <2>1 DEF Typed, PanelOK, panel, server, history
<1>5. Typed'
  BY <1>2, <1>4 DEF Typed, ChatOK, PendingOK, OpeningsOK, server, chat, history
<1>6. Suspended' = Suspended
  BY DEF Suspended
<1>7. CountOK'
  <2>1. Cardinality(Live') = Cardinality(Live) - 1 /\ Cardinality(Live) \in Nat
    BY <1>1, <1>2, Counted, OneLess
  <2>2. /\ Cardinality(Suspended) \in Nat /\ late \in Nat /\ timer \in BOOLEAN
        /\ overlaps \in Nat /\ Loops \in Nat /\ Loops' \in Nat
    BY <1>5, Counted, LoopsAreNat DEF Typed, PanelOK
  <2>3. Loops' <= Loops
    BY <1>3, <1>6, <2>1, <2>2 DEF Loops
  <2>4. QED
    BY <2>2, <2>3, FewerLoops DEF TabInv, history
<1>8. PanelTells' /\ OneSocket' /\ CurrentIsClosed'
  <2>1. \A j \in Live' : j \in Live /\ j # i /\ j # 0 /\ sockets'[j] = sockets[j]
    BY <1>2 DEF Live, Slot
  <2>2. \A j \in Live' : j = socket' <=> j = socket
    BY <2>1
  <2>3. PanelTells' /\ OneSocket'
    BY <2>1, <2>2 DEF TabInv, PanelTells, OneSocket, panel, history
  <2>4. CurrentIsClosed'
    BY <2>1, <2>2 DEF TabInv, CurrentIsClosed, panel
  <2>5. QED
    BY <2>3, <2>4
<1>9. RoomIsKept'
  BY <1>3 DEF TabInv, PanelTells, RoomIsKept, panel
<1>10. StraysCounted'
  <2>1. Strays' \subseteq Strays
    <3>1. \A j \in Live' : j # i /\ j \in Live /\ sockets'[j] = sockets[j]
      BY <1>2
    <3>2. \A j \in Live' : j # socket' => j # socket
      BY <3>1
    <3>3. QED
      BY <3>1, <3>2 DEF Strays
  <2>2. overlaps \in Nat /\ overlaps' = overlaps
    BY DEF Typed, PanelOK, history
  <2>3. QED
    BY <2>1, <2>2, FewerStrays
<1>11. QED
  BY <1>5, <1>7, <1>8, <1>9, <1>10 DEF TabInv, server, chat, history

LEMMA TimerFiresStep ==
  ASSUME Typed, TabInv, TimerFires
  PROVE  Typed' /\ TabInv' /\ UNCHANGED <<barred, job, spoken>>
<1> USE DEF TimerFires
<1>1. /\ SocketsOK' /\ socket' \in {0} \cup Slot
      /\ \/ (room = NoRoom \/ intentional) /\ UNCHANGED <<socket, sockets>>
         \/ /\ room # NoRoom /\ ~intentional
            /\ socket' \in Slot /\ socket' \notin Live /\ Live' = Live \cup {socket'}
  BY Connecting DEF Typed
<1>2. \/ timer = TRUE /\ timer' = FALSE /\ late' = late
      \/ late > 0 /\ late' = late - 1 /\ timer' = timer
  BY DEF Typed, PanelOK
<1>3. Typed'
  <2>1. timer' \in BOOLEAN /\ late' \in Nat
    <3>1. timer' \in BOOLEAN
      BY <1>2, Zenon DEF Typed, PanelOK
    <3>2. late' = late \/ (late > 0 /\ late' = late - 1)
      BY <1>2
    <3>3. late' \in Nat
      BY <3>2 DEF Typed, PanelOK
    <3>4. QED
      BY <3>1, <3>3
  <2>2. PanelOK'
    BY <1>1, <2>1 DEF Typed, PanelOK, panel, server, history
  <2>3. QED
    BY <1>1, <2>2 DEF Typed, ChatOK, PendingOK, OpeningsOK, server, chat, history
<1>4. Suspended' = Suspended
  BY DEF Suspended
<1>5. /\ Cardinality(Suspended) \in Nat /\ Cardinality(Live) \in Nat /\ late \in Nat
      /\ overlaps \in Nat /\ timer \in BOOLEAN /\ Loops \in Nat /\ Loops' \in Nat
  BY <1>3, Counted, LoopsAreNat DEF Typed, PanelOK
<1>6. PanelTells'
  BY DEF TabInv, PanelTells, panel
<1>7. CASE (room = NoRoom \/ intentional) /\ UNCHANGED <<socket, sockets>>
  <2>1. Live' = Live
    BY <1>7 DEF Live
  <2>2. Loops' <= Loops
    BY <1>2, <1>4, <1>5, <2>1 DEF Loops
  <2>3. CountOK'
    BY <1>5, <2>2, FewerLoops DEF TabInv, history
  <2>4. OneSocket' /\ StraysCounted' /\ CurrentIsClosed'
    BY <1>7, <2>1 DEF TabInv, OneSocket, StraysCounted, Strays, CurrentIsClosed, panel, history
  <2>5. RoomIsKept'
    BY <1>7 DEF TabInv, PanelTells, RoomIsKept, panel
  <2>6. QED
    BY <1>3, <1>6, <2>3, <2>4, <2>5 DEF TabInv, server, chat, history
<1>8. CASE room # NoRoom /\ ~intentional /\ socket' \notin Live /\ Live' = Live \cup {socket'}
  <2>1. Cardinality(Live') = Cardinality(Live) + 1
    BY <1>8, Counted, OneMore
  <2>2. Loops' <= Loops
    BY <1>2, <1>4, <1>5, <2>1 DEF Loops
  <2>3. CountOK'
    BY <1>5, <2>2, FewerLoops DEF TabInv, history
  <2>4. OneSocket'
    <3>1. overlaps = 0 => Live = {}
      BY <1>2, <1>5, Counted DEF TabInv, CountOK, Loops
    <3>2. QED
      BY <1>8, <3>1 DEF OneSocket, history
  <2>5. screen = "room"
    BY <1>8 DEF TabInv, PanelTells
  <2>6. CurrentIsClosed' /\ RoomIsKept'
    BY <1>8, <2>5 DEF CurrentIsClosed, RoomIsKept, panel
  <2>7. StraysCounted'
    BY <1>3, <1>8, <2>3, NewConnection
  <2>8. QED
    BY <1>3, <1>6, <2>3, <2>4, <2>6, <2>7 DEF TabInv, server, chat, history
<1>9. QED
  BY <1>1, <1>7, <1>8

\* A step that leaves the room closes the current connection; every other one is a stray.
LEMMA LeavingStep ==
  ASSUME Typed, TabInv, SocketsOK', intentional' = TRUE, screen' # "room",
         \A i \in Slot : sockets'[i].at # "free" <=> sockets[i].at # "free",
         \A i \in Slot : i # socket => sockets'[i].at = sockets[i].at,
         socket \in Slot /\ sockets[socket].at # "free" => sockets'[socket].at = "closing",
         UNCHANGED <<late, socket, openings, overlaps>>, timer' \in {timer, FALSE}
  PROVE  TabInv'
<1>1. Live' = Live /\ Suspended' = Suspended
  BY DEF Live, Suspended
<1>2. CountOK'
  <2>1. /\ Cardinality(Suspended) \in Nat /\ Cardinality(Live) \in Nat /\ late \in Nat
        /\ overlaps \in Nat /\ timer \in BOOLEAN /\ Loops \in Nat
    BY Counted, LoopsAreNat DEF Typed, PanelOK
  <2>2. Loops' \in Nat /\ Loops' <= Loops
    <3>1. CASE timer' = timer
      BY <1>1, <2>1, <3>1 DEF Loops
    <3>2. CASE timer' = FALSE
      <4>1. Loops' = Cardinality(Live) + Cardinality(Suspended) + late
        BY <1>1, <2>1, <3>2 DEF Loops
      <4>2. QED
        BY <2>1, <4>1 DEF Loops
    <3>3. QED
      BY <3>1, <3>2
  <2>3. QED
    BY <2>1, <2>2, FewerLoops DEF TabInv
<1>3. PanelTells' /\ RoomIsKept' /\ OneSocket'
  BY <1>1 DEF TabInv, PanelTells, RoomIsKept, OneSocket
<1>4. CurrentIsClosed'
  BY <1>1 DEF CurrentIsClosed, Live
<1>5. StraysCounted'
  <2>1. Strays' \subseteq Strays
    BY <1>1 DEF Strays, Live
  <2>2. overlaps \in Nat /\ overlaps' = overlaps
    BY DEF Typed, PanelOK
  <2>3. QED
    BY <2>1, <2>2, FewerStrays
<1>6. QED
  BY <1>2, <1>3, <1>4, <1>5 DEF TabInv

LEMMA LeaveStep ==
  ASSUME Typed, TabInv, Leave
  PROVE  Typed' /\ TabInv' /\ UNCHANGED <<barred, job, spoken>>
<1> USE DEF Leave
<1>1. /\ SocketsOK' /\ \A i \in Slot : sockets'[i].at # "free" <=> sockets[i].at # "free"
      /\ \A i \in Slot : i # socket => sockets'[i].at = sockets[i].at
      /\ socket \in Slot /\ sockets[socket].at # "free" => sockets'[socket].at = "closing"
  BY ClosedSocket DEF Typed, SocketsOK
<1>2. PanelOK'
  BY DEF Typed, PanelOK, server, history
<1>3. Typed'
  BY <1>1, <1>2 DEF Typed, ChatOK, PendingOK, OpeningsOK, server, chat, history
<1>4. TabInv'
  BY <1>1, LeavingStep DEF history
<1>5. QED
  BY <1>3, <1>4 DEF server, chat, history

LEMMA LogoutStep ==
  ASSUME Typed, TabInv, Logout
  PROVE  Typed' /\ TabInv' /\ UNCHANGED <<barred, job, spoken>>
<1> USE DEF Logout
<1>1. /\ SocketsOK' /\ \A i \in Slot : sockets'[i].at # "free" <=> sockets[i].at # "free"
      /\ \A i \in Slot : i # socket => sockets'[i].at = sockets[i].at
      /\ socket \in Slot /\ sockets[socket].at # "free" => sockets'[socket].at = "closing"
  BY ClosedSocket DEF Typed, SocketsOK
<1>2. PanelOK'
  BY DEF Typed, PanelOK, timeouts, history
<1>3. Typed'
  BY <1>1, <1>2 DEF Typed, ChatOK, PendingOK, OpeningsOK, chat, history
<1>4. TabInv'
  BY <1>1, LeavingStep DEF history, timeouts
<1>5. QED
  BY <1>3, <1>4 DEF chat, history

LEMMA LoginStep ==
  ASSUME Typed, TabInv, Login
  PROVE  Typed' /\ TabInv' /\ UNCHANGED <<barred, job, spoken>>
<1> USE DEF Login
<1>1. Typed'
  BY DEF Typed, PanelOK, SocketsOK, ChatOK, PendingOK, OpeningsOK, timeouts, chat, history
<1>2. Live' = Live /\ Suspended' = Suspended
  BY DEF Live, Suspended
<1>3. CountOK'
  BY <1>2 DEF TabInv, CountOK, Loops, timeouts, history
<1>4. PanelTells' /\ OneSocket' /\ StraysCounted' /\ CurrentIsClosed' /\ RoomIsKept'
  BY <1>2 DEF TabInv, PanelTells, OneSocket, StraysCounted, Strays, CurrentIsClosed, RoomIsKept,
     history
<1>5. QED
  BY <1>1, <1>3, <1>4 DEF TabInv, chat, history

LEMMA ReceiveKickedStep ==
  ASSUME Typed, TabInv, NEW i \in Slot, ReceiveKicked(i)
  PROVE  Typed' /\ TabInv' /\ UNCHANGED <<barred, job, spoken>>
<1> USE DEF ReceiveKicked, Arrives
<1>1. /\ SocketClosed \in [Slot -> Socket]
      /\ \A j \in Slot : SocketClosed[j].at # "free" <=> sockets[j].at # "free"
      /\ \A j \in Slot : j # socket => SocketClosed[j] = sockets[j]
      /\ socket \in Slot /\ sockets[socket].at # "free" => SocketClosed[socket].at = "closing"
  BY ClosedSocket DEF Typed
<1>2. /\ SocketsOK' /\ \A j \in Slot : sockets'[j].at # "free" <=> sockets[j].at # "free"
      /\ \A j \in Slot : j # socket => sockets'[j].at = sockets[j].at
      /\ socket \in Slot /\ sockets[socket].at # "free" => sockets'[socket].at = "closing"
  <2>1. CASE socket = i
    BY <1>1, <2>1 DEF SocketsOK
  <2>2. CASE socket # i
    <3>1. sockets[i] \in Open /\ SocketClosed[i] = sockets[i]
      BY <1>1, <2>2, SocketAt DEF Typed, SocketsOK
    <3>2. DEFINE x == [sockets[i] EXCEPT !.feed = Tail(@)]
    <3>3. x \in Open /\ x.at = "open"
      BY <3>1, Taken DEF Open
    <3>4. sockets' = [SocketClosed EXCEPT ![i] = x]
      BY <2>2, <3>1
    <3>5. /\ sockets' \in [Slot -> Socket] /\ sockets'[i] = x
          /\ \A j \in Slot : j # i => sockets'[j] = SocketClosed[j]
      BY <1>1, <3>3, <3>4 DEF Socket
    <3>6. QED
      BY <1>1, <2>2, <3>3, <3>5 DEF SocketsOK
  <2>3. QED
    BY <2>1, <2>2
<1>3. PanelOK'
  BY DEF Typed, PanelOK, timeouts, server, history
<1>4. Typed'
  BY <1>2, <1>3 DEF Typed, ChatOK, PendingOK, OpeningsOK, server, chat, history
<1>5. TabInv'
  BY <1>2, LeavingStep DEF history, timeouts
<1>6. QED
  BY <1>4, <1>5 DEF server, chat, history

-----------------------------------------------------------------------------
(* The invariant is one. *)

LEMMA InitIInv == Init => IInv
<1> SUFFICES ASSUME Init PROVE IInv
  OBVIOUS
<1> USE DEF Init
<1>1. Live = {} /\ Suspended = {}
  BY DEF Live, Suspended, Free
<1>2. PanelOK /\ SocketsOK /\ OpeningsOK
  <2>1. PanelOK
    BY DEF PanelOK
  <2>2. SocketsOK
    BY DEF SocketsOK, Socket
  <2>3. OpeningsOK
    BY DEF OpeningsOK
  <2>4. QED
    BY <2>1, <2>2, <2>3
<1>3. PendingOK
  <2>1. Cardinality({}) = 0 /\ IsFiniteSet({}) /\ Len(openings) = 0
    BY FS_EmptySet
  <2>2. QED
    BY <2>1, BoundsAssumption DEF PendingOK
<1>4. ChatOK
  <2>1. job \in [Sender -> JobAfter(Len(lines))]
    BY DEF JobAfter
  <2>2. QED
    BY <2>1, BoundsAssumption DEF ChatOK
<1>5. CountOK
  <2>1. Cardinality({}) = 0
    BY FS_EmptySet
  <2>2. Loops = 0
    BY <1>1, <2>1 DEF Loops
  <2>3. QED
    BY <2>2 DEF CountOK
<1>6. PanelTells /\ OneSocket /\ StraysCounted /\ CurrentIsClosed /\ RoomIsKept
  <2>1. Cardinality({}) = 0 /\ Strays = {}
    BY <1>1, FS_EmptySet DEF Strays
  <2>2. QED
    BY <1>1, <2>1 DEF PanelTells, OneSocket, StraysCounted, CurrentIsClosed, RoomIsKept
<1>7. SpokenOnce
  BY DEF SpokenOnce, Idle
<1>8. QED
  BY <1>2, <1>3, <1>4, <1>5, <1>6, <1>7 DEF IInv, Typed, TabInv

LEMMA NextIInv ==
  ASSUME IInv, [Next]_vars
  PROVE  IInv'
<1> USE DEF IInv
<1>1. ASSUME NEW r \in Room, Ask(r) PROVE IInv'
  BY <1>1, AskStep, StillKeeps, SpokenStays
<1>2. ASSUME NEW r \in Room, OpenRoom(r) PROVE IInv'
  BY <1>2, OpenRoomStep, SpokenStays
<1>3. ASSUME NEW r \in Room, KickUser(r) PROVE IInv'
  BY <1>3, KickUserStep, StillKeeps, SpokenStays
<1>4. ASSUME NEW o \in DOMAIN openings, AnswerHistory(o) PROVE IInv'
  BY <1>4, AnswerHistoryStep, StillKeeps, SpokenStays
<1>5. ASSUME NEW o \in DOMAIN openings, HistoryFails(o) PROVE IInv'
  BY <1>5, HistoryFailsStep, SpokenStays
<1>6. ASSUME NEW o \in DOMAIN openings, Resume(o) PROVE IInv'
  BY <1>6, ResumeStep, SpokenStays
<1>7. ASSUME NEW i \in Slot, Accept(i) PROVE IInv'
  BY <1>7, AcceptStep, StillKeeps, SpokenStays
<1>8. ASSUME NEW i \in Slot, Ends(i) PROVE IInv'
  BY <1>8, EndsStep, StillKeeps, SpokenStays
<1>9. ASSUME NEW i \in Slot, CloseEvent(i) PROVE IInv'
  BY <1>9, CloseEventStep, SpokenStays
<1>10. ASSUME NEW i \in Slot, ReceiveState(i) PROVE IInv'
  BY <1>10, ReceiveStateStep, StillKeeps, SpokenStays
<1>11. ASSUME NEW i \in Slot, ReceiveChat(i) PROVE IInv'
  BY <1>11, ReceiveChatStep, StillKeeps, SpokenStays
<1>12. ASSUME NEW i \in Slot, ReceiveKicked(i) PROVE IInv'
  BY <1>12, ReceiveKickedStep, SpokenStays
<1>13. CASE TimerFires
  BY <1>13, TimerFiresStep, SpokenStays
<1>14. CASE Leave
  BY <1>14, LeaveStep, SpokenStays
<1>15. CASE Logout
  BY <1>15, LogoutStep, SpokenStays
<1>16. CASE Login
  BY <1>16, LoginStep, SpokenStays
<1>17. ASSUME NEW s \in Sender, SendTest(s) PROVE IInv'
  BY <1>17, SendTestStep, StillKeeps
<1>18. ASSUME NEW s \in Sender, Insert(s) PROVE IInv'
  BY <1>18, InsertStep, StillKeeps
<1>19. ASSUME NEW s \in Sender, InsertFails(s) PROVE IInv'
  BY <1>19, InsertFailsStep, StillKeeps
<1>20. ASSUME NEW s \in Sender, BroadcastChat(s) PROVE IInv'
  BY <1>20, BroadcastChatStep, BroadcastSpoken, StillKeeps
<1>21. ASSUME NEW seat \in Range(Seat), KickSender(seat) PROVE IInv'
  BY <1>21, KickSenderStep, StillKeeps
<1>22. CASE UNCHANGED vars
  <2>1. Typed' /\ Still
    BY <1>22, ChatStep DEF vars, tab, server, chat, history, Typed, ChatOK
  <2>2. QED
    BY <1>22, <2>1, StillKeeps, SpokenStays DEF vars, server, chat, history
<1>23. QED
  BY <1>1, <1>2, <1>3, <1>4, <1>5, <1>6, <1>7, <1>8, <1>9, <1>10, <1>11, <1>12, <1>13, <1>14,
     <1>15, <1>16, <1>17, <1>18, <1>19, <1>20, <1>21, <1>22 DEF Next

LEMMA IInvHolds == Spec => []IInv
<1>1. Init => IInv
  BY InitIInv
<1>2. IInv /\ [Next]_vars => IInv'
  BY NextIInv
<1>3. QED
  BY <1>1, <1>2, PTL DEF Spec

-----------------------------------------------------------------------------
(* What follows from it. *)

LEMMA LoopsBounded ==
  ASSUME IInv
  PROVE  /\ late <= Loops /\ Loops \in Nat /\ Loops <= 1 + overlaps
         /\ Loops <= Len(openings) /\ overlaps <= Len(openings) /\ Len(openings) <= MaxOpens
<1>1. /\ Cardinality(Live) \in Nat /\ Cardinality(Suspended) \in Nat /\ late \in Nat
      /\ overlaps \in Nat /\ Loops \in Nat /\ Len(openings) \in Nat
      /\ Cardinality(pending) \in Nat
  BY Counted, LoopsAreNat, FS_CardinalityType
     DEF IInv, Typed, PanelOK, PendingOK, OpeningsOK
<1>2. late <= Loops
  BY <1>1 DEF Loops
<1>3. Loops <= 1 + overlaps /\ Loops <= Len(openings) /\ overlaps <= Len(openings)
  BY <1>1 DEF IInv, TabInv, CountOK
<1>4. Len(openings) <= MaxOpens
  BY <1>1, BoundsAssumption DEF IInv, Typed, PendingOK
<1>5. QED
  BY <1>1, <1>2, <1>3, <1>4

LEMMA AliveWhenKept ==
  ASSUME IInv
  PROVE  ShownRoomIsAlive
<1>1. SUFFICES ASSUME screen = "room", ~stranded
               PROVE  Loops > 0
  BY DEF ShownRoomIsAlive
<1>2. /\ Cardinality(Live) \in Nat /\ Cardinality(Suspended) \in Nat /\ late \in Nat
      /\ Cardinality(Live) = 0 <=> Live = {}
      /\ Cardinality(Suspended) = 0 <=> Suspended = {}
  BY Counted DEF IInv, Typed, PanelOK
<1>3. Live # {} \/ timer \/ late > 0 \/ Suspended # {}
  BY <1>1 DEF IInv, TabInv, RoomIsKept
<1>4. QED
  BY <1>2, <1>3 DEF Loops

LEMMA TypedIsTypeOK ==
  ASSUME IInv
  PROVE  TypeOK
<1>1. /\ screen \in {"auth", "studio", "room"} /\ room \in Room \cup {NoRoom}
      /\ {intentional, timer, signed, stranded, applying} \subseteq BOOLEAN
      /\ socket \in {0} \cup Slot
  <2>1. /\ intentional \in BOOLEAN /\ signed \in BOOLEAN /\ stranded \in BOOLEAN
        /\ applying \in BOOLEAN /\ timer \in BOOLEAN
    BY DEF IInv, Typed, PanelOK
  <2>2. {intentional, timer, signed, stranded, applying} \subseteq BOOLEAN
    BY <2>1, Zenon
  <2>3. QED
    BY <2>2 DEF IInv, Typed, PanelOK
<1>2. late \in 0..MaxOpens /\ overlaps \in 0..MaxOpens
  <2>1. late \in Nat /\ overlaps \in Nat /\ Len(openings) \in Nat
    BY DEF IInv, Typed, PanelOK, OpeningsOK
  <2>2. QED
    BY <2>1, LoopsBounded, BoundsAssumption
<1>3. \A i \in Slot :
        \/ sockets[i] = Free
        \/ /\ sockets[i].at \in {"connecting", "open", "closing"} /\ sockets[i].room \in Room
           /\ sockets[i].feed \in Seq({State, Kicked} \cup {Chat(n) : n \in Line})
           /\ sockets[i].at # "open" => sockets[i].feed = <<>>
  <2>1. \A x \in Waiting : /\ x.at \in {"connecting", "closing"} /\ x.room \in Room
                           /\ x.feed = <<>>
    BY DEF Waiting
  <2>2. \A x \in Open : x.at = "open" /\ x.room \in Room /\ x.feed \in Seq(Msg)
    BY DEF Open
  <2>3. \A i \in Slot : sockets[i] = Free \/ sockets[i] \in Waiting \/ sockets[i] \in Open
    BY DEF IInv, Typed, SocketsOK, Socket
  <2>4. <<>> \in Seq(Msg)
    OBVIOUS
  <2>5. QED
    BY <2>1, <2>2, <2>3, <2>4 DEF Msg
<1>4. /\ Len(openings) <= MaxOpens
      /\ \A o \in DOMAIN openings :
           \/ openings[o] = Done
           \/ openings[o].at = "asking" /\ openings[o].room \in Room
           \/ openings[o].at = "answered" /\ openings[o].lines \subseteq Line
  <2>1. \A o \in DOMAIN openings : openings[o] \in Opening
    BY DEF IInv, Typed, OpeningsOK
  <2>2. QED
    BY <2>1, LoopsBounded DEF Opening
<1>5. pending \subseteq Room /\ member \subseteq Room /\ barred \subseteq Range(Seat)
  BY DEF IInv, Typed, PendingOK, ChatOK
<1>6. /\ lines \in Seq(Range(Seat)) /\ Len(lines) <= MaxLines
      /\ shown \in [Line -> Nat] /\ excused \subseteq Line /\ spoken \in [Sender -> 0..MaxLines]
  <2>1. /\ lines \in Seq(Range(Seat)) /\ Len(lines) <= MaxLines
        /\ Len(lines) \in Nat /\ spoken \in [Sender -> 0..Len(lines)]
    BY DEF IInv, Typed, ChatOK
  <2>2. 0..Len(lines) \subseteq 0..MaxLines
    BY <2>1, BoundsAssumption
  <2>3. QED
    BY <2>1, <2>2 DEF IInv, Typed, ChatOK
<1>7. \A s \in Sender :
        \/ job[s] = Idle
        \/ job[s].at = "tested"
        \/ job[s].at = "stored" /\ job[s].line \in DOMAIN lines
  <2>1. DOMAIN lines = 1..Len(lines) /\ \A s \in Sender : job[s] \in JobAfter(Len(lines))
    BY DEF IInv, Typed, ChatOK
  <2>2. QED
    BY <2>1 DEF JobAfter, Tested
<1>8. QED
  BY <1>1, <1>2, <1>3, <1>4, <1>5, <1>6, <1>7 DEF TypeOK

-----------------------------------------------------------------------------
(* Theorems. *)

\* Every variable of the tab, its connections and the chat keeps its type and its bound: no
\* more timeouts are forgotten, and no more openings overlap, than openRoom was called.
THEOREM TypeCorrect == Spec => []TypeOK
<1>1. IInv => TypeOK
  BY TypedIsTypeOK
<1>2. QED
  BY <1>1, IInvHolds, PTL

\* A tab never has more connections, reconnections and openings under way than one and one for
\* each openRoom that overtook an earlier one (app.js:27-33, 46-47).
THEOREM StraysCorrect == Spec => []StraysComeOfOverlap
<1>1. IInv => StraysComeOfOverlap
  BY DEF IInv, TabInv, CountOK, StraysComeOfOverlap
<1>2. QED
  BY <1>1, IInvHolds, PTL

\* A tab that shows a room never stops trying to be connected to it, as long as its history
\* could be had (app.js:32, 42-49).
THEOREM AliveCorrect == Spec => []ShownRoomIsAlive
<1>1. IInv => ShownRoomIsAlive
  BY AliveWhenKept
<1>2. QED
  BY <1>1, IInvHolds, PTL

\* A tab that has left its room, or was kicked out of it or signed out, is connected only by
\* strays, one for each opening that overlapped at most: no timeout, close event or openRoom
\* still under way connects it again (app.js:21, 37, 46, 95).
THEOREM LeftCorrect == Spec => []LeftKeepsOnlyStrays
<1>1. IInv => LeftKeepsOnlyStrays
  <2>1. SUFFICES ASSUME TabInv, screen # "room"
                 PROVE  Cardinality({i \in Live : sockets[i].at # "closing"}) <= overlaps
    BY DEF IInv, LeftKeepsOnlyStrays
  <2>2. {i \in Live : sockets[i].at # "closing"} = Strays
    BY <2>1 DEF TabInv, CurrentIsClosed, Strays
  <2>3. QED
    BY <2>1, <2>2 DEF TabInv, StraysCounted
<1>2. QED
  BY <1>1, IInvHolds, PTL

\* However the test and the INSERT of AddChatMessage interleave with a kick, one line is stored
\* at most from each connection of the user who was kicked (store.go:384, 392).
THEOREM KickedCorrect == Spec => []KickedSaysOneEach
<1>1. IInv => KickedSaysOneEach
  BY DEF IInv, SpokenOnce, KickedSaysOneEach
<1>2. QED
  BY <1>1, IInvHolds, PTL
=============================================================================
