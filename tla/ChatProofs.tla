----------------------------- MODULE ChatProofs -----------------------------
(***************************************************************************)
(* The proof that a tab shows each chat line of its room once (Tab,        *)
(* EachLineOnce), for any rooms, senders, history limit and bounds.  It    *)
(* follows a line from its INSERT to the chat log: it is with its sender,  *)
(* on its way to the tab, in the history that openRoom has got, or shown,  *)
(* and in one of these places only.                                        *)
(***************************************************************************)
EXTENDS TabProofs

\* What a connection that is open has yet to be received.
Feed(i) == IF sockets[i].at = "open" THEN sockets[i].feed ELSE <<>>

Holds(feed, n) == \E k \in DOMAIN feed : feed[k] = Chat(n)

Coming(n) == \E i \in Slot : Holds(Feed(i), n)

Fetched(n) == \E o \in DOMAIN openings : openings[o].at = "answered" /\ n \in openings[o].lines

Asking == \E o \in DOMAIN openings : openings[o].at = "asking"

\* No two senders are about to broadcast the same line.
JobsDistinct ==
  \A s, t \in Sender :
    job[s].at = "stored" /\ job[t].at = "stored" /\ job[s].line = job[t].line => s = t

Once(feed, n) == \A j, k \in DOMAIN feed : feed[j] = Chat(n) /\ feed[k] = Chat(n) => j = k

\* A line is at most once in a feed, and no longer with its sender then.
FeedOK(feed) ==
  \A n \in Line :
    /\ Holds(feed, n) => n \in DOMAIN lines /\ n \notin InFlight
    /\ Once(feed, n)

FeedsOK == \A i \in Slot : FeedOK(Feed(i))

OnlyStored ==
  /\ \A n \in Line : Fetched(n) => n \in DOMAIN lines
  /\ \A n \in Line \ DOMAIN lines : shown[n] = 0

OneOpening == overlaps = 0 => Suspended \subseteq {Len(openings)}

\* A room that was opened when nothing was left of an earlier one.
Fresh == overlaps = 0 /\ screen = "room"

RoomAgrees ==
  Fresh => /\ \A i \in Live : sockets[i].room = room
           /\ \A o \in DOMAIN openings : openings[o].at = "asking" => openings[o].room = room

BlankUntilOpen == Fresh /\ Suspended # {} => \A n \in Line : shown[n] = 0

\* A line of the room is in one place; one of another room is nowhere in the tab.
LineRight(n) ==
  IF lines[n].room # room
  THEN shown[n] = 0 /\ ~Coming(n) /\ ~Fetched(n)
  ELSE \/ n \in InFlight /\ shown[n] = 0 /\ ~Coming(n) /\ ~Fetched(n)
       \/ n \notin InFlight /\ shown[n] = 1 /\ ~Coming(n) /\ ~Fetched(n)
       \/ n \notin InFlight /\ shown[n] = 0 /\ Coming(n) /\ ~Fetched(n)
       \/ n \notin InFlight /\ shown[n] = 0 /\ ~Coming(n) /\ Fetched(n)

LinesRight ==
  Fresh /\ ~stranded /\ ~Asking => \A n \in DOMAIN lines : n \in excused \/ LineRight(n)

LineInv ==
  /\ JobsDistinct /\ FeedsOK /\ OnlyStored /\ OneOpening
  /\ RoomAgrees /\ BlankUntilOpen /\ LinesRight

ChatInv == IInv /\ LineInv

-----------------------------------------------------------------------------
(* Messages and feeds. *)

LEMMA Kinds ==
  /\ \A n, m : Chat(n) = Chat(m) => n = m
  /\ \A n : Chat(n) # State /\ Chat(n) # Kicked
  /\ \A m \in Msg : m.type = "chat.message" => m.line \in Line /\ m = Chat(m.line)
  /\ \A m \in Msg, n \in Line : m.type # "chat.message" => m # Chat(n)
<1>1. /\ State.type = "room.state" /\ Kicked.type = "kicked"
      /\ \A n : Chat(n).type = "chat.message" /\ Chat(n).line = n
  BY DEF State, Kicked, Chat
<1>2. \A m \in Msg : m = State \/ m = Kicked \/ \E n \in Line : m = Chat(n)
  BY DEF Msg
<1>3. QED
  BY <1>1, <1>2

LEMMA FeedIsSeq ==
  /\ SocketsOK => \A i \in Slot : Feed(i) \in Seq(Msg)
  /\ SocketsOK' => \A i \in Slot : Feed(i)' \in Seq(Msg)
<1>1. \A x \in Socket : (IF x.at = "open" THEN x.feed ELSE <<>>) \in Seq(Msg)
  <2>1. <<>> \in Seq(Msg)
    OBVIOUS
  <2>2. \A x \in Open : x.feed \in Seq(Msg)
    BY DEF Open
  <2>3. QED
    BY <2>1, <2>2, SocketAt
<1>2. QED
  BY <1>1 DEF Feed, SocketsOK

LEMMA EmptyHoldsNothing == \A n : ~Holds(<<>>, n)
BY DEF Holds

LEMMA FirstHoldsNothing == \A n : ~Holds(<<State>>, n)
BY Kinds DEF Holds

LEMMA Taking ==
  ASSUME NEW feed \in Seq(Msg), feed # <<>>, NEW n
  PROVE  /\ Holds(feed, n) <=> Head(feed) = Chat(n) \/ Holds(Tail(feed), n)
         /\ Once(feed, n) => /\ Once(Tail(feed), n)
                             /\ Head(feed) = Chat(n) => ~Holds(Tail(feed), n)
<1>1. /\ Len(feed) \in Nat /\ Len(feed) > 0 /\ DOMAIN feed = 1..Len(feed)
      /\ DOMAIN Tail(feed) = 1..(Len(feed) - 1) /\ Head(feed) = feed[1]
      /\ \A k \in 1..(Len(feed) - 1) : Tail(feed)[k] = feed[k + 1]
  OBVIOUS
<1>2. Holds(feed, n) <=> Head(feed) = Chat(n) \/ Holds(Tail(feed), n)
  <2>1. ASSUME Holds(feed, n) PROVE Head(feed) = Chat(n) \/ Holds(Tail(feed), n)
    <3>1. PICK k \in 1..Len(feed) : feed[k] = Chat(n)
      BY <1>1, <2>1 DEF Holds
    <3>2. CASE k = 1
      BY <1>1, <3>1, <3>2
    <3>3. CASE k # 1
      <4>1. k - 1 \in 1..(Len(feed) - 1) /\ Tail(feed)[k - 1] = feed[k]
        BY <1>1, <3>1, <3>3
      <4>2. QED
        BY <1>1, <3>1, <4>1 DEF Holds
    <3>4. QED
      BY <3>2, <3>3
  <2>2. ASSUME Head(feed) = Chat(n) PROVE Holds(feed, n)
    BY <1>1, <2>2 DEF Holds
  <2>3. ASSUME Holds(Tail(feed), n) PROVE Holds(feed, n)
    <3>1. PICK k \in 1..(Len(feed) - 1) : feed[k + 1] = Chat(n)
      BY <1>1, <2>3 DEF Holds
    <3>2. QED
      BY <1>1, <3>1 DEF Holds
  <2>4. QED
    BY <2>1, <2>2, <2>3
<1>3. ASSUME Once(feed, n)
      PROVE  Once(Tail(feed), n) /\ (Head(feed) = Chat(n) => ~Holds(Tail(feed), n))
  <2>1. ASSUME NEW j \in 1..(Len(feed) - 1), NEW k \in 1..(Len(feed) - 1),
               Tail(feed)[j] = Chat(n), Tail(feed)[k] = Chat(n)
        PROVE  j = k
    <3>1. j + 1 \in DOMAIN feed /\ k + 1 \in DOMAIN feed
      BY <1>1
    <3>2. j + 1 = k + 1
      BY <1>1, <1>3, <2>1, <3>1 DEF Once
    <3>3. QED
      BY <3>2
  <2>2. ASSUME Head(feed) = Chat(n), Holds(Tail(feed), n) PROVE FALSE
    <3>1. PICK k \in 1..(Len(feed) - 1) : feed[k + 1] = Chat(n)
      BY <1>1, <2>2 DEF Holds
    <3>2. 1 \in DOMAIN feed /\ k + 1 \in DOMAIN feed
      BY <1>1
    <3>3. k + 1 = 1
      BY <1>1, <1>3, <2>2, <3>1, <3>2 DEF Once
    <3>4. QED
      BY <3>1, <3>3
  <2>3. QED
    BY <1>1, <2>1, <2>2 DEF Once
<1>4. QED
  BY <1>2, <1>3

LEMMA Adding ==
  ASSUME NEW feed \in Seq(Msg), NEW m \in Msg, NEW n
  PROVE  /\ Holds(Append(feed, m), n) <=> Holds(feed, n) \/ m = Chat(n)
         /\ Once(feed, n) /\ (~Holds(feed, n) \/ m # Chat(n)) => Once(Append(feed, m), n)
<1>1. /\ Len(feed) \in Nat /\ DOMAIN feed = 1..Len(feed)
      /\ DOMAIN Append(feed, m) = 1..(Len(feed) + 1) /\ Append(feed, m)[Len(feed) + 1] = m
      /\ \A k \in 1..Len(feed) : Append(feed, m)[k] = feed[k]
  OBVIOUS
<1>2. \A k \in 1..(Len(feed) + 1) : k \in 1..Len(feed) \/ k = Len(feed) + 1
  BY <1>1
<1>3. Len(feed) + 1 \in 1..(Len(feed) + 1) /\ 1..Len(feed) \subseteq 1..(Len(feed) + 1)
  BY <1>1
<1>4. QED
  BY <1>1, <1>2, <1>3 DEF Holds, Once

\* What becomes of a feed when no line is broadcast.
NoNews(feed, next) ==
  \/ next \in {feed, <<>>, <<State>>, Append(feed, Kicked)}
  \/ feed # <<>> /\ next = Tail(feed)

LEMMA NothingNew ==
  ASSUME NEW feed \in Seq(Msg), NEW next, NoNews(feed, next), NEW n
  PROVE  /\ Holds(next, n) => Holds(feed, n)
         /\ Once(feed, n) => Once(next, n)
<1>1. CASE next = feed
  BY <1>1
<1>2. CASE next = <<>>
  BY <1>2 DEF Holds, Once
<1>3. CASE next = <<State>>
  BY <1>3, FirstHoldsNothing DEF Once
<1>4. CASE next = Append(feed, Kicked)
  <2>1. Kicked \in Msg /\ Kicked # Chat(n)
    BY Kinds DEF Msg
  <2>2. QED
    BY <1>4, <2>1, Adding
<1>5. CASE feed # <<>> /\ next = Tail(feed)
  BY <1>5, Taking
<1>6. QED
  BY <1>1, <1>2, <1>3, <1>4, <1>5 DEF NoNews

\* What Coming and FeedsOK are after a step.
LEMMA ComingAfter == \A n : Coming(n)' <=> \E i \in Slot : Holds(Feed(i)', n)
BY DEF Coming, Holds

LEMMA FeedsOKAfter ==
  ASSUME \A i \in Slot, n \in Line :
           /\ Holds(Feed(i)', n) => n \in DOMAIN lines' /\ n \notin InFlight'
           /\ Once(Feed(i)', n)
  PROVE  FeedsOK'
BY DEF FeedsOK, FeedOK, Holds, Once

LEMMA FeedsKept ==
  ASSUME SocketsOK, FeedsOK, \A i \in Slot : NoNews(Feed(i), Feed(i)'),
         InFlight' = InFlight, DOMAIN lines' = DOMAIN lines
  PROVE  FeedsOK' /\ \A n : Coming(n)' => Coming(n)
<1>1. ASSUME NEW i \in Slot, NEW n
      PROVE  /\ Holds(Feed(i)', n) => Holds(Feed(i), n)
             /\ Once(Feed(i), n) => Once(Feed(i)', n)
  <2>1. Feed(i) \in Seq(Msg) /\ NoNews(Feed(i), Feed(i)')
    BY FeedIsSeq
  <2>2. QED
    BY <2>1, NothingNew
<1>2. \A n : Coming(n)' => Coming(n)
  BY <1>1, ComingAfter DEF Coming
<1>3. ASSUME NEW i \in Slot, NEW n \in Line
      PROVE  /\ Holds(Feed(i)', n) => n \in DOMAIN lines' /\ n \notin InFlight'
             /\ Once(Feed(i)', n)
  <2>1. /\ Holds(Feed(i), n) => n \in DOMAIN lines /\ n \notin InFlight
        /\ Once(Feed(i), n)
    BY DEF FeedsOK, FeedOK
  <2>2. QED
    BY <1>1, <2>1
<1>4. FeedsOK'
  BY <1>3, FeedsOKAfter
<1>5. QED
  BY <1>2, <1>4

-----------------------------------------------------------------------------
(* Feeds and steps of the sockets. *)

LEMMA FeedMoved ==
  ASSUME SocketsOK, NEW i \in Slot, NEW x, sockets' = [sockets EXCEPT ![i] = x]
  PROVE  /\ Feed(i)' = IF x.at = "open" THEN x.feed ELSE <<>>
         /\ \A j \in Slot : j # i => sockets'[j] = sockets[j] /\ Feed(j)' = Feed(j)
         /\ sockets'[i] = x
<1>1. sockets'[i] = x /\ \A j \in Slot : j # i => sockets'[j] = sockets[j]
  BY DEF SocketsOK
<1>2. QED
  BY <1>1 DEF Feed

LEMMA FeedsFed ==
  ASSUME SocketsOK, NEW here \in SUBSET Connected, NEW m \in Msg,
         sockets' = [i \in Slot |-> IF i \in here THEN [sockets[i] EXCEPT !.feed = Append(@, m)]
                                    ELSE sockets[i]]
  PROVE  /\ \A i \in here : Feed(i)' = Append(Feed(i), m)
         /\ \A i \in Slot \ here : Feed(i)' = Feed(i)
         /\ Live' = Live /\ \A i \in Live : sockets'[i].room = sockets[i].room
<1>1. \A x \in Open : LET y == [x EXCEPT !.feed = Append(@, m)]
                      IN  x.at = "open" /\ y.at = "open" /\ y.room = x.room /\ y.feed = Append(x.feed, m)
  BY DEF Open
<1>2. \A i \in here : /\ i \in Slot /\ sockets[i] \in Open
                      /\ sockets'[i] = [sockets[i] EXCEPT !.feed = Append(@, m)]
  BY SocketAt DEF Connected, SocketsOK
<1>3. \A i \in here : /\ sockets[i].at = "open" /\ sockets'[i].at = "open"
                      /\ sockets'[i].room = sockets[i].room
                      /\ sockets'[i].feed = Append(sockets[i].feed, m)
  BY <1>1, <1>2
<1>4. \A i \in Slot \ here : sockets'[i] = sockets[i]
  OBVIOUS
<1>5. Live' = Live
  BY SocketsFed
<1>6. \A i \in Live : sockets'[i].room = sockets[i].room
  BY <1>3, <1>4 DEF Live
<1>7. QED
  BY <1>2, <1>3, <1>4, <1>5, <1>6 DEF Feed

\* Closing the current socket empties its feed.
LEMMA FeedClosed ==
  ASSUME PanelOK, SocketsOK, NEW i \in Slot, NEW x, x = SocketClosed[i]
  PROVE  (IF x.at = "open" THEN x.feed ELSE <<>>) \in {Feed(i), <<>>}
<1>1. CASE i # socket
  BY <1>1, ClosedSocket DEF Feed
<1>2. CASE i = socket /\ sockets[socket].at # "free"
  <2>1. x.at = "closing"
    BY <1>2, ClosedSocket
  <2>2. QED
    BY <2>1
<1>3. CASE i = socket /\ sockets[socket].at = "free"
  BY <1>3 DEF SocketClosed, Feed
<1>4. QED
  BY <1>1, <1>2, <1>3

-----------------------------------------------------------------------------
(* Steps in which no line moves on, other than into excused. *)

\* Without an overlap there is one connection or one opening, not both.
LEMMA Alone ==
  ASSUME IInv, overlaps = 0
  PROVE  (Suspended # {} => Live = {}) /\ \A i \in Live : i = socket
<1>1. /\ Cardinality(Live) \in Nat /\ Cardinality(Suspended) \in Nat /\ late \in Nat
      /\ Cardinality(Live) = 0 <=> Live = {}
      /\ Cardinality(Suspended) = 0 <=> Suspended = {}
  BY Counted DEF IInv, Typed, PanelOK
<1>2. Loops <= 1
  BY DEF IInv, TabInv, CountOK
<1>3. Suspended # {} => Live = {}
  BY <1>1, <1>2 DEF Loops
<1>4. QED
  BY <1>3 DEF IInv, TabInv, OneSocket

LEMMA Unmoved ==
  ASSUME SocketsOK, ChatOK, LineInv, UNCHANGED <<lines, shown, openings, overlaps, stranded>>,
         InFlight' = InFlight, JobsDistinct', \A i \in Slot : NoNews(Feed(i), Feed(i)'),
         screen' = "room" =>
           /\ screen = "room" /\ room' = room
           /\ \A i \in Live' : \/ i \in Live /\ sockets'[i].room = sockets[i].room
                              \/ sockets'[i].room = room
           /\ \A n \in Line : Coming(n) => Coming(n)' \/ n \in excused',
         excused \subseteq excused'
  PROVE  LineInv'
<1>1. /\ \A n : Fetched(n)' <=> Fetched(n)
      /\ Asking' <=> Asking
      /\ Suspended' = Suspended
  BY DEF Fetched, Asking, Suspended
<1>2. FeedsOK' /\ \A n : Coming(n)' => Coming(n)
  BY FeedsKept DEF LineInv
<1>3. OnlyStored' /\ OneOpening'
  BY <1>1 DEF LineInv, OnlyStored, OneOpening
<1>4. Fresh' => Fresh
  BY DEF Fresh
<1>5. RoomAgrees'
  BY <1>4 DEF LineInv, RoomAgrees, Fresh
<1>6. BlankUntilOpen'
  BY <1>1, <1>4 DEF LineInv, BlankUntilOpen
<1>7. LinesRight'
  <2>1. SUFFICES ASSUME Fresh', ~stranded', ~Asking', NEW n \in DOMAIN lines, n \notin excused'
                 PROVE  LineRight(n)'
    BY DEF LinesRight
  <2>2. LineRight(n)
    BY <1>1, <1>4, <2>1 DEF LineInv, LinesRight
  <2>3. n \in Line /\ room' = room /\ (Coming(n)' <=> Coming(n))
    BY <1>2, <2>1, StoredAreLines DEF Fresh
  <2>4. QED
    BY <1>1, <2>2, <2>3 DEF LineRight
<1>8. QED
  BY <1>2, <1>3, <1>5, <1>6, <1>7 DEF LineInv

LEMMA SameJobs ==
  ASSUME UNCHANGED job, LineInv
  PROVE  InFlight' = InFlight /\ JobsDistinct'
BY DEF InFlight, LineInv, JobsDistinct

LEMMA SameSockets ==
  ASSUME UNCHANGED sockets
  PROVE  /\ \A i \in Slot : Feed(i)' = Feed(i) /\ NoNews(Feed(i), Feed(i)')
         /\ \A n : Coming(n)' <=> Coming(n)
         /\ Live' = Live
<1>1. \A i \in Slot : Feed(i)' = Feed(i)
  BY DEF Feed
<1>2. QED
  BY <1>1, ComingAfter DEF NoNews, Coming, Live

\* The tab stands still.
LEMMA StandsStill ==
  ASSUME ChatInv, UNCHANGED <<lines, shown, openings, overlaps, stranded, excused, sockets>>,
         InFlight' = InFlight, JobsDistinct',
         screen' = "room" => screen = "room" /\ room' = room
  PROVE  LineInv'
<1>1. /\ \A i \in Slot : NoNews(Feed(i), Feed(i)')
      /\ \A n : Coming(n)' <=> Coming(n)
      /\ Live' = Live
  BY SameSockets
<1>2. QED
  BY <1>1, Unmoved DEF ChatInv, IInv, Typed

LEMMA AskLines ==
  ASSUME ChatInv, NEW r \in Room, Ask(r)
  PROVE  LineInv'
BY SameJobs, StandsStill DEF Ask, ChatInv, panel, chat, history

LEMMA LoginLines ==
  ASSUME ChatInv, Login
  PROVE  LineInv'
BY SameJobs, StandsStill DEF Login, ChatInv, chat, history

LEMMA KickSenderLines ==
  ASSUME ChatInv, NEW seat, KickSender(seat)
  PROVE  LineInv'
BY SameJobs, StandsStill DEF KickSender, ChatInv, tab, panel, history

LEMMA StutterLines ==
  ASSUME ChatInv, UNCHANGED vars
  PROVE  LineInv'
BY SameJobs, StandsStill DEF ChatInv, vars, tab, panel, server, chat, history

LEMMA SendTestLines ==
  ASSUME ChatInv, NEW s \in Sender, SendTest(s)
  PROVE  LineInv'
<1>1. /\ job'[s].at = "tested" /\ job[s].at = "idle"
      /\ \A t \in Sender : t # s => job'[t] = job[t]
  BY DEF SendTest, ChatInv, IInv, Typed, ChatOK, Idle, Tested
<1>2. InFlight' = InFlight
  BY <1>1 DEF InFlight
<1>3. JobsDistinct'
  BY <1>1 DEF JobsDistinct, ChatInv, LineInv
<1>4. QED
  BY <1>2, <1>3, StandsStill DEF SendTest, tab, panel, history

LEMMA InsertFailsLines ==
  ASSUME ChatInv, NEW s \in Sender, InsertFails(s)
  PROVE  LineInv'
<1>1. /\ job'[s].at = "idle" /\ job[s].at = "tested"
      /\ \A t \in Sender : t # s => job'[t] = job[t]
  BY DEF InsertFails, ChatInv, IInv, Typed, ChatOK, Idle, Tested
<1>2. InFlight' = InFlight
  BY <1>1 DEF InFlight
<1>3. JobsDistinct'
  BY <1>1 DEF JobsDistinct, ChatInv, LineInv
<1>4. QED
  BY <1>2, <1>3, StandsStill DEF InsertFails, tab, panel, history

\* The tab leaves the room: what is shown no longer matters.
LEMMA LeavingLines ==
  ASSUME ChatInv, screen' # "room", \A i \in Slot : NoNews(Feed(i), Feed(i)'),
         UNCHANGED <<lines, job, shown, openings, overlaps, stranded, excused>>
  PROVE  LineInv'
<1>1. InFlight' = InFlight /\ JobsDistinct'
  BY SameJobs DEF ChatInv
<1>2. QED
  BY <1>1, Unmoved DEF ChatInv, IInv, Typed

LEMMA ClosedFeeds ==
  ASSUME PanelOK, SocketsOK, sockets' = SocketClosed
  PROVE  \A i \in Slot : NoNews(Feed(i), Feed(i)')
<1>1. ASSUME NEW i \in Slot
      PROVE  Feed(i)' \in {Feed(i), <<>>}
  <2>1. sockets'[i] = SocketClosed[i]
    OBVIOUS
  <2>2. Feed(i)' = IF sockets'[i].at = "open" THEN sockets'[i].feed ELSE <<>>
    BY DEF Feed
  <2>3. QED
    BY <2>1, <2>2, FeedClosed
<1>2. QED
  BY <1>1 DEF NoNews

LEMMA LeaveLines ==
  ASSUME ChatInv, Leave
  PROVE  LineInv'
<1>1. \A i \in Slot : NoNews(Feed(i), Feed(i)')
  BY ClosedFeeds DEF Leave, ChatInv, IInv, Typed
<1>2. QED
  BY <1>1, LeavingLines DEF Leave, server, chat, history

LEMMA LogoutLines ==
  ASSUME ChatInv, Logout
  PROVE  LineInv'
<1>1. \A i \in Slot : NoNews(Feed(i), Feed(i)')
  BY ClosedFeeds DEF Logout, ChatInv, IInv, Typed
<1>2. QED
  BY <1>1, LeavingLines DEF Logout, chat, history

LEMMA ReceiveKickedLines ==
  ASSUME ChatInv, NEW i \in Slot, ReceiveKicked(i)
  PROVE  LineInv'
<1> USE DEF ReceiveKicked, Arrives
<1>1. PanelOK /\ SocketsOK
  BY DEF ChatInv, IInv, Typed
<1>2. \A j \in Slot : NoNews(Feed(j), Feed(j)')
  <2>1. CASE socket = i
    BY <1>1, <2>1, ClosedFeeds
  <2>2. CASE socket # i
    <3>1. /\ SocketClosed \in [Slot -> Socket] /\ SocketClosed[i] = sockets[i]
          /\ sockets[i] \in Open
      BY <1>1, <2>2, ClosedSocket, SocketAt DEF SocketsOK
    <3>2. DEFINE x == [sockets[i] EXCEPT !.feed = Tail(@)]
    <3>3. x.at = "open" /\ x.feed = Tail(sockets[i].feed)
      BY <3>1 DEF Open
    <3>4. sockets' = [SocketClosed EXCEPT ![i] = x]
      BY <2>2, <3>1
    <3>5. sockets'[i] = x /\ \A j \in Slot : j # i => sockets'[j] = SocketClosed[j]
      BY <3>1, <3>4
    <3>6. Feed(i)' = Tail(Feed(i)) /\ Feed(i) # <<>>
      BY <3>3, <3>5 DEF Feed
    <3>7. ASSUME NEW j \in Slot, j # i
          PROVE  Feed(j)' \in {Feed(j), <<>>}
      <4>1. sockets'[j] = SocketClosed[j]
        BY <3>5, <3>7
      <4>2. Feed(j)' = IF sockets'[j].at = "open" THEN sockets'[j].feed ELSE <<>>
        BY DEF Feed
      <4>3. QED
        BY <1>1, <4>1, <4>2, FeedClosed
    <3>8. QED
      BY <3>6, <3>7 DEF NoNews
  <2>3. QED
    BY <2>1, <2>2
<1>3. QED
  BY <1>2, LeavingLines DEF server, chat, history

\* The tab stays in its room while a socket changes, none of a line still coming.
LEMMA SocketLines ==
  ASSUME ChatInv, NEW i \in Slot, NEW x, sockets' = [sockets EXCEPT ![i] = x],
         UNCHANGED <<screen, room, lines, job, shown, openings, overlaps, stranded>>,
         x.at # "free" => x.room = IF sockets[i].at = "free" THEN room ELSE sockets[i].room,
         NoNews(Feed(i), IF x.at = "open" THEN x.feed ELSE <<>>),
         excused \subseteq excused',
         \A n \in Line : Holds(Feed(i), n) =>
           n \in excused' \/ (x.at = "open" /\ Holds(x.feed, n))
  PROVE  LineInv'
<1>1. SocketsOK /\ ChatOK /\ LineInv
  BY DEF ChatInv, IInv, Typed
<1>2. InFlight' = InFlight /\ JobsDistinct'
  BY <1>1, SameJobs
<1>3. /\ Feed(i)' = IF x.at = "open" THEN x.feed ELSE <<>>
      /\ \A j \in Slot : j # i => sockets'[j] = sockets[j] /\ Feed(j)' = Feed(j)
      /\ sockets'[i] = x
  BY <1>1, FeedMoved
<1>4. \A j \in Slot : NoNews(Feed(j), Feed(j)')
  BY <1>3 DEF NoNews
<1>5. \A j \in Live' : \/ j \in Live /\ sockets'[j].room = sockets[j].room
                      \/ sockets'[j].room = room
  BY <1>3 DEF Live
<1>6. ASSUME NEW n \in Line, Coming(n) PROVE Coming(n)' \/ n \in excused'
  <2>1. PICK j \in Slot : Holds(Feed(j), n)
    BY <1>6 DEF Coming
  <2>2. n \in excused' \/ Holds(Feed(j)', n)
    BY <1>3, <2>1
  <2>3. QED
    BY <2>2, ComingAfter
<1>7. QED
  BY <1>1, <1>2, <1>4, <1>5, <1>6, Unmoved

LEMMA AcceptLines ==
  ASSUME ChatInv, NEW i \in Slot, Accept(i)
  PROVE  LineInv'
<1> USE DEF Accept
<1> DEFINE x == [sockets[i] EXCEPT !.at = "open", !.feed = <<State>>]
<1>1. sockets[i] \in Waiting
  BY SocketAt DEF ChatInv, IInv, Typed, SocketsOK
<1>2. x.at = "open" /\ x.feed = <<State>> /\ x.room = sockets[i].room
  BY <1>1 DEF Waiting
<1>3. Feed(i) = <<>> /\ sockets[i].at = "connecting"
  BY DEF Feed
<1>4. NoNews(Feed(i), <<State>>) /\ \A n \in Line : ~Holds(Feed(i), n)
  BY <1>3, EmptyHoldsNothing DEF NoNews
<1>5. sockets' = [sockets EXCEPT ![i] = x]
  OBVIOUS
<1>6. UNCHANGED <<screen, room, lines, job, shown, openings, overlaps, stranded, excused>>
  BY DEF panel, server, chat, history
<1> HIDE DEF x, Accept
<1>7. QED
  BY <1>2, <1>3, <1>4, <1>5, <1>6, SocketLines

LEMMA EndsLines ==
  ASSUME ChatInv, NEW i \in Slot, Ends(i)
  PROVE  LineInv'
<1> USE DEF Ends
<1> DEFINE x == [sockets[i] EXCEPT !.at = "closing", !.feed = <<>>]
<1>1. sockets[i] \in Waiting \cup Open
  BY SocketAt DEF ChatInv, IInv, Typed, SocketsOK
<1>2. x.at = "closing" /\ x.room = sockets[i].room
  BY <1>1 DEF Waiting, Open
<1>3. NoNews(Feed(i), <<>>)
  BY DEF NoNews
<1>4. ASSUME NEW n \in Line, Holds(Feed(i), n) PROVE n \in excused'
  <2>1. Feed(i) = sockets[i].feed
    BY <1>4, EmptyHoldsNothing DEF Feed
  <2>2. PICK k \in DOMAIN sockets[i].feed : sockets[i].feed[k] = Chat(n)
    BY <1>4, <2>1 DEF Holds
  <2>3. Chat(n) \in Range(sockets[i].feed)
    BY <2>2 DEF Range
  <2>4. QED
    BY <2>3
<1>5. sockets' = [sockets EXCEPT ![i] = x]
  OBVIOUS
<1>6. /\ UNCHANGED <<screen, room, lines, job, shown, openings, overlaps, stranded>>
      /\ excused \subseteq excused' /\ sockets[i].at # "free"
  BY DEF panel, server, chat
<1> HIDE DEF x, Ends
<1>7. QED
  BY <1>2, <1>3, <1>4, <1>5, <1>6, SocketLines

LEMMA CloseEventLines ==
  ASSUME ChatInv, NEW i \in Slot, CloseEvent(i)
  PROVE  LineInv'
<1>1. Feed(i) = <<>> /\ NoNews(Feed(i), <<>>) /\ \A n \in Line : ~Holds(Feed(i), n)
  BY EmptyHoldsNothing DEF CloseEvent, Feed, NoNews
<1>2. sockets' = [sockets EXCEPT ![i] = Free] /\ Free.at = "free"
  BY DEF CloseEvent, Free
<1>3. UNCHANGED <<screen, room, lines, job, shown, openings, overlaps, stranded, excused>>
  BY DEF CloseEvent, panel, server, chat, history
<1>4. QED
  BY <1>1, <1>2, <1>3, SocketLines

LEMMA ReceiveStateLines ==
  ASSUME ChatInv, NEW i \in Slot, ReceiveState(i)
  PROVE  LineInv'
<1> USE DEF ReceiveState, Arrives
<1> DEFINE x == [sockets[i] EXCEPT !.feed = Tail(@)]
<1>1. sockets[i] \in Open
  BY SocketAt DEF ChatInv, IInv, Typed, SocketsOK
<1>2. x.at = "open" /\ x.feed = Tail(sockets[i].feed) /\ x.room = sockets[i].room
  BY <1>1 DEF Open
<1>3. Feed(i) = sockets[i].feed /\ sockets[i].feed \in Seq(Msg) /\ sockets[i].feed # <<>>
  BY <1>1 DEF Feed, Open
<1>4. NoNews(Feed(i), Tail(sockets[i].feed))
  BY <1>3 DEF NoNews
<1>5. ASSUME NEW n \in Line, Holds(Feed(i), n) PROVE Holds(Tail(sockets[i].feed), n)
  <2>1. Head(sockets[i].feed) \in Msg
    BY <1>3
  <2>2. Head(sockets[i].feed) # Chat(n)
    BY <2>1, Kinds
  <2>3. QED
    BY <1>3, <1>5, <2>2, Taking
<1>6. sockets' = [sockets EXCEPT ![i] = x]
  BY DEF Shifted
<1>7. /\ UNCHANGED <<screen, room, lines, job, shown, openings, overlaps, stranded, excused>>
      /\ sockets[i].at # "free"
  BY DEF panel, server, chat, history
<1> HIDE DEF x, ReceiveState, Arrives
<1>8. QED
  BY <1>2, <1>4, <1>5, <1>6, <1>7, SocketLines

LEMMA TimerFiresLines ==
  ASSUME ChatInv, TimerFires
  PROVE  LineInv'
<1>1. UNCHANGED <<screen, room, lines, job, shown, openings, overlaps, stranded, excused>>
  BY DEF TimerFires, panel, server, chat, history
<1>2. CASE room = NoRoom \/ intentional
  <2>1. UNCHANGED sockets
    BY <1>2 DEF TimerFires, ConnectSocket
  <2>2. QED
    BY <1>1, <2>1, SameJobs, StandsStill DEF ChatInv
<1>3. CASE ~(room = NoRoom \/ intentional)
  <2>1. DEFINE x == [at |-> "connecting", room |-> room, feed |-> <<>>]
  <2>2. PICK i \in Slot : sockets[i] = Free /\ sockets' = [sockets EXCEPT ![i] = x]
    BY <1>3 DEF TimerFires, ConnectSocket
  <2>3. /\ Feed(i) = <<>> /\ NoNews(Feed(i), <<>>) /\ sockets[i].at = "free"
        /\ \A n \in Line : ~Holds(Feed(i), n)
    BY <2>2, EmptyHoldsNothing DEF Feed, Free, NoNews
  <2>4. x.at = "connecting" /\ x.room = room
    OBVIOUS
  <2> HIDE DEF x
  <2>5. QED
    BY <1>1, <2>2, <2>3, <2>4, SocketLines
<1>4. QED
  BY <1>2, <1>3

LEMMA KickUserLines ==
  ASSUME ChatInv, NEW r \in Room, KickUser(r)
  PROVE  LineInv'
<1> DEFINE here == {i \in Connected : sockets[i].room = r}
<1>1. SocketsOK /\ ChatOK /\ LineInv
  BY DEF ChatInv, IInv, Typed
<1>2. here \subseteq Connected /\ Kicked \in Msg
  BY DEF Msg
<1>3. sockets' = [i \in Slot |-> IF i \in here THEN [sockets[i] EXCEPT !.feed = Append(@, Kicked)]
                                 ELSE sockets[i]]
  BY DEF KickUser
<1>4. /\ \A i \in here : Feed(i)' = Append(Feed(i), Kicked)
      /\ \A i \in Slot \ here : Feed(i)' = Feed(i)
      /\ Live' = Live /\ \A i \in Live : sockets'[i].room = sockets[i].room
  BY <1>1, <1>2, <1>3, FeedsFed
<1>5. \A i \in Slot : NoNews(Feed(i), Feed(i)')
  BY <1>4 DEF NoNews
<1>6. ASSUME NEW n \in Line, Coming(n) PROVE Coming(n)'
  <2>1. PICK i \in Slot : Holds(Feed(i), n)
    BY <1>6 DEF Coming
  <2>2. Holds(Feed(i)', n)
    <3>1. Feed(i) \in Seq(Msg)
      BY <1>1, FeedIsSeq
    <3>2. Feed(i)' \in {Feed(i), Append(Feed(i), Kicked)}
      BY <1>4
    <3>3. Holds(Append(Feed(i), Kicked), n)
      BY <1>2, <2>1, <3>1, Adding
    <3>4. QED
      BY <2>1, <3>2, <3>3, Zenon
  <2>3. QED
    BY <2>2, ComingAfter
<1>7. InFlight' = InFlight /\ JobsDistinct'
  BY <1>1, SameJobs DEF KickUser, chat
<1>8. UNCHANGED <<screen, room, lines, shown, openings, overlaps, stranded, excused>>
  BY DEF KickUser, panel, chat, history
<1>9. QED
  BY <1>1, <1>4, <1>5, <1>6, <1>7, <1>8, Unmoved

-----------------------------------------------------------------------------
(* Openings. *)

LEMMA OpenRoomLines ==
  ASSUME ChatInv, NEW r \in Room, OpenRoom(r)
  PROVE  LineInv'
<1> USE DEF OpenRoom
<1> DEFINE x == [at |-> "asking", room |-> r]
<1>1. /\ PanelOK /\ SocketsOK /\ ChatOK /\ OpeningsOK /\ LineInv
      /\ InFlight' = InFlight /\ JobsDistinct'
  BY SameJobs DEF ChatInv, IInv, Typed, server, chat
<1>2. UNCHANGED lines
  BY DEF server, chat
<1>3. FeedsOK'
  <2>1. \A i \in Slot : NoNews(Feed(i), Feed(i)')
    BY <1>1, ClosedFeeds
  <2>2. QED
    BY <1>1, <1>2, <2>1, FeedsKept DEF LineInv
<1>4. /\ Len(openings') = Len(openings) + 1 /\ Len(openings) \in Nat
      /\ DOMAIN openings = 1..Len(openings) /\ DOMAIN openings' = 1..(Len(openings) + 1)
      /\ openings'[Len(openings')] = x
      /\ \A o \in DOMAIN openings : openings'[o] = openings[o]
  BY <1>1 DEF OpeningsOK
<1>5. \A n : Fetched(n)' => Fetched(n)
  <2>1. ASSUME NEW n, NEW o \in DOMAIN openings', openings'[o].at = "answered",
               n \in openings'[o].lines
        PROVE  Fetched(n)
    <3>1. o # Len(openings')
      BY <1>4, <2>1
    <3>2. o \in DOMAIN openings /\ openings'[o] = openings[o]
      BY <1>4, <2>1, <3>1
    <3>3. QED
      BY <2>1, <3>2 DEF Fetched
  <2>2. QED
    BY <2>1 DEF Fetched
<1>6. Asking'
  BY <1>4 DEF Asking
<1>7. OnlyStored'
  BY <1>1, <1>2, <1>5 DEF LineInv, OnlyStored
<1>8. overlaps' = 0 => Live = {} /\ Suspended = {}
  BY <1>1 DEF PanelOK
<1>9. Suspended' = Suspended \cup {Len(openings')}
  <2>1. x \in Opening /\ x # Done
    BY DEF Opening, Done
  <2>2. QED
    BY <1>1, <2>1, OpeningAdded
<1>10. OneOpening'
  BY <1>8, <1>9 DEF OneOpening
<1>11. RoomAgrees'
  <2>1. \A i \in Slot : sockets'[i].at # "free" <=> sockets[i].at # "free"
    BY <1>1, ClosedSocket
  <2>2. Live' = Live
    BY <2>1 DEF Live
  <2>3. SUFFICES ASSUME overlaps' = 0, NEW o \in DOMAIN openings', openings'[o].at = "asking"
                 PROVE  openings'[o].room = r
    BY <1>8, <2>2 DEF RoomAgrees, Fresh
  <2>4. o \in Suspended'
    BY <2>3 DEF Suspended, Done
  <2>5. QED
    BY <1>4, <1>8, <1>9, <2>3, <2>4
<1>12. BlankUntilOpen' /\ LinesRight'
  BY <1>6 DEF BlankUntilOpen, LinesRight
<1>13. QED
  BY <1>1, <1>3, <1>7, <1>10, <1>11, <1>12 DEF LineInv

\* An opening that goes on to something else, alone if none overlaps it.
LEMMA OpeningGoesOn ==
  ASSUME OpeningsOK, LineInv, NEW o \in DOMAIN openings, openings[o].at \in {"asking", "answered"},
         NEW x \in Opening, openings' = [openings EXCEPT ![o] = x]
  PROVE  /\ Len(openings') = Len(openings) /\ DOMAIN openings' = DOMAIN openings
         /\ openings'[o] = x /\ \A p \in DOMAIN openings : p # o => openings'[p] = openings[p]
         /\ Suspended' \subseteq Suspended /\ o \in Suspended
         /\ (x = Done => Suspended' = Suspended \ {o})
         /\ overlaps = 0 => /\ o = Len(openings)
                            /\ \A p \in DOMAIN openings :
                                 openings[p].at \in {"asking", "answered"} => p = o
<1>1. openings[o] # Done
  BY DEF Done
<1>2. /\ Len(openings') = Len(openings) /\ o \in Suspended
      /\ Suspended' = IF x = Done THEN Suspended \ {o} ELSE Suspended
  BY <1>1, OpeningMoved
<1>3. /\ DOMAIN openings' = DOMAIN openings
      /\ openings'[o] = x /\ \A p \in DOMAIN openings : p # o => openings'[p] = openings[p]
  BY DEF OpeningsOK
<1>4. overlaps = 0 => Suspended \subseteq {Len(openings)}
  BY DEF LineInv, OneOpening
<1>5. \A p \in DOMAIN openings : openings[p].at \in {"asking", "answered"} => p \in Suspended
  BY DEF Suspended, Done
<1>6. QED
  BY <1>2, <1>3, <1>4, <1>5

LEMMA HistoryFailsLines ==
  ASSUME ChatInv, NEW o \in DOMAIN openings, HistoryFails(o)
  PROVE  LineInv'
<1> USE DEF HistoryFails
<1>1. /\ SocketsOK /\ OpeningsOK /\ LineInv /\ InFlight' = InFlight /\ JobsDistinct'
      /\ UNCHANGED <<screen, room, lines, sockets>>
  BY SameJobs DEF ChatInv, IInv, Typed, server, chat, panel
<1>2. FeedsOK' /\ Live' = Live
  BY <1>1, SameSockets, FeedsKept DEF LineInv
<1>3. /\ Len(openings') = Len(openings) /\ DOMAIN openings' = DOMAIN openings
      /\ openings'[o] = Done /\ \A p \in DOMAIN openings : p # o => openings'[p] = openings[p]
      /\ Suspended' \subseteq Suspended
      /\ overlaps = 0 => o = Len(openings)
  BY <1>1, OpeningGoesOn DEF Opening
<1>4. \A p \in DOMAIN openings' : openings'[p].at # "done" => openings'[p] = openings[p]
  BY <1>3 DEF Done
<1>5. \A n : Fetched(n)' => Fetched(n)
  BY <1>3, <1>4 DEF Fetched
<1>6. OnlyStored' /\ OneOpening' /\ BlankUntilOpen'
  BY <1>1, <1>3, <1>5 DEF LineInv, OnlyStored, OneOpening, BlankUntilOpen, Fresh
<1>7. RoomAgrees'
  BY <1>1, <1>2, <1>3, <1>4 DEF LineInv, RoomAgrees, Fresh
<1>8. LinesRight'
  BY <1>3 DEF LinesRight, Fresh
<1>9. QED
  BY <1>1, <1>2, <1>6, <1>7, <1>8 DEF LineInv

\* The history of the room is in the place of the lines that were stored and broadcast before.
LEMMA AnswerHistoryLines ==
  ASSUME ChatInv, NEW o \in DOMAIN openings, AnswerHistory(o)
  PROVE  LineInv'
<1> USE DEF AnswerHistory
<1> DEFINE r == openings[o].room
           x == [at |-> "answered", lines |-> ChatHistory(r)]
<1>1. /\ SocketsOK /\ OpeningsOK /\ ChatOK /\ LineInv
      /\ InFlight' = InFlight /\ JobsDistinct'
      /\ UNCHANGED <<screen, room, lines, sockets, member>>
  BY SameJobs DEF ChatInv, IInv, Typed, server, chat, panel
<1>2. FeedsOK' /\ Live' = Live /\ \A n : Coming(n)' <=> Coming(n)
  BY <1>1, SameSockets, FeedsKept DEF LineInv
<1>3. x \in Opening
  <2>1. ChatHistory(r) \subseteq Line
    BY <1>1, StoredAreLines DEF ChatHistory
  <2>2. QED
    BY <2>1 DEF Opening
<1>4. /\ Len(openings') = Len(openings) /\ DOMAIN openings' = DOMAIN openings
      /\ openings'[o] = x /\ \A p \in DOMAIN openings : p # o => openings'[p] = openings[p]
      /\ Suspended' \subseteq Suspended /\ o \in Suspended
      /\ overlaps = 0 => \A p \in DOMAIN openings :
                            openings[p].at \in {"asking", "answered"} => p = o
  BY <1>1, <1>3, OpeningGoesOn
<1>5. x.at = "answered" /\ x.lines = ChatHistory(r) /\ ChatHistory(r) \subseteq Stored(r)
  BY DEF ChatHistory
<1> HIDE DEF x
<1>6. \A n : Fetched(n)' => Fetched(n) \/ n \in Stored(r)
  <2>1. ASSUME NEW n, NEW p \in DOMAIN openings', openings'[p].at = "answered",
               n \in openings'[p].lines
        PROVE  Fetched(n) \/ n \in Stored(r)
    BY <1>4, <1>5, <2>1 DEF Fetched
  <2>2. QED
    BY <2>1 DEF Fetched
<1>7. OnlyStored' /\ OneOpening' /\ BlankUntilOpen'
  BY <1>1, <1>4, <1>6 DEF LineInv, OnlyStored, OneOpening, BlankUntilOpen, Fresh, Stored
<1>8. RoomAgrees'
  BY <1>1, <1>2, <1>4, <1>5 DEF LineInv, RoomAgrees, Fresh
<1>9. LinesRight'
  <2>1. SUFFICES ASSUME Fresh, NEW n \in DOMAIN lines, n \notin excused'
                 PROVE  LineRight(n)'
    BY <1>1 DEF LinesRight, Fresh
  <2>2. n \in Line /\ r = room
    BY <1>1, <2>1, StoredAreLines DEF LineInv, RoomAgrees
  <2>3. shown[n] = 0 /\ Live = {}
    BY <1>1, <1>4, <2>1, <2>2, Alone DEF LineInv, BlankUntilOpen, Fresh, ChatInv
  <2>4. ~Coming(n)'
    <3>1. \A i \in Slot : Feed(i) = <<>>
      BY <2>3 DEF Live, Feed
    <3>2. QED
      BY <1>2, <3>1, EmptyHoldsNothing DEF Coming
  <2>5. n \notin InFlight /\ n \notin OutOfReach(room)
    BY <2>1, <2>2
  <2>6. Fetched(n)' <=> n \in ChatHistory(room)
    <3>1. ASSUME NEW p \in DOMAIN openings', openings'[p].at = "answered" PROVE p = o
      BY <1>4, <2>1, <3>1 DEF Fresh
    <3>2. QED
      BY <1>4, <1>5, <2>2, <3>1 DEF Fetched
  <2>7. CASE lines[n].room = room
    <3>1. n \in ChatHistory(room)
      <4>1. n \in Stored(room)
        BY <2>7 DEF Stored
      <4>2. /\ room \in member
            /\ ~(Cardinality({m \in Stored(room) : m > n}) >= Limit)
        BY <2>5, <4>1 DEF OutOfReach
      <4>3. Cardinality({m \in Stored(room) : m > n}) \in Nat
        <5>1. Len(lines) \in Nat /\ {m \in Stored(room) : m > n} \subseteq 1..Len(lines)
          BY <1>1 DEF Stored, ChatOK
        <5>2. QED
          BY <5>1, FiniteSubset
      <4>4. QED
        BY <4>1, <4>2, <4>3, LimitAssumption DEF ChatHistory
    <3>2. QED
      BY <1>1, <2>3, <2>4, <2>5, <2>6, <2>7, <3>1 DEF LineRight
  <2>8. CASE lines[n].room # room
    <3>1. n \notin ChatHistory(room)
      BY <2>8 DEF ChatHistory, Stored
    <3>2. QED
      BY <1>1, <2>3, <2>4, <2>6, <2>8, <3>1 DEF LineRight
  <2>9. QED
    BY <2>7, <2>8
<1>10. QED
  BY <1>1, <1>2, <1>7, <1>8, <1>9 DEF LineInv

LEMMA ConnectingFeeds ==
  ASSUME SocketsOK, ConnectSocket
  PROVE  /\ \A i \in Slot : Feed(i)' = Feed(i)
         /\ \A i \in Live' : \/ i \in Live /\ sockets'[i].room = sockets[i].room
                            \/ sockets'[i].room = room
<1>1. CASE UNCHANGED sockets
  BY <1>1 DEF Feed, Live
<1>2. CASE ~(room = NoRoom \/ intentional)
  <2>1. DEFINE x == [at |-> "connecting", room |-> room, feed |-> <<>>]
  <2>2. PICK i \in Slot : sockets[i] = Free /\ sockets' = [sockets EXCEPT ![i] = x]
    BY <1>2 DEF ConnectSocket
  <2>3. x.at = "connecting" /\ x.room = room /\ Feed(i) = <<>>
    BY <2>2 DEF Feed, Free
  <2> HIDE DEF x
  <2>4. /\ Feed(i)' = <<>> /\ sockets'[i] = x
        /\ \A j \in Slot : j # i => sockets'[j] = sockets[j] /\ Feed(j)' = Feed(j)
    BY <2>2, <2>3, FeedMoved
  <2>5. QED
    BY <2>3, <2>4 DEF Live
<1>3. QED
  BY <1>1, <1>2 DEF ConnectSocket

\* The lines fetched are shown.
LEMMA ResumeLines ==
  ASSUME ChatInv, NEW o \in DOMAIN openings, Resume(o)
  PROVE  LineInv'
<1> USE DEF Resume
<1>1. /\ SocketsOK /\ OpeningsOK /\ ChatOK /\ LineInv
      /\ InFlight' = InFlight /\ JobsDistinct'
      /\ UNCHANGED <<screen, room, lines>>
  BY SameJobs DEF ChatInv, IInv, Typed, server, chat, panel
<1>2. /\ \A i \in Slot : Feed(i)' = Feed(i)
      /\ \A i \in Live' : \/ i \in Live /\ sockets'[i].room = sockets[i].room
                         \/ sockets'[i].room = room
  BY <1>1, ConnectingFeeds
<1>3. FeedsOK' /\ \A n : Coming(n)' <=> Coming(n)
  <2>1. \A i \in Slot : NoNews(Feed(i), Feed(i)')
    BY <1>2 DEF NoNews
  <2>2. \A n : Coming(n)' <=> Coming(n)
    BY <1>2, ComingAfter DEF Coming
  <2>3. QED
    BY <1>1, <2>1, <2>2, FeedsKept DEF LineInv
<1>4. /\ Len(openings') = Len(openings) /\ DOMAIN openings' = DOMAIN openings
      /\ openings'[o] = Done /\ \A p \in DOMAIN openings : p # o => openings'[p] = openings[p]
      /\ Suspended' = Suspended \ {o}
      /\ overlaps = 0 => \A p \in DOMAIN openings :
                            openings[p].at \in {"asking", "answered"} => p = o
  BY <1>1, OpeningGoesOn DEF Opening
<1>5. \A p \in DOMAIN openings' : openings'[p].at # "done" => openings'[p] = openings[p] /\ p # o
  BY <1>4 DEF Done
<1>6. \A n : Fetched(n)' => Fetched(n)
  BY <1>4, <1>5 DEF Fetched
<1>7. \A n \in openings[o].lines : Fetched(n)
  BY DEF Fetched
<1>8. OnlyStored'
  BY <1>1, <1>6, <1>7 DEF LineInv, OnlyStored
<1>9. OneOpening' /\ RoomAgrees'
  BY <1>1, <1>2, <1>4, <1>5 DEF LineInv, OneOpening, RoomAgrees, Fresh
<1>10. BlankUntilOpen'
  <2>1. overlaps = 0 => Suspended' = {}
    <3>1. overlaps = 0 => Suspended \subseteq {Len(openings)} /\ o \in Suspended
      BY <1>1, OpeningGoesOn DEF LineInv, OneOpening, Opening
    <3>2. QED
      BY <1>4, <3>1
  <2>2. QED
    BY <2>1 DEF BlankUntilOpen, Fresh
<1>11. LinesRight'
  <2>1. SUFFICES ASSUME Fresh, ~stranded, NEW n \in DOMAIN lines, n \notin excused
                 PROVE  LineRight(n)'
    BY <1>1 DEF LinesRight, Fresh
  <2>2. ~Asking
    <3>1. \A p \in DOMAIN openings : openings[p].at = "asking" => p = o
      BY <1>4, <2>1 DEF Fresh
    <3>2. QED
      BY <3>1 DEF Asking
  <2>3. LineRight(n) /\ n \in Line
    BY <1>1, <2>1, <2>2, StoredAreLines DEF LineInv, LinesRight
  <2>4. (Fetched(n) <=> n \in openings[o].lines) /\ ~Fetched(n)'
    <3>1. \A p \in DOMAIN openings : openings[p].at = "answered" => p = o
      BY <1>4, <2>1 DEF Fresh
    <3>2. QED
      BY <1>4, <1>5, <3>1 DEF Fetched
  <2>5. shown'[n] = IF Fetched(n) THEN shown[n] + 1 ELSE shown[n]
    BY <2>3, <2>4
  <2>6. QED
    BY <1>1, <1>3, <2>3, <2>4, <2>5 DEF LineRight
<1>12. QED
  BY <1>1, <1>3, <1>8, <1>9, <1>10, <1>11 DEF LineInv

-----------------------------------------------------------------------------
(* Lines that move on. *)

\* A line that arrives is shown, and does not arrive again.
LEMMA ReceiveChatLines ==
  ASSUME ChatInv, NEW i \in Slot, ReceiveChat(i)
  PROVE  LineInv'
<1> USE DEF ReceiveChat, Arrives
<1> DEFINE feed == sockets[i].feed
           x == [sockets[i] EXCEPT !.feed = Tail(@)]
<1>1. /\ SocketsOK /\ OpeningsOK /\ ChatOK /\ LineInv
      /\ InFlight' = InFlight /\ JobsDistinct'
      /\ UNCHANGED <<screen, room, lines, openings, overlaps, stranded, excused>>
  BY SameJobs DEF ChatInv, IInv, Typed, server, chat, panel
<1>2. sockets[i] \in Open /\ i \in Live
  BY <1>1, SocketAt DEF SocketsOK, Live
<1>3. /\ Feed(i) = feed /\ feed \in Seq(Msg) /\ feed # <<>>
      /\ x.at = "open" /\ x.feed = Tail(feed) /\ x.room = sockets[i].room
  BY <1>2 DEF Feed, Open
<1>4. sockets' = [sockets EXCEPT ![i] = x]
  BY DEF Shifted
<1>5. PICK m \in Line : Head(feed) = Chat(m) /\ Head(feed).line = m
  <2>1. Head(feed) \in Msg
    BY <1>3
  <2>2. QED
    BY <2>1, Kinds
<1>6. shown' = [shown EXCEPT ![m] = shown[m] + 1]
  BY <1>5
<1> HIDE DEF x, feed, ReceiveChat, Arrives
<1>7. /\ Feed(i)' = Tail(feed) /\ sockets'[i] = x
      /\ \A j \in Slot : j # i => sockets'[j] = sockets[j] /\ Feed(j)' = Feed(j)
  BY <1>1, <1>3, <1>4, FeedMoved
<1>8. FeedsOK' /\ \A n : Coming(n)' => Coming(n)
  <2>1. \A j \in Slot : NoNews(Feed(j), Feed(j)')
    BY <1>3, <1>7 DEF NoNews
  <2>2. QED
    BY <1>1, <2>1, FeedsKept DEF LineInv
<1>9. /\ Holds(Feed(i), m) /\ Coming(m) /\ ~Holds(Tail(feed), m)
      /\ m \in DOMAIN lines /\ m \notin InFlight
  <2>1. Holds(Feed(i), m)
    BY <1>3, <1>5, Taking
  <2>2. Once(Feed(i), m) /\ m \in DOMAIN lines /\ m \notin InFlight
    BY <1>1, <1>5, <2>1 DEF LineInv, FeedsOK, FeedOK
  <2>3. ~Holds(Tail(feed), m)
    BY <1>3, <1>5, <2>2, Taking
  <2>4. QED
    BY <2>1, <2>2, <2>3 DEF Coming
<1>10. ASSUME NEW n \in Line, n # m
       PROVE  shown'[n] = shown[n] /\ (Coming(n)' <=> Coming(n))
  <2>1. shown'[n] = shown[n]
    BY <1>1, <1>6, <1>10 DEF ChatOK
  <2>2. Holds(Feed(i), n) => Holds(Tail(feed), n)
    <3>1. Head(feed) # Chat(n)
      BY <1>5, <1>10, Kinds
    <3>2. QED
      BY <1>3, <3>1, Taking
  <2>3. Coming(n) => Coming(n)'
    <3>1. SUFFICES ASSUME NEW j \in Slot, Holds(Feed(j), n) PROVE \E k \in Slot : Holds(Feed(k)', n)
      BY ComingAfter DEF Coming
    <3>2. Holds(Feed(j)', n)
      BY <1>7, <2>2, <3>1
    <3>3. QED
      BY <3>2
  <2>4. QED
    BY <1>8, <2>1, <2>3
<1>11. /\ \A n : Fetched(n)' <=> Fetched(n)
       /\ Asking' <=> Asking
       /\ Suspended' = Suspended
  BY <1>1 DEF Fetched, Asking, Suspended
<1>12. OnlyStored' /\ OneOpening'
  BY <1>1, <1>9, <1>10, <1>11 DEF LineInv, OnlyStored, OneOpening
<1>13. RoomAgrees'
  BY <1>1, <1>2, <1>3, <1>7 DEF LineInv, RoomAgrees, Fresh, Live
<1>14. BlankUntilOpen'
  BY <1>1, <1>2, <1>11, Alone DEF BlankUntilOpen, Fresh, ChatInv
<1>15. LinesRight'
  <2>1. SUFFICES ASSUME Fresh, ~stranded, ~Asking, NEW n \in DOMAIN lines, n \notin excused
                 PROVE  LineRight(n)'
    BY <1>1, <1>11 DEF LinesRight, Fresh
  <2>2. LineRight(n) /\ n \in Line
    BY <1>1, <2>1, StoredAreLines DEF LineInv, LinesRight
  <2>3. CASE n # m
    BY <1>1, <1>10, <1>11, <2>2, <2>3 DEF LineRight
  <2>4. CASE n = m
    <3>1. shown'[m] = shown[m] + 1 /\ ~Coming(m)'
      <4>1. ASSUME NEW j \in Slot PROVE ~Holds(Feed(j)', m)
        <5>1. CASE j = i
          BY <1>7, <1>9, <5>1
        <5>2. CASE j # i
          <6>1. Feed(j) = <<>>
            BY <1>2, <2>1, <5>2, Alone DEF Fresh, ChatInv, Live, Feed
          <6>2. QED
            BY <1>7, <5>2, <6>1, EmptyHoldsNothing
        <5>3. QED
          BY <5>1, <5>2
      <4>2. QED
        BY <1>1, <1>5, <1>6, <4>1, ComingAfter DEF ChatOK
    <3>2. lines[m].room = room /\ shown[m] = 0 /\ ~Fetched(m)
      BY <1>9, <2>2, <2>4 DEF LineRight
    <3>3. QED
      BY <1>1, <1>9, <1>11, <2>4, <3>1, <3>2 DEF LineRight
  <2>5. QED
    BY <2>3, <2>4
<1>16. QED
  BY <1>1, <1>8, <1>12, <1>13, <1>14, <1>15 DEF LineInv

\* A line stored is with its sender and nowhere else.
LEMMA InsertLines ==
  ASSUME ChatInv, NEW s \in Sender, Insert(s)
  PROVE  LineInv'
<1> USE DEF Insert
<1> DEFINE m == Len(lines')
<1>1. /\ SocketsOK /\ OpeningsOK /\ ChatOK /\ LineInv
      /\ UNCHANGED <<screen, room, openings, sockets, overlaps, stranded, shown, excused>>
  BY DEF ChatInv, IInv, Typed, tab, panel
<1>2. /\ Len(lines) \in Nat /\ DOMAIN lines = 1..Len(lines) /\ m = Len(lines) + 1
      /\ DOMAIN lines' = 1..m /\ \A n \in DOMAIN lines : lines'[n] = lines[n]
  BY <1>1 DEF ChatOK
<1>3. m \in Line \ DOMAIN lines /\ DOMAIN lines \subseteq DOMAIN lines' /\ m \in DOMAIN lines'
  BY <1>1, <1>2, BoundsAssumption DEF ChatOK, Line
<1>4. /\ job'[s].at = "stored" /\ job'[s].line = m /\ job[s].at = "tested"
      /\ \A t \in Sender : t # s => job'[t] = job[t]
  BY <1>1 DEF ChatOK, Tested
<1>5. \A t \in Sender : job[t].at = "stored" => job[t].line \in DOMAIN lines
  BY <1>1, <1>2 DEF ChatOK, JobAfter, Idle, Tested
<1> HIDE DEF m, Insert
<1>6. JobsDistinct'
  BY <1>1, <1>3, <1>4, <1>5 DEF LineInv, JobsDistinct
<1>7. InFlight' = InFlight \cup {m}
  BY <1>4 DEF InFlight
<1>8. /\ \A i \in Slot : Feed(i)' = Feed(i)
      /\ \A n : Coming(n)' <=> Coming(n)
      /\ Live' = Live
  BY <1>1, SameSockets
<1>9. FeedsOK'
  <2>1. ASSUME NEW i \in Slot, NEW n \in Line
        PROVE  /\ Holds(Feed(i)', n) => n \in DOMAIN lines' /\ n \notin InFlight'
               /\ Once(Feed(i)', n)
    <3>1. /\ Holds(Feed(i), n) => n \in DOMAIN lines /\ n \notin InFlight
          /\ Once(Feed(i), n)
      BY <1>1 DEF LineInv, FeedsOK, FeedOK
    <3>2. QED
      BY <1>3, <1>7, <1>8, <3>1
  <2>2. QED
    BY <2>1, FeedsOKAfter
<1>10. /\ \A n : Fetched(n)' <=> Fetched(n)
       /\ Asking' <=> Asking
       /\ Suspended' = Suspended
  BY <1>1 DEF Fetched, Asking, Suspended
<1>11. OnlyStored' /\ OneOpening' /\ RoomAgrees' /\ BlankUntilOpen'
  <2>1. OnlyStored' /\ OneOpening'
    BY <1>1, <1>3, <1>10 DEF LineInv, OnlyStored, OneOpening
  <2>2. RoomAgrees' /\ BlankUntilOpen'
    BY <1>1, <1>8, <1>10 DEF LineInv, RoomAgrees, BlankUntilOpen, Fresh
  <2>3. QED
    BY <2>1, <2>2
<1>12. LinesRight'
  <2>1. SUFFICES ASSUME Fresh, ~stranded, ~Asking, NEW n \in DOMAIN lines', n \notin excused
                 PROVE  LineRight(n)'
    BY <1>1, <1>10 DEF LinesRight, Fresh
  <2>2. CASE n = m
    <3>1. shown[m] = 0 /\ ~Fetched(m)
      BY <1>1, <1>3 DEF LineInv, OnlyStored
    <3>2. ~Coming(m)
      BY <1>1, <1>3 DEF LineInv, FeedsOK, FeedOK, Coming
    <3>3. QED
      BY <1>1, <1>7, <1>8, <1>10, <2>2, <3>1, <3>2 DEF LineRight
  <2>3. CASE n # m
    <3>1. n \in DOMAIN lines
      BY <1>2, <2>1, <2>3
    <3>2. LineRight(n)
      BY <1>1, <2>1, <3>1 DEF LineInv, LinesRight
    <3>3. QED
      BY <1>1, <1>2, <1>7, <1>8, <1>10, <2>3, <3>1, <3>2 DEF LineRight
  <2>4. QED
    BY <2>2, <2>3
<1>13. QED
  BY <1>6, <1>9, <1>11, <1>12 DEF LineInv

\* A line broadcast is on its way to the connections there are; without one it is excused.
LEMMA BroadcastChatLines ==
  ASSUME ChatInv, NEW s \in Sender, BroadcastChat(s)
  PROVE  LineInv'
<1> USE DEF BroadcastChat
<1>0. PICK m : m = job[s].line
  OBVIOUS
<1> DEFINE here == {i \in Connected : sockets[i].room = lines[m].room}
<1>1. /\ SocketsOK /\ OpeningsOK /\ ChatOK /\ LineInv
      /\ UNCHANGED <<screen, room, lines, openings, overlaps, stranded, shown>>
  BY DEF ChatInv, IInv, Typed, panel
<1>2. /\ excused \subseteq excused'
      /\ (here = {} /\ ~Asking => m \in excused')
  BY <1>0 DEF Asking
<1>3. /\ job'[s].at = "idle" /\ job[s].at = "stored"
      /\ \A t \in Sender : t # s => job'[t] = job[t]
  BY <1>1 DEF ChatOK, Idle
<1>4. m \in InFlight /\ m \in Line /\ m \in DOMAIN lines
  BY <1>0, <1>1, <1>3, StoredAreLines DEF InFlight, ChatOK, JobAfter, Idle, Tested
<1>5. InFlight' = InFlight \ {m}
  BY <1>0, <1>1, <1>3 DEF InFlight, LineInv, JobsDistinct
<1>6. JobsDistinct'
  BY <1>1, <1>3 DEF LineInv, JobsDistinct
<1>7. here \in SUBSET Connected /\ Chat(m) \in Msg
  BY <1>4 DEF Msg
<1>8. sockets' = [i \in Slot |-> IF i \in here THEN [sockets[i] EXCEPT !.feed = Append(@, Chat(m))]
                                 ELSE sockets[i]]
  BY <1>0
<1>9. /\ here \subseteq Live /\ \A i \in here : sockets[i].room = lines[m].room
  BY DEF Connected, Live
<1> HIDE DEF here, BroadcastChat
<1>10. /\ \A i \in here : Feed(i)' = Append(Feed(i), Chat(m))
       /\ \A i \in Slot \ here : Feed(i)' = Feed(i)
       /\ Live' = Live /\ \A i \in Live : sockets'[i].room = sockets[i].room
  BY <1>1, <1>7, <1>8, FeedsFed
<1>11. ASSUME NEW i \in Slot, NEW n \in Line
       PROVE  /\ Holds(Feed(i)', n) <=> Holds(Feed(i), n) \/ (i \in here /\ n = m)
              /\ Once(Feed(i)', n)
  <2>1. /\ Holds(Feed(i), n) => n \in DOMAIN lines /\ n \notin InFlight
        /\ Once(Feed(i), n) /\ Feed(i) \in Seq(Msg)
    BY <1>1, FeedIsSeq DEF LineInv, FeedsOK, FeedOK
  <2>2. CASE i \notin here
    BY <1>10, <2>1, <2>2
  <2>3. CASE i \in here
    <3>1. n = m <=> Chat(m) = Chat(n)
      BY Kinds
    <3>2. n = m => ~Holds(Feed(i), n)
      BY <1>4, <2>1
    <3>3. /\ Holds(Append(Feed(i), Chat(m)), n) <=> Holds(Feed(i), n) \/ n = m
          /\ Once(Append(Feed(i), Chat(m)), n)
      BY <1>7, <2>1, <3>1, <3>2, Adding
    <3>4. Feed(i)' = Append(Feed(i), Chat(m))
      BY <1>10, <2>3
    <3>5. QED
      BY <2>3, <3>3, <3>4
  <2>4. QED
    BY <2>2, <2>3
<1>12. FeedsOK'
  <2>1. ASSUME NEW i \in Slot, NEW n \in Line
        PROVE  Holds(Feed(i)', n) => n \in DOMAIN lines' /\ n \notin InFlight'
    <3>1. Holds(Feed(i), n) => n \in DOMAIN lines /\ n \notin InFlight
      BY <1>1 DEF LineInv, FeedsOK, FeedOK
    <3>2. QED
      BY <1>1, <1>4, <1>5, <1>11, <3>1
  <2>2. QED
    BY <1>11, <2>1, FeedsOKAfter
<1>13. /\ \A n : Fetched(n)' <=> Fetched(n)
       /\ Asking' <=> Asking
       /\ Suspended' = Suspended
  BY <1>1 DEF Fetched, Asking, Suspended
<1>14. OnlyStored' /\ OneOpening' /\ RoomAgrees' /\ BlankUntilOpen'
  <2>1. OnlyStored' /\ OneOpening'
    BY <1>1, <1>13 DEF LineInv, OnlyStored, OneOpening
  <2>2. RoomAgrees' /\ BlankUntilOpen'
    BY <1>1, <1>10, <1>13 DEF LineInv, RoomAgrees, BlankUntilOpen, Fresh
  <2>3. QED
    BY <2>1, <2>2
<1>15. LinesRight'
  <2>1. SUFFICES ASSUME Fresh, ~stranded, ~Asking, NEW n \in DOMAIN lines, n \notin excused'
                 PROVE  LineRight(n)'
    BY <1>1, <1>13 DEF LinesRight, Fresh
  <2>2. LineRight(n) /\ n \in Line
    BY <1>1, <1>2, <2>1, StoredAreLines DEF LineInv, LinesRight
  <2>3. CASE n # m
    <3>1. Coming(n)' <=> Coming(n)
      BY <1>11, <2>2, <2>3, ComingAfter DEF Coming
    <3>2. n \in InFlight' <=> n \in InFlight
      BY <1>5, <2>3
    <3>3. QED
      BY <1>1, <1>13, <2>2, <3>1, <3>2 DEF LineRight
  <2>4. CASE n = m
    <3>1. here # {}
      BY <1>2, <2>1, <2>4
    <3>2. lines[m].room = room
      BY <1>1, <1>9, <2>1, <3>1 DEF LineInv, RoomAgrees
    <3>3. shown[m] = 0 /\ ~Fetched(m)
      BY <1>4, <2>2, <2>4, <3>2 DEF LineRight
    <3>4. Coming(m)'
      BY <1>4, <1>9, <1>11, <3>1, ComingAfter DEF Live
    <3>5. m \notin InFlight'
      BY <1>5
    <3>6. QED
      BY <1>1, <1>13, <2>4, <3>2, <3>3, <3>4, <3>5 DEF LineRight
  <2>5. QED
    BY <2>3, <2>4
<1>16. QED
  BY <1>6, <1>12, <1>14, <1>15 DEF LineInv

-----------------------------------------------------------------------------
(* The invariant is one. *)

LEMMA InitLines == Init => LineInv
<1> SUFFICES ASSUME Init PROVE LineInv
  OBVIOUS
<1> USE DEF Init
<1>1. JobsDistinct
  BY DEF JobsDistinct, Idle
<1>2. FeedsOK
  <2>1. \A i \in Slot : Feed(i) = <<>>
    BY DEF Feed, Free
  <2>2. \A i \in Slot : FeedOK(<<>>)
    BY DEF FeedOK, Once, Holds
  <2>3. QED
    BY <2>1, <2>2 DEF FeedsOK
<1>3. DOMAIN openings = {} /\ DOMAIN lines = {}
  OBVIOUS
<1>4. OnlyStored /\ OneOpening
  BY <1>3 DEF OnlyStored, OneOpening, Fetched, Suspended
<1>5. RoomAgrees /\ BlankUntilOpen /\ LinesRight
  BY DEF RoomAgrees, BlankUntilOpen, LinesRight, Fresh
<1>6. QED
  BY <1>1, <1>2, <1>4, <1>5 DEF LineInv

LEMMA NextLines ==
  ASSUME ChatInv, [Next]_vars
  PROVE  ChatInv'
<1>1. IInv'
  BY NextIInv DEF ChatInv
<1>2. LineInv'
  <2>1. ASSUME NEW r \in Room, Ask(r) \/ OpenRoom(r) \/ KickUser(r) PROVE LineInv'
    BY <2>1, AskLines, OpenRoomLines, KickUserLines
  <2>2. ASSUME NEW o \in DOMAIN openings, AnswerHistory(o) \/ HistoryFails(o) \/ Resume(o)
        PROVE  LineInv'
    BY <2>2, AnswerHistoryLines, HistoryFailsLines, ResumeLines
  <2>3. ASSUME NEW i \in Slot, \/ Accept(i) \/ Ends(i) \/ CloseEvent(i)
                               \/ ReceiveState(i) \/ ReceiveChat(i) \/ ReceiveKicked(i)
        PROVE  LineInv'
    BY <2>3, AcceptLines, EndsLines, CloseEventLines, ReceiveStateLines, ReceiveChatLines,
       ReceiveKickedLines
  <2>4. CASE TimerFires \/ Leave \/ Logout \/ Login
    BY <2>4, TimerFiresLines, LeaveLines, LogoutLines, LoginLines
  <2>5. ASSUME NEW s \in Sender, SendTest(s) \/ Insert(s) \/ InsertFails(s) \/ BroadcastChat(s)
        PROVE  LineInv'
    BY <2>5, SendTestLines, InsertLines, InsertFailsLines, BroadcastChatLines
  <2>6. ASSUME NEW seat \in Range(Seat), KickSender(seat) PROVE LineInv'
    BY <2>6, KickSenderLines
  <2>7. CASE UNCHANGED vars
    BY <2>7, StutterLines
  <2>8. QED
    BY <2>1, <2>2, <2>3, <2>4, <2>5, <2>6, <2>7 DEF Next
<1>3. QED
  BY <1>1, <1>2 DEF ChatInv

LEMMA ChatInvHolds == Spec => []ChatInv
<1>1. Init => ChatInv
  BY InitIInv, InitLines DEF ChatInv
<1>2. ChatInv /\ [Next]_vars => ChatInv'
  BY NextLines
<1>3. QED
  BY <1>1, <1>2, PTL DEF Spec

-----------------------------------------------------------------------------
(* What follows from it. *)

\* When nothing is under way the only place left is the chat log.
LEMMA QuietIsShown ==
  ASSUME ChatInv
  PROVE  EachLineOnce
<1>1. SUFFICES ASSUME screen = "room", overlaps = 0, ~stranded, Suspended = {},
                      socket \in Connected, sockets[socket].feed = <<>>,
                      \A s \in Sender : job[s].at # "stored",
                      NEW n \in DOMAIN lines, n \notin excused
               PROVE  shown[n] = IF lines[n].room = room THEN 1 ELSE 0
  BY DEF EachLineOnce
<1>2. ~Asking /\ ~Fetched(n)
  BY <1>1 DEF Asking, Fetched, Suspended, Done
<1>3. n \notin InFlight
  BY <1>1 DEF InFlight
<1>4. ~Coming(n)
  <2>1. \A i \in Slot : Feed(i) = <<>>
    BY <1>1, Alone DEF ChatInv, Live, Feed
  <2>2. QED
    BY <2>1, EmptyHoldsNothing DEF Coming
<1>5. LineRight(n)
  BY <1>1, <1>2 DEF ChatInv, LineInv, LinesRight, Fresh
<1>6. QED
  BY <1>2, <1>3, <1>4, <1>5 DEF LineRight

\* However the history that openRoom reads, the broadcasts and the connection come in turn, a
\* line of the room is in the chat log once and a line of another room is not, other than the
\* lines that EachLineOnce names (app.js:32-33, 59, 63; client.go:135-142).
THEOREM LinesCorrect == Spec => []EachLineOnce
<1>1. ChatInv => EachLineOnce
  BY QuietIsShown
<1>2. QED
  BY <1>1, ChatInvHolds, PTL
=============================================================================
