--------------------------- MODULE PresenceProofs ---------------------------
(***************************************************************************)
(* Proofs about Presence, for any users, places, times and deadlines: that *)
(* a list is the room whatever is measured while it is built, that no time *)
(* is made up, and that nobody is left with an old list for good.          *)
(***************************************************************************)
EXTENDS Presence, TLAPS

Ping == RoundTrip \cup {0, -1}

Reader == {"none", "starting", "reading"}

ConnsOK ==
  /\ user \in [Conn -> User]
  /\ hub = {c \in Conn : reader[c] # "none"}
  /\ ping \in [Conn -> Ping] /\ reader \in [Conn -> Reader]
  /\ gone \subseteq hub /\ asked \subseteq hub /\ knows \subseteq Conn

TimersOK == deadline \in [Conn -> 0..PongWait] /\ beat \in [Conn -> 0..PingPeriod]

TasksOK == building \in Nat /\ lists \in [SUBSET User -> Nat]

\* Between two lists nothing is in hand.
WalkOK ==
  /\ walking \in BOOLEAN /\ todo \subseteq hub
  /\ ~walking => todo = {}
  /\ DOMAIN met = IF walking THEN hub \ todo ELSE {}
  /\ DOMAIN list \subseteq User /\ \A u \in DOMAIN list : list[u] \in Ping

Typed == ConnsOK /\ TimersOK /\ TasksOK /\ WalkOK

\* The 0 of a new Client is gone once its reader runs, and was met before that or not at all.
ZeroIsNew ==
  /\ \A c \in Conn : reader[c] = "reading" => ping[c] # 0
  /\ \A c \in DOMAIN met : /\ met[c].ms \in Ping
                           /\ met[c].reader # "starting" => met[c].ms # 0

\* ms is what the connections in seen say of u, their owners being in owner.
IsLeast(ms, u, seen, owner) ==
  /\ ms >= 0 => \E c \in DOMAIN seen : owner[c] = u /\ seen[c].ms = ms
  /\ \A c \in DOMAIN seen : owner[c] = u /\ seen[c].ms >= 0 => ms >= 0 /\ ms <= seen[c].ms

\* The invariant of the loop of participants.
ListSoFar ==
  walking => /\ DOMAIN list = {user[c] : c \in DOMAIN met}
             /\ \A u \in DOMAIN list : IsLeast(list[u], u, met, user)

\* Whoever has not been offered the present users will be.
NewsIsUnderWay ==
  hub \subseteq knows \/ building > 0 \/ walking \/ lists[Users] > 0

IInv == Typed /\ ZeroIsNew /\ ListSoFar /\ NewsIsUnderWay

-----------------------------------------------------------------------------
(* Lemmas. *)

LEMMA PingsAreInt == Ping \subseteq Int
BY RoundTripAssumption DEF Ping

LEMMA Periods == PongWait \in Nat /\ PingPeriod \in Nat /\ PingPeriod > 0 /\ PongWait > 0
BY PongWaitAssumption DEF PingPeriod

\* What a walk has in hand stays right while the room stays as it is.
LEMMA WalkStays ==
  ASSUME WalkOK, ListSoFar, UNCHANGED <<walk, hub, user>>
  PROVE  WalkOK' /\ ListSoFar'
<1>1. WalkOK'
  BY DEF WalkOK, walk
<1>2. ListSoFar'
  BY DEF ListSoFar, IsLeast, walk
<1>3. QED
  BY <1>1, <1>2

\* The room changes between two lists only.
LEMMA NoWalk ==
  ASSUME WalkOK, ~walking, UNCHANGED walk
  PROVE  WalkOK' /\ ListSoFar'
<1>1. walking' = walking /\ todo' = todo /\ list' = list /\ met' = met
  BY DEF walk
<1>2. todo = {} /\ todo' \subseteq hub'
  BY <1>1 DEF WalkOK
<1>3. DOMAIN met' = {} /\ ~walking'
  BY <1>1 DEF WalkOK
<1>4. WalkOK'
  BY <1>1, <1>2, <1>3 DEF WalkOK
<1>5. ListSoFar'
  BY <1>3 DEF ListSoFar
<1>6. QED
  BY <1>4, <1>5

LEMMA ZeroStays ==
  ASSUME ZeroIsNew, UNCHANGED <<ping, reader, met>>
  PROVE  ZeroIsNew'
BY DEF ZeroIsNew

LEMMA NewsStays ==
  ASSUME NewsIsUnderWay, UNCHANGED <<user, hub, walk, tasks, knows>>
  PROVE  NewsIsUnderWay'
BY DEF NewsIsUnderWay, Users, walk, tasks

LEMMA StartedTells ==
  ASSUME Typed, Started
  PROVE  TasksOK' /\ NewsIsUnderWay'
BY DEF Typed, TasksOK, Started, NewsIsUnderWay

-----------------------------------------------------------------------------
(* Connections. *)

LEMMA AddClientStep ==
  ASSUME IInv, NEW c \in Conn, AddClient(c)
  PROVE  IInv'
<1> USE DEF AddClient
<1>1. ConnsOK'
  BY DEF IInv, Typed, ConnsOK, Reader
<1>2. TimersOK'
  BY DEF IInv, Typed, TimersOK, timers
<1>3. TasksOK' /\ NewsIsUnderWay'
  BY StartedTells DEF IInv
<1>4. WalkOK' /\ ListSoFar'
  BY NoWalk DEF IInv, Typed
<1>5. ZeroIsNew'
  BY DEF IInv, Typed, ConnsOK, ZeroIsNew, walk
<1>6. QED
  BY <1>1, <1>2, <1>3, <1>4, <1>5 DEF IInv, Typed

LEMMA StartPumpsStep ==
  ASSUME IInv, NEW c \in Conn, StartPumps(c)
  PROVE  IInv'
<1> USE DEF StartPumps
<1>1. ConnsOK'
  BY DEF IInv, Typed, ConnsOK, Reader, Ping
<1>2. TimersOK' /\ TasksOK'
  BY DEF IInv, Typed, TimersOK, TasksOK, timers, tasks
<1>3. NewsIsUnderWay'
  BY NewsStays DEF IInv
<1>4. WalkOK' /\ ListSoFar'
  BY WalkStays DEF IInv, Typed
<1>5. ZeroIsNew'
  BY DEF IInv, Typed, ConnsOK, ZeroIsNew, walk
<1>6. QED
  BY <1>1, <1>2, <1>3, <1>4, <1>5 DEF IInv, Typed

\* A time measured: what two kinds of pong have in common.
LEMMA MeasuredStep ==
  ASSUME IInv, NEW c \in Conn, NEW ms \in RoundTrip,
         Measured(c, ms) \/ UNCHANGED <<ping, tasks>>,
         UNCHANGED <<user, hub, reader, gone, walk, knows>>, asked' \subseteq hub, TimersOK'
  PROVE  IInv'
<1>1. ping' = [ping EXCEPT ![c] = ms] \/ ping' = ping
  BY DEF Measured
<1>2. ConnsOK'
  BY <1>1 DEF IInv, Typed, ConnsOK, Ping
<1>3. TasksOK' /\ NewsIsUnderWay'
  <2>1. CASE Measured(c, ms)
    BY <2>1, StartedTells DEF IInv, Measured
  <2>2. CASE UNCHANGED <<ping, tasks>>
    <3>1. NewsIsUnderWay'
      BY <2>2, NewsStays DEF IInv
    <3>2. TasksOK'
      BY <2>2 DEF IInv, Typed, TasksOK, tasks
    <3>3. QED
      BY <3>1, <3>2
  <2>3. QED
    BY <2>1, <2>2
<1>4. WalkOK' /\ ListSoFar'
  BY WalkStays DEF IInv, Typed
<1>5. ZeroIsNew'
  <2>1. ms # 0
    BY RoundTripAssumption
  <2>2. QED
    BY <1>1, <2>1 DEF IInv, Typed, ConnsOK, ZeroIsNew, walk
<1>6. QED
  BY <1>2, <1>3, <1>4, <1>5 DEF IInv, Typed

LEMMA ReadPongStep ==
  ASSUME IInv, NEW c \in Conn, NEW ms \in RoundTrip, ReadPong(c, ms)
  PROVE  IInv'
<1>1. Measured(c, ms) \/ UNCHANGED <<ping, tasks>>
  BY DEF ReadPong
<1>2. UNCHANGED <<user, hub, reader, gone, walk, knows>> /\ UNCHANGED timers
  BY DEF ReadPong
<1>3. asked' \subseteq hub
  BY DEF ReadPong, IInv, Typed, ConnsOK
<1>4. TimersOK'
  BY <1>2 DEF IInv, Typed, TimersOK, timers
<1>5. QED
  BY <1>1, <1>2, <1>3, <1>4, MeasuredStep

LEMMA ReadControlPongStep ==
  ASSUME IInv, NEW c \in Conn, ReadControlPong(c)
  PROVE  IInv'
<1> USE DEF ReadControlPong
<1>1. TimersOK'
  BY Periods DEF IInv, Typed, TimersOK
<1>2. asked' \subseteq hub
  BY DEF IInv, Typed, ConnsOK
<1>3. CASE \E ms \in RoundTrip : Measured(c, ms)
  BY <1>1, <1>2, <1>3, MeasuredStep
<1>4. CASE UNCHANGED <<ping, tasks>>
  <2>1. ConnsOK' /\ TasksOK'
    BY <1>4 DEF IInv, Typed, ConnsOK, TasksOK, tasks
  <2>2. NewsIsUnderWay'
    BY <1>4, NewsStays DEF IInv
  <2>3. WalkOK' /\ ListSoFar'
    BY WalkStays DEF IInv, Typed
  <2>4. ZeroIsNew'
    BY <1>4, ZeroStays DEF IInv, walk
  <2>5. QED
    BY <1>1, <2>1, <2>2, <2>3, <2>4 DEF IInv, Typed
<1>5. QED
  BY <1>3, <1>4

\* Steps that touch neither the pings nor the lists.
LEMMA QuietStep ==
  ASSUME IInv, UNCHANGED <<user, hub, ping, reader, tasks, walk, knows>>,
         gone' \subseteq hub, asked' \subseteq hub, TimersOK'
  PROVE  IInv'
<1>1. ConnsOK' /\ TasksOK'
  BY DEF IInv, Typed, ConnsOK, TasksOK, tasks
<1>2. NewsIsUnderWay'
  BY NewsStays DEF IInv
<1>3. WalkOK' /\ ListSoFar'
  BY WalkStays DEF IInv, Typed
<1>4. ZeroIsNew'
  BY ZeroStays DEF IInv, walk
<1>5. QED
  BY <1>1, <1>2, <1>3, <1>4 DEF IInv, Typed

LEMMA LoseStep ==
  ASSUME IInv, NEW c \in Conn, Lose(c)
  PROVE  IInv'
<1>1. gone' \subseteq hub /\ asked' \subseteq hub
  BY DEF Lose, IInv, Typed, ConnsOK
<1>2. TimersOK'
  BY DEF Lose, IInv, Typed, TimersOK, timers
<1>3. QED
  BY <1>1, <1>2, QuietStep DEF Lose

LEMMA SendPingStep ==
  ASSUME IInv, NEW c \in Conn, SendPing(c)
  PROVE  IInv'
<1>1. gone' \subseteq hub /\ asked' \subseteq hub
  BY DEF SendPing, IInv, Typed, ConnsOK
<1>2. TimersOK'
  BY Periods DEF SendPing, IInv, Typed, TimersOK
<1>3. QED
  BY <1>1, <1>2, QuietStep DEF SendPing

LEMMA TickStep ==
  ASSUME IInv, Tick
  PROVE  IInv'
<1>1. gone' \subseteq hub /\ asked' \subseteq hub
  BY DEF Tick, IInv, Typed, ConnsOK
<1>2. TimersOK'
  <2>1. \A c \in Conn : reader[c] = "reading" => deadline[c] > 0 /\ beat[c] > 0
    BY DEF Tick
  <2>2. \A c \in Conn : deadline[c] \in 0..PongWait /\ beat[c] \in 0..PingPeriod
    BY DEF IInv, Typed, TimersOK
  <2>3. ASSUME NEW c \in Conn
        PROVE  /\ (IF reader[c] = "reading" THEN deadline[c] - 1 ELSE deadline[c]) \in 0..PongWait
               /\ (IF reader[c] = "reading" THEN beat[c] - 1 ELSE beat[c]) \in 0..PingPeriod
    BY <2>1, <2>2, Periods
  <2>4. /\ deadline' = [c \in Conn |-> IF reader[c] = "reading" THEN deadline[c] - 1 ELSE deadline[c]]
        /\ beat' = [c \in Conn |-> IF reader[c] = "reading" THEN beat[c] - 1 ELSE beat[c]]
    BY DEF Tick
  <2>5. QED
    BY <2>3, <2>4 DEF TimersOK
<1>3. QED
  BY <1>1, <1>2, QuietStep DEF Tick

LEMMA ReadFailsStep ==
  ASSUME IInv, NEW c \in Conn, ReadFails(c)
  PROVE  IInv'
<1> USE DEF ReadFails, RemoveClient, Vacate
<1>1. ConnsOK'
  <2>1. ping' \in [Conn -> Ping] /\ reader' \in [Conn -> Reader]
    BY DEF IInv, Typed, ConnsOK, Ping, Reader
  <2>2. hub' = {d \in Conn : reader'[d] # "none"}
    BY DEF IInv, Typed, ConnsOK
  <2>3. QED
    BY <2>1, <2>2 DEF IInv, Typed, ConnsOK
<1>2. TimersOK'
  BY Periods DEF IInv, Typed, TimersOK
<1>3. TasksOK' /\ NewsIsUnderWay'
  BY StartedTells DEF IInv
<1>4. WalkOK' /\ ListSoFar'
  BY NoWalk DEF IInv, Typed
<1>5. ZeroIsNew'
  BY DEF IInv, Typed, ConnsOK, ZeroIsNew, walk
<1>6. QED
  BY <1>1, <1>2, <1>3, <1>4, <1>5 DEF IInv, Typed

-----------------------------------------------------------------------------
(* Lists. *)

LEMMA StartListStep ==
  ASSUME IInv, StartList
  PROVE  IInv'
<1> USE DEF StartList
<1>1. DOMAIN list' = {} /\ DOMAIN met' = {}
  OBVIOUS
<1>2. ConnsOK' /\ TimersOK' /\ TasksOK'
  BY DEF IInv, Typed, ConnsOK, TimersOK, TasksOK, timers
<1>3. WalkOK'
  BY <1>1 DEF IInv, Typed, WalkOK
<1>4. ZeroIsNew' /\ ListSoFar' /\ NewsIsUnderWay'
  BY <1>1 DEF IInv, ZeroIsNew, ListSoFar, NewsIsUnderWay
<1>5. QED
  BY <1>2, <1>3, <1>4 DEF IInv, Typed

\* A turn of the loop keeps its invariant: Merge lets a user's least measured ping win, and the
\* first of the others only until there is one.
LEMMA MergeIsLeast ==
  ASSUME IInv, NEW c \in todo, LoadPing(c)
  PROVE  /\ DOMAIN list' = DOMAIN list \cup {user[c]}
         /\ \A u \in DOMAIN list' : list'[u] \in Ping /\ IsLeast(list'[u], u, met', user)
<1> DEFINE v == user[c]
<1>1. /\ walking /\ c \in Conn /\ v \in User /\ ping[c] \in Ping /\ c \notin DOMAIN met
      /\ user' = user
  BY DEF IInv, Typed, WalkOK, ConnsOK, LoadPing
<1>2. /\ DOMAIN met' = DOMAIN met \cup {c} /\ met'[c].ms = ping[c]
      /\ \A d \in DOMAIN met : met'[d] = met[d]
  BY <1>1 DEF LoadPing
<1>3. /\ DOMAIN list = {user[d] : d \in DOMAIN met}
      /\ \A u \in DOMAIN list : list[u] \in Ping /\ IsLeast(list[u], u, met, user)
  BY <1>1 DEF IInv, Typed, WalkOK, ListSoFar
<1>4. Ping \subseteq Int /\ \A d \in DOMAIN met : met[d].ms \in Int
  BY PingsAreInt DEF IInv, ZeroIsNew
<1>5. ASSUME NEW u \in DOMAIN list, u # v
      PROVE  IsLeast(list[u], u, met', user)  /\ list[u] \in Ping
  <2>1. IsLeast(list[u], u, met, user)
    BY <1>3
  <2>2. QED
    BY <1>1, <1>2, <1>3, <1>5, <2>1 DEF IsLeast
<1>6. CASE v \notin DOMAIN list \/ (ping[c] >= 0 /\ (list[v] < 0 \/ ping[c] < list[v]))
  <2>1. list' = [u \in DOMAIN list \cup {v} |-> IF u = v THEN ping[c] ELSE list[u]]
    BY <1>6 DEF LoadPing, Merge
  <2>2. \A d \in DOMAIN met : user[d] = v /\ met[d].ms >= 0 => ping[c] >= 0 /\ ping[c] <= met[d].ms
    <3>1. CASE v \notin DOMAIN list
      BY <1>3, <3>1
    <3>2. CASE v \in DOMAIN list
      <4>1. list[v] \in Int /\ ping[c] \in Int
        BY <1>1, <1>3, <1>4, <3>2
      <4>2. \A d \in DOMAIN met : user[d] = v /\ met[d].ms >= 0 => list[v] >= 0 /\ list[v] <= met[d].ms
        BY <1>3, <3>2 DEF IsLeast
      <4>3. QED
        BY <1>4, <1>6, <3>2, <4>1, <4>2
    <3>3. QED
      BY <3>1, <3>2
  <2>3. list'[v] = ping[c] /\ \A u \in DOMAIN list : u # v => list'[u] = list[u]
    BY <2>1
  <2>4. ping[c] \in Int
    BY <1>1, <1>4
  <2>5. IsLeast(list'[v], v, met', user)
    BY <1>1, <1>2, <2>2, <2>3, <2>4 DEF IsLeast
  <2>6. QED
    BY <1>1, <1>5, <2>1, <2>3, <2>5
<1>7. CASE ~(v \notin DOMAIN list \/ (ping[c] >= 0 /\ (list[v] < 0 \/ ping[c] < list[v])))
  <2>1. list' = list /\ v \in DOMAIN list
    BY <1>7 DEF LoadPing, Merge
  <2>2. list[v] \in Int /\ ping[c] \in Int
    BY <1>1, <1>3, <1>4, <2>1
  <2>3. IsLeast(list[v], v, met, user)
    BY <1>3, <2>1
  <2>4. ping[c] >= 0 => list[v] >= 0 /\ list[v] <= ping[c]
    BY <1>7, <2>2
  <2>5. IsLeast(list'[v], v, met', user)
    BY <1>1, <1>2, <2>1, <2>3, <2>4 DEF IsLeast
  <2>6. QED
    BY <1>3, <1>5, <2>1, <2>5
<1>8. QED
  BY <1>6, <1>7

LEMMA LoadPingStep ==
  ASSUME IInv, NEW c \in Conn, LoadPing(c)
  PROVE  IInv'
<1>1. c \in todo
  BY DEF LoadPing
<1>2. /\ DOMAIN list' = DOMAIN list \cup {user[c]}
      /\ \A u \in DOMAIN list' : list'[u] \in Ping /\ IsLeast(list'[u], u, met', user)
  BY <1>1, MergeIsLeast
<1>3. walking /\ walking' = walking /\ c \in hub /\ reader[c] # "none" /\ user' = user
  BY <1>1 DEF IInv, Typed, WalkOK, ConnsOK, LoadPing
<1>4. /\ DOMAIN met' = DOMAIN met \cup {c}
      /\ met'[c].ms = ping[c] /\ met'[c].reader = reader[c]
      /\ \A d \in DOMAIN met : d # c => met'[d] = met[d]
  BY DEF LoadPing
<1>5. ConnsOK' /\ TimersOK' /\ TasksOK'
  BY DEF LoadPing, IInv, Typed, ConnsOK, TimersOK, TasksOK, timers, tasks
<1>6. WalkOK'
  <2>1. DOMAIN met = hub \ todo /\ todo' = todo \ {c} /\ todo \subseteq hub /\ hub' = hub
    BY <1>3 DEF LoadPing, IInv, Typed, WalkOK
  <2>2. DOMAIN met' = hub' \ todo'
    BY <1>1, <1>4, <2>1
  <2>3. DOMAIN list' \subseteq User
    BY <1>2 DEF IInv, Typed, WalkOK, ConnsOK
  <2>4. QED
    BY <1>2, <1>3, <2>1, <2>2, <2>3 DEF WalkOK
<1>7. ZeroIsNew'
  <2>1. ping' = ping /\ reader' = reader
    BY DEF LoadPing
  <2>2. reader[c] = "starting" \/ (reader[c] = "reading" /\ ping[c] # 0)
    BY <1>3 DEF IInv, Typed, ConnsOK, Reader, ZeroIsNew
  <2>3. QED
    BY <1>4, <2>1, <2>2 DEF IInv, Typed, ConnsOK, ZeroIsNew
<1>8. ListSoFar'
  <2>1. DOMAIN list = {user[d] : d \in DOMAIN met}
    BY <1>3 DEF IInv, ListSoFar
  <2>2. DOMAIN list' = {user'[d] : d \in DOMAIN met'}
    BY <1>2, <1>3, <1>4, <2>1
  <2>3. QED
    BY <1>2, <1>3, <2>2 DEF ListSoFar
<1>9. NewsIsUnderWay'
  BY <1>3 DEF NewsIsUnderWay
<1>10. QED
  BY <1>5, <1>6, <1>7, <1>8, <1>9 DEF IInv, Typed

LEMMA EndListStep ==
  ASSUME IInv, EndList
  PROVE  IInv'
<1> USE DEF EndList
<1>1. DOMAIN list' = {} /\ DOMAIN met' = {} /\ walking' = FALSE
  OBVIOUS
<1>2. DOMAIN list = Users /\ Users \in SUBSET User /\ Users' = Users
  BY DEF IInv, Typed, ConnsOK, WalkOK, ListSoFar, Users
<1>3. lists' = [lists EXCEPT ![Users] = lists[Users] + 1] /\ lists \in [SUBSET User -> Nat]
  BY <1>2 DEF IInv, Typed, TasksOK
<1>4. ConnsOK' /\ TimersOK' /\ TasksOK'
  <2>1. lists' \in [SUBSET User -> Nat]
    BY <1>2, <1>3
  <2>2. QED
    BY <2>1 DEF IInv, Typed, ConnsOK, TimersOK, TasksOK, timers
<1>5. WalkOK'
  BY <1>1 DEF IInv, Typed, WalkOK
<1>6. ZeroIsNew' /\ ListSoFar'
  BY <1>1 DEF IInv, ZeroIsNew, ListSoFar
<1>7. NewsIsUnderWay'
  <2>1. lists'[Users] > 0
    BY <1>2, <1>3
  <2>2. QED
    BY <1>2, <2>1 DEF NewsIsUnderWay
<1>8. QED
  BY <1>4, <1>5, <1>6, <1>7 DEF IInv, Typed

LEMMA BroadcastStep ==
  ASSUME IInv, NEW users \in SUBSET User, Broadcast(users)
  PROVE  IInv'
<1> USE DEF Broadcast
<1>1. lists' \in [SUBSET User -> Nat]
  BY DEF IInv, Typed, TasksOK
<1>2. ConnsOK' /\ TimersOK' /\ TasksOK'
  BY <1>1 DEF IInv, Typed, ConnsOK, TimersOK, TasksOK, timers
<1>3. WalkOK' /\ ListSoFar'
  BY WalkStays DEF IInv, Typed
<1>4. ZeroIsNew'
  BY ZeroStays DEF IInv, walk
<1>5. NewsIsUnderWay'
  <2>1. Users' = Users
    BY DEF Users
  <2>2. CASE users = Users
    BY <2>2 DEF NewsIsUnderWay
  <2>3. CASE users # Users
    <3>1. lists'[Users] = lists[Users]
      BY <2>3 DEF IInv, Typed, TasksOK, ConnsOK, Users
    <3>2. QED
      BY <2>1, <2>3, <3>1 DEF IInv, NewsIsUnderWay, walk
  <2>4. QED
    BY <2>2, <2>3
<1>6. QED
  BY <1>2, <1>3, <1>4, <1>5 DEF IInv, Typed

-----------------------------------------------------------------------------
(* The invariant is one. *)

LEMMA InitIInv == Init => IInv
<1> SUFFICES ASSUME Init PROVE IInv
  OBVIOUS
<1> USE DEF Init
<1>1. ConnsOK
  BY DEF ConnsOK, Ping, Reader
<1>2. TimersOK /\ TasksOK
  BY Periods DEF TimersOK, TasksOK
<1>3. DOMAIN list = {} /\ DOMAIN met = {} /\ walking = FALSE
  OBVIOUS
<1>4. WalkOK
  BY <1>3 DEF WalkOK
<1>5. ZeroIsNew /\ ListSoFar /\ NewsIsUnderWay
  BY <1>3 DEF ZeroIsNew, ListSoFar, NewsIsUnderWay
<1>6. QED
  BY <1>1, <1>2, <1>4, <1>5 DEF IInv, Typed

LEMMA NextIInv ==
  ASSUME IInv, [Next]_vars
  PROVE  IInv'
<1>1. ASSUME NEW c \in Conn, AddClient(c) PROVE IInv'
  BY <1>1, AddClientStep
<1>2. ASSUME NEW c \in Conn, StartPumps(c) PROVE IInv'
  BY <1>2, StartPumpsStep
<1>3. ASSUME NEW c \in Conn, NEW ms \in RoundTrip, ReadPong(c, ms) PROVE IInv'
  BY <1>3, ReadPongStep
<1>4. ASSUME NEW c \in Conn, ReadControlPong(c) PROVE IInv'
  BY <1>4, ReadControlPongStep
<1>5. ASSUME NEW c \in Conn, Lose(c) PROVE IInv'
  BY <1>5, LoseStep
<1>6. ASSUME NEW c \in Conn, ReadFails(c) PROVE IInv'
  BY <1>6, ReadFailsStep
<1>7. ASSUME NEW c \in Conn, SendPing(c) PROVE IInv'
  BY <1>7, SendPingStep
<1>8. ASSUME NEW c \in Conn, LoadPing(c) PROVE IInv'
  BY <1>8, LoadPingStep
<1>9. CASE StartList
  BY <1>9, StartListStep
<1>10. CASE EndList
  BY <1>10, EndListStep
<1>11. ASSUME NEW users \in SUBSET User, Broadcast(users) PROVE IInv'
  BY <1>11, BroadcastStep
<1>12. CASE Tick
  BY <1>12, TickStep
<1>13. CASE UNCHANGED vars
  <2>1. UNCHANGED <<user, hub, ping, reader, tasks, walk, knows, gone, asked, timers>>
    BY <1>13 DEF vars
  <2>2. gone' \subseteq hub /\ asked' \subseteq hub /\ TimersOK'
    BY <2>1 DEF IInv, Typed, ConnsOK, TimersOK, timers
  <2>3. QED
    BY <2>1, <2>2, QuietStep
<1>14. QED
  BY <1>1, <1>2, <1>3, <1>4, <1>5, <1>6, <1>7, <1>8, <1>9, <1>10, <1>11, <1>12, <1>13 DEF Next

LEMMA IInvHolds == Spec => []IInv
<1>1. Init => IInv
  BY InitIInv
<1>2. IInv /\ [Next]_vars => IInv'
  BY NextIInv
<1>3. QED
  BY <1>1, <1>2, PTL DEF Spec

-----------------------------------------------------------------------------
(* Theorems. *)

\* Every variable keeps its type: the room is the connections whose reader has not ended, and
\* what is walked is the room.
THEOREM TypeCorrect == Spec => []TypeOK
<1>1. IInv => TypeOK
  BY DEF IInv, Typed, ConnsOK, TimersOK, TasksOK, WalkOK, Ping, Reader, TypeOK
<1>2. QED
  BY <1>1, IInvHolds, PTL

\* A list is the room, and each user's ping the least of those the walk met, in whatever order
\* the map is walked and whatever is measured meanwhile (hub.go:48-65).
THEOREM ListCorrect == Spec => []ListIsTheRoom
<1>1. ASSUME IInv PROVE ListIsTheRoom
  <2>1. SUFFICES ASSUME walking, todo = {}
                 PROVE  /\ DOMAIN list = Users
                        /\ \A u \in Users :
                             IF Measurements(u) = {} THEN list[u] < 0
                             ELSE /\ list[u] \in Measurements(u)
                                  /\ \A ms \in Measurements(u) : list[u] <= ms
    BY DEF ListIsTheRoom
  <2>2. DOMAIN met = hub /\ DOMAIN list = Users
    BY <1>1, <2>1 DEF IInv, Typed, WalkOK, ListSoFar, Users
  <2>3. ASSUME NEW u \in Users
        PROVE  IF Measurements(u) = {} THEN list[u] < 0
               ELSE /\ list[u] \in Measurements(u)
                    /\ \A ms \in Measurements(u) : list[u] <= ms
    <3>1. IsLeast(list[u], u, met, user) /\ list[u] \in Int
      BY <1>1, <2>1, <2>2, PingsAreInt DEF IInv, Typed, WalkOK, ListSoFar
    <3>2. list[u] >= 0 => list[u] \in Measurements(u)
      BY <3>1 DEF IsLeast, Measurements
    <3>3. \A ms \in Measurements(u) : list[u] >= 0 /\ list[u] <= ms
      BY <3>1 DEF IsLeast, Measurements
    <3>4. CASE Measurements(u) = {}
      BY <3>1, <3>2, <3>4
    <3>5. CASE Measurements(u) # {}
      BY <3>2, <3>3, <3>5
    <3>6. QED
      BY <3>4, <3>5
  <2>4. QED
    BY <2>2, <2>3
<1>2. QED
  BY <1>1, IInvHolds, PTL

\* A list shows no time that no pong has brought, but for the 0 of a connection that is so new
\* that its reader had not run (hub.go:51, client.go:105).
THEOREM TimesCorrect == Spec => []TimesAreMeasured
<1>1. ASSUME IInv PROVE TimesAreMeasured
  <2>1. SUFFICES ASSUME walking, NEW u \in DOMAIN list, list[u] >= 0
                 PROVE  \/ list[u] \in RoundTrip
                        \/ \E c \in DOMAIN met : user[c] = u /\ met[c].reader = "starting"
    BY DEF TimesAreMeasured
  <2>2. PICK c \in DOMAIN met : user[c] = u /\ met[c].ms = list[u]
    BY <1>1, <2>1 DEF IInv, ListSoFar, IsLeast
  <2>3. met[c].ms \in Ping /\ (met[c].reader # "starting" => met[c].ms # 0)
    BY <1>1 DEF IInv, ZeroIsNew
  <2>4. QED
    BY <2>1, <2>2, <2>3 DEF Ping
<1>2. QED
  BY <1>1, IInvHolds, PTL

\* When no goroutine of broadcastPresence is left, everybody in the room has been offered a
\* list of exactly those who are in it (hub.go:30, 42, 45-46).
THEOREM ToldCorrect == Spec => []EverybodyIsTold
<1>1. ASSUME IInv PROVE EverybodyIsTold
  <2>1. Users \in SUBSET User
    BY <1>1 DEF IInv, Typed, ConnsOK, Users
  <2>2. QED
    BY <1>1, <2>1 DEF IInv, NewsIsUnderWay, EverybodyIsTold
<1>2. QED
  BY <1>1, IInvHolds, PTL
=============================================================================
