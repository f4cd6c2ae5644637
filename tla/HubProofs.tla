----------------------------- MODULE HubProofs -----------------------------
(***************************************************************************)
(* Proofs about Hub, for any number of connections and requests, any       *)
(* capacity of the queues and any bound: its type invariant, that a        *)
(* broadcast walks a map nobody changes, that a registered connection has  *)
(* a goroutine to remove it, that who misses a message or is out of the    *)
(* map is cut off, that the notice of a kick is not lost before the        *)
(* connection, and that Hub implements Link.                               *)
(***************************************************************************)
EXTENDS Hub, TLAPS

-----------------------------------------------------------------------------
(* The queue of a client. *)

Payload == {"news", "kicked"}

\* The notice of a kick is only ever queued for a connection that was kicked: needed for
\* told \subseteq kicked in TypeOK.
NoticeMeansKicked ==
  \A c \in Conn : \A i \in 1..Len(queue[c]) : queue[c][i] = "kicked" => c \in kicked

IInv == TypeOK /\ NoticeMeansKicked

\* A message at the end of a queue that has room.
LEMMA Appended ==
  ASSUME NEW q \in Seq(Payload), NEW message \in Payload, Len(q) <= Cap, Len(q) # Cap
  PROVE  /\ Append(q, message) \in Seq(Payload)
         /\ Len(Append(q, message)) <= Cap
         /\ \A i \in 1..Len(Append(q, message)) :
              Append(q, message)[i] = "kicked" =>
                message = "kicked" \/ \E j \in 1..Len(q) : q[j] = "kicked"
  BY CapAssumption DEF Payload

\* The rest of a queue once its first message is taken.
LEMMA Taken ==
  ASSUME NEW q \in Seq(Payload), q # <<>>, Len(q) <= Cap
  PROVE  /\ Tail(q) \in Seq(Payload)
         /\ Len(Tail(q)) <= Cap
         /\ Head(q) \in Payload
         /\ Head(q) = q[1] /\ 1 \in 1..Len(q)
         /\ \A i \in 1..Len(Tail(q)) : Tail(q)[i] = q[i + 1] /\ i + 1 \in 1..Len(q)
  BY CapAssumption DEF Payload

Queues == queue \in [Conn -> Seq(Payload)] /\ \A c \in Conn : Len(queue[c]) <= Cap

\* What offering a message to a client does, whether its queue is full or not.
LEMMA Offered ==
  ASSUME NEW c \in Conn, NEW message \in Payload, NEW n \in Nat,
         Queues, closing \in [Conn -> Nat], missed \subseteq Conn, TrySend(c, message, n)
  PROVE  /\ Queues'
         /\ closing' \in [Conn -> Nat]
         /\ missed' \subseteq Conn
         /\ \A d \in Conn : closing'[d] >= closing[d]
         /\ \A d \in missed' \ missed : closing'[d] > 0
         /\ \A d \in Conn : \A i \in 1..Len(queue'[d]) :
              queue'[d][i] = "kicked" =>
                (d = c /\ message = "kicked") \/ \E j \in 1..Len(queue[d]) : queue[d][j] = "kicked"
<1>1. CASE Full(c)
  <2>1. queue' = queue /\ missed' = missed \cup {c}
    BY <1>1 DEF TrySend
  <2>2. closing' = [closing EXCEPT ![c] = @ + n + 1]
    BY <1>1 DEF TrySend
  <2> QED BY <2>1, <2>2 DEF Queues
<1>2. CASE ~Full(c)
  <2>1. queue' = [queue EXCEPT ![c] = Append(@, message)] /\ missed' = missed
    BY <1>2 DEF TrySend
  <2>2. closing' = [closing EXCEPT ![c] = @ + n + 0]
    BY <1>2 DEF TrySend
  <2>3. queue[c] \in Seq(Payload) /\ Len(queue[c]) <= Cap /\ Len(queue[c]) # Cap
    BY <1>2 DEF Queues, Full
  <2>4. queue'[c] = Append(queue[c], message) /\ \A d \in Conn \ {c} : queue'[d] = queue[d]
    BY <2>1 DEF Queues
  <2>5. /\ queue'[c] \in Seq(Payload)
        /\ Len(queue'[c]) <= Cap
        /\ \A i \in 1..Len(queue'[c]) : queue'[c][i] = "kicked" =>
             message = "kicked" \/ \E j \in 1..Len(queue[c]) : queue[c][j] = "kicked"
    BY <2>3, <2>4, Appended
  <2>6. queue' \in [Conn -> Seq(Payload)]
    BY <2>1, <2>4, <2>5 DEF Queues
  <2>7. Queues'
    BY <2>4, <2>5, <2>6 DEF Queues
  <2>8. closing' \in [Conn -> Nat] /\ \A d \in Conn : closing'[d] >= closing[d]
    BY <2>2
  <2> QED BY <2>1, <2>4, <2>5, <2>7, <2>8
<1> QED BY <1>1, <1>2

-----------------------------------------------------------------------------
(* Types. *)

\* TypeOK without the queues.
Others ==
  /\ hub \subseteq Conn
  /\ handler \in [Conn -> {"idle", "state", "ping", "started"}]
  /\ reader \in [Conn -> {"off", "reading", "leaving", "gone"}]
  /\ writer \in [Conn -> {"off", "running", "gone"}]
  /\ closing \in [Conn -> Nat] /\ latched \in [Conn -> Nat]
  /\ done \subseteq Conn /\ lost \subseteq Conn
  /\ ready \subseteq Caster
  /\ todo \in [Caster -> SUBSET Conn]
  /\ frames \in 0..MaxFrames
  /\ asked \subseteq Request
  /\ stopped \in BOOLEAN /\ crashed \in BOOLEAN
  /\ kicked \subseteq Conn /\ missed \subseteq Conn /\ told \subseteq kicked

LEMMA TypeParts == TypeOK <=> Queues /\ Others
<1>1. TypeOK => Queues
  BY DEF TypeOK, Queues, Payload
<1>2. TypeOK => Others
  BY DEF TypeOK, Others
<1>3. Queues /\ Others => TypeOK
  BY DEF TypeOK, Queues, Others, Payload
<1> QED BY <1>1, <1>2, <1>3

LEMMA InitIInv == Init => IInv
<1> SUFFICES ASSUME Init PROVE IInv
  OBVIOUS
<1>1. Queues
  BY CapAssumption DEF Init, Queues, Payload
<1>2. Others
  <2>1. hub \subseteq Conn /\ done \subseteq Conn /\ lost \subseteq Conn /\ ready \subseteq Caster
    BY DEF Init
  <2>2. asked \subseteq Request /\ kicked \subseteq Conn /\ missed \subseteq Conn /\ told \subseteq kicked
    BY DEF Init
  <2>3. /\ handler \in [Conn -> {"idle", "state", "ping", "started"}]
        /\ reader \in [Conn -> {"off", "reading", "leaving", "gone"}]
        /\ writer \in [Conn -> {"off", "running", "gone"}]
    BY DEF Init
  <2>4. closing \in [Conn -> Nat] /\ latched \in [Conn -> Nat]
    BY DEF Init
  <2>5. todo \in [Caster -> SUBSET Conn]
    BY DEF Init
  <2>6. frames \in 0..MaxFrames
    BY MaxFramesAssumption DEF Init
  <2>7. stopped \in BOOLEAN /\ crashed \in BOOLEAN
    BY Zenon DEF Init
  <2> QED BY <2>1, <2>2, <2>3, <2>4, <2>5, <2>6, <2>7 DEF Others
<1>3. NoticeMeansKicked
  BY DEF Init, NoticeMeansKicked
<1> QED BY <1>1, <1>2, <1>3, TypeParts DEF IInv

\* The broadcasters of a connection and of a request are among those TypeOK names.
LEMMA Casters ==
  /\ \A c \in Conn : <<c, "joined">> \in Caster /\ <<c, "ponged">> \in Caster
                     /\ <<c, "left">> \in Caster /\ <<c, "reader">> \in Caster
  /\ Request \subseteq Caster
  BY DEF Caster, Presence

\* A step that leaves the queues and the record of kicks alone, or adds to the latter.
LEMMA QueuesUntouched ==
  ASSUME IInv, queue' = queue, kicked \subseteq kicked', Others'
  PROVE  IInv'
<1>1. Queues /\ Queues'
  BY TypeParts DEF IInv, Queues
<1>2. NoticeMeansKicked'
  BY DEF IInv, NoticeMeansKicked
<1>3. TypeOK'
  <2>1. (Queues /\ Others)'
    BY <1>1
  <2> QED BY <2>1, TypeParts, PTL
<1> QED BY <1>2, <1>3 DEF IInv

\* A step that offers a message, the notice of a kick only to somebody kicked.
LEMMA MessageOffered ==
  ASSUME IInv, NEW c \in Conn, NEW message \in Payload, NEW n \in Nat,
         TrySend(c, message, n), kicked \subseteq kicked',
         message = "kicked" => c \in kicked', Others'
  PROVE  IInv'
<1>1. Queues /\ closing \in [Conn -> Nat] /\ missed \subseteq Conn
  BY TypeParts DEF IInv, Others
<1>2. /\ Queues'
      /\ \A d \in Conn : \A i \in 1..Len(queue'[d]) :
           queue'[d][i] = "kicked" =>
             (d = c /\ message = "kicked") \/ \E j \in 1..Len(queue[d]) : queue[d][j] = "kicked"
  BY <1>1, Offered
<1>3. NoticeMeansKicked'
  BY <1>2 DEF IInv, NoticeMeansKicked
<1>4. TypeOK'
  <2>1. (Queues /\ Others)'
    BY <1>2
  <2> QED BY <2>1, TypeParts, PTL
<1> QED BY <1>3, <1>4 DEF IInv

\* What a step that offers a message does to the counters in Others.
LEMMA OfferedTypes ==
  ASSUME IInv, NEW c \in Conn, NEW message \in Payload, NEW n \in Nat, TrySend(c, message, n)
  PROVE  closing' \in [Conn -> Nat] /\ missed' \subseteq Conn
<1>1. Queues /\ closing \in [Conn -> Nat] /\ missed \subseteq Conn
  BY TypeParts DEF IInv, Others
<1> QED BY <1>1, Offered

\* A step that puts "news" into a queue with room.
LEMMA NewsQueued ==
  ASSUME IInv, NEW c \in Conn, ~Full(c), queue' = [queue EXCEPT ![c] = Append(@, "news")],
         kicked' = kicked, Others'
  PROVE  IInv'
<1>1. Queues
  BY TypeParts DEF IInv
<1>2. queue[c] \in Seq(Payload) /\ Len(queue[c]) <= Cap /\ Len(queue[c]) # Cap
  BY <1>1 DEF Queues, Full
<1>3. queue'[c] = Append(queue[c], "news") /\ \A d \in Conn \ {c} : queue'[d] = queue[d]
  BY <1>1 DEF Queues
<1>4. /\ queue'[c] \in Seq(Payload)
      /\ Len(queue'[c]) <= Cap
      /\ \A i \in 1..Len(queue'[c]) : queue'[c][i] = "kicked" =>
           \E j \in 1..Len(queue[c]) : queue[c][j] = "kicked"
  <2>1. "news" \in Payload /\ "news" # "kicked"
    BY DEF Payload
  <2> QED BY <1>2, <1>3, <2>1, Appended
<1>5. queue' \in [Conn -> Seq(Payload)]
  BY <1>1, <1>3, <1>4 DEF Queues
<1>6. Queues'
  BY <1>1, <1>3, <1>4, <1>5 DEF Queues
<1>7. NoticeMeansKicked'
  BY <1>3, <1>4 DEF IInv, NoticeMeansKicked
<1>8. TypeOK'
  <2>1. (Queues /\ Others)'
    BY <1>6
  <2> QED BY <2>1, TypeParts, PTL
<1> QED BY <1>7, <1>8 DEF IInv

\* A step that takes the first message of a queue.
LEMMA MessageTaken ==
  ASSUME IInv, NEW c \in Conn, queue[c] # <<>>, queue' = [queue EXCEPT ![c] = Tail(@)],
         kicked' = kicked, Others'
  PROVE  IInv'
<1>1. Queues
  BY TypeParts DEF IInv
<1>2. queue[c] \in Seq(Payload) /\ Len(queue[c]) <= Cap
  BY <1>1 DEF Queues
<1>3. queue'[c] = Tail(queue[c]) /\ \A d \in Conn \ {c} : queue'[d] = queue[d]
  BY <1>1 DEF Queues
<1>4. /\ queue'[c] \in Seq(Payload)
      /\ Len(queue'[c]) <= Cap
      /\ \A i \in 1..Len(queue'[c]) : queue'[c][i] = queue[c][i + 1] /\ i + 1 \in 1..Len(queue[c])
  BY <1>2, <1>3, Taken
<1>5. queue' \in [Conn -> Seq(Payload)]
  BY <1>1, <1>3, <1>4 DEF Queues
<1>6. Queues'
  BY <1>1, <1>3, <1>4, <1>5 DEF Queues
<1>7. NoticeMeansKicked'
  BY <1>3, <1>4 DEF IInv, NoticeMeansKicked
<1>8. TypeOK'
  <2>1. (Queues /\ Others)'
    BY <1>6
  <2> QED BY <2>1, TypeParts, PTL
<1> QED BY <1>7, <1>8 DEF IInv

\* Reading a frame stays within the bound of the model.
LEMMA FrameRead ==
  ASSUME Others, NEW c \in Conn, CanRead(c)
  PROVE  frames' \in 0..MaxFrames
  BY MaxFramesAssumption DEF Others, CanRead

\* Every step keeps the types and the origin of the notices.
LEMMA StepIInv == IInv /\ [Next]_vars => IInv'
<1> SUFFICES ASSUME IInv, [Next]_vars PROVE IInv'
  OBVIOUS
<1>1. Queues /\ Others
  BY TypeParts DEF IInv
<1> USE <1>1
<1>2. ASSUME NEW c \in Conn, AddClient(c) PROVE IInv'
  <2>1. Others'
    BY <1>2, Casters DEF Others, AddClient, pumps, closers, casts, bounds, history
  <2>2. queue' = queue /\ kicked' = kicked
    BY <1>2 DEF AddClient, pumps, closers, casts, bounds, history
  <2> QED BY <2>1, <2>2, QueuesUntouched
<1>3. ASSUME NEW c \in Conn, ReadPong(c) PROVE IInv'
  <2>1. Others'
    <3>1. frames' \in 0..MaxFrames
      BY <1>3, FrameRead DEF ReadPong
    <3>2. ready' \subseteq Caster
      BY <1>3, Casters DEF Others, ReadPong
    <3> QED BY <1>3, <3>1, <3>2 DEF Others, ReadPong, pumps, closers, casts, bounds, history
  <2>2. queue' = queue /\ kicked' = kicked
    BY <1>3 DEF ReadPong, pumps, closers, casts, bounds, history
  <2> QED BY <2>1, <2>2, QueuesUntouched
<1>4. ASSUME NEW c \in Conn, ReadCommand(c) PROVE IInv'
  <2>1. Others'
    <3>1. frames' \in 0..MaxFrames
      BY <1>4, FrameRead DEF ReadCommand
    <3>2. ready' \subseteq Caster
      BY <1>4, Casters DEF Others, ReadCommand
    <3> QED BY <1>4, <3>1, <3>2 DEF Others, ReadCommand, pumps, closers, casts, bounds, history
  <2>2. queue' = queue /\ kicked' = kicked
    BY <1>4 DEF ReadCommand, pumps, closers, casts, bounds, history
  <2> QED BY <2>1, <2>2, QueuesUntouched
<1>5. ASSUME NEW c \in Conn, ReadFails(c) PROVE IInv'
  <2>1. Others'
    BY <1>5 DEF Others, ReadFails, pumps, closers, casts, bounds, history
  <2>2. queue' = queue /\ kicked' = kicked
    BY <1>5 DEF ReadFails, pumps, closers, casts, bounds, history
  <2> QED BY <2>1, <2>2, QueuesUntouched
<1>6. ASSUME NEW c \in Conn, RemoveClient(c) PROVE IInv'
  <2>1. Others'
    <3>1. reader' \in [Conn -> {"off", "reading", "leaving", "gone"}] /\ closing' \in [Conn -> Nat]
      BY <1>6 DEF Others, RemoveClient
    <3>2. hub' \subseteq Conn /\ ready' \subseteq Caster
      BY <1>6, Casters DEF Others, RemoveClient
    <3> QED BY <1>6, <3>1, <3>2 DEF Others, RemoveClient, pumps, closers, casts, bounds, history
  <2>2. queue' = queue /\ kicked' = kicked
    BY <1>6 DEF RemoveClient, pumps, closers, casts, bounds, history
  <2> QED BY <2>1, <2>2, QueuesUntouched
<1>7. ASSUME NEW c \in Conn, CloseCheck(c) PROVE IInv'
  <2>1. Others'
    BY <1>7 DEF Others, CloseCheck, pumps, closers, casts, bounds, history
  <2>2. queue' = queue /\ kicked' = kicked
    BY <1>7 DEF CloseCheck, pumps, closers, casts, bounds, history
  <2> QED BY <2>1, <2>2, QueuesUntouched
<1>8. ASSUME NEW c \in Conn, CloseCommit(c) PROVE IInv'
  <2>1. Others'
    BY <1>8 DEF Others, CloseCommit, pumps, closers, casts, bounds, history
  <2>2. queue' = queue /\ kicked' = kicked
    BY <1>8 DEF CloseCommit, pumps, closers, casts, bounds, history
  <2> QED BY <2>1, <2>2, QueuesUntouched
<1>9. ASSUME NEW c \in Conn, Lose(c) PROVE IInv'
  <2>1. Others'
    BY <1>9 DEF Others, Lose, pumps, closers, casts, bounds, history
  <2>2. queue' = queue /\ kicked' = kicked
    BY <1>9 DEF Lose, pumps, closers, casts, bounds, history
  <2> QED BY <2>1, <2>2, QueuesUntouched
<1>10. ASSUME NEW c \in Conn, QueueState(c) PROVE IInv'
  <2>1. Others'
    BY <1>10 DEF Others, QueueState, pumps, closers, casts, bounds, history
  <2>2. ~Full(c) /\ queue' = [queue EXCEPT ![c] = Append(@, "news")] /\ kicked' = kicked
    BY <1>10 DEF QueueState, pumps, closers, casts, bounds, history
  <2> QED BY <2>1, <2>2, NewsQueued
<1>11. ASSUME NEW c \in Conn, QueuePing(c) PROVE IInv'
  <2>1. Others'
    BY <1>11 DEF Others, QueuePing, pumps, closers, casts, bounds, history
  <2>2. ~Full(c) /\ queue' = [queue EXCEPT ![c] = Append(@, "news")] /\ kicked' = kicked
    BY <1>11 DEF QueuePing, pumps, closers, casts, bounds, history
  <2> QED BY <2>1, <2>2, NewsQueued
<1>12. ASSUME NEW c \in Conn, ReadRefused(c) PROVE IInv'
  <2>1. TrySend(c, "news", 0) /\ "news" \in Payload /\ "news" # "kicked" /\ 0 \in Nat
    BY <1>12 DEF ReadRefused, Payload
  <2>2. closing' \in [Conn -> Nat] /\ missed' \subseteq Conn
    BY <2>1, OfferedTypes
  <2>3. Others'
    <3>1. frames' \in 0..MaxFrames
      BY <1>12, FrameRead DEF ReadRefused
    <3> QED BY <1>12, <2>2, <3>1 DEF Others, ReadRefused, pumps, closers, casts, bounds, history
  <2>4. kicked \subseteq kicked'
    BY <1>12 DEF ReadRefused
  <2> QED BY <2>1, <2>3, <2>4, MessageOffered
<1>13. ASSUME NEW g \in Caster, NEW c \in Conn, BroadcastTo(g, c) PROVE IInv'
  <2>1. TrySend(c, "news", 0) /\ "news" \in Payload /\ "news" # "kicked" /\ 0 \in Nat
    BY <1>13 DEF BroadcastTo, Payload
  <2>2. closing' \in [Conn -> Nat] /\ missed' \subseteq Conn
    BY <2>1, OfferedTypes
  <2>3. Others'
    BY <1>13, <2>2 DEF Others, BroadcastTo, pumps, closers, casts, bounds, history
  <2>4. kicked \subseteq kicked'
    BY <1>13 DEF BroadcastTo
  <2> QED BY <2>1, <2>3, <2>4, MessageOffered
<1>14. ASSUME NEW c \in Conn, DisconnectMember(c) PROVE IInv'
  <2>1. TrySend(c, "kicked", 1) /\ "kicked" \in Payload /\ 1 \in Nat
    BY <1>14 DEF DisconnectMember, Payload
  <2>2. closing' \in [Conn -> Nat] /\ missed' \subseteq Conn
    BY <2>1, OfferedTypes
  <2>3. kicked' = kicked \cup {c}
    BY <1>14 DEF DisconnectMember
  <2>4. Others'
    BY <1>14, <2>2, <2>3 DEF Others, DisconnectMember, pumps, closers, casts, bounds, history
  <2> QED BY <2>1, <2>3, <2>4, MessageOffered
<1>15. ASSUME NEW c \in Conn, Write(c) PROVE IInv'
  <2>1. queue[c] # <<>> /\ queue' = [queue EXCEPT ![c] = Tail(@)] /\ kicked' = kicked
    BY <1>15 DEF Write
  <2>2. told' \subseteq kicked
    <3>1. CASE Head(queue[c]) = "kicked" /\ c \notin lost
      <4>1. queue[c][1] = "kicked" /\ 1 \in 1..Len(queue[c])
        BY <2>1, <3>1, Taken DEF Queues
      <4>2. c \in kicked
        BY <4>1 DEF IInv, NoticeMeansKicked
      <4> QED BY <1>15, <3>1, <4>2 DEF Write, Others
    <3>2. CASE ~(Head(queue[c]) = "kicked" /\ c \notin lost)
      BY <1>15, <3>2 DEF Write, Others
    <3> QED BY <3>1, <3>2
  <2>3. Others'
    BY <1>15, <2>1, <2>2 DEF Others, Write, pumps, closers, casts, bounds, history
  <2> QED BY <2>1, <2>3, MessageTaken
<1>16. ASSUME NEW c \in Conn, WriteFails(c) PROVE IInv'
  <2>1. Others'
    BY <1>16 DEF Others, WriteFails, pumps, closers, casts, bounds, history
  <2>2. kicked' = kicked
    BY <1>16 DEF WriteFails, history
  <2>3. CASE queue[c] # <<>> /\ queue' = [queue EXCEPT ![c] = Tail(@)]
    BY <2>1, <2>2, <2>3, MessageTaken
  <2>4. CASE UNCHANGED queue
    BY <2>1, <2>2, <2>4, QueuesUntouched
  <2> QED BY <1>16, <2>3, <2>4 DEF WriteFails
<1>17. ASSUME NEW q \in Request, BroadcastRoomState(q) PROVE IInv'
  <2>1. Others'
    BY <1>17, Casters DEF Others, BroadcastRoomState, pumps, closers, casts, bounds, history
  <2>2. queue' = queue /\ kicked' = kicked
    BY <1>17 DEF BroadcastRoomState, pumps, closers, casts, bounds, history
  <2> QED BY <2>1, <2>2, QueuesUntouched
<1>18. ASSUME NEW g \in Caster, BroadcastStart(g) PROVE IInv'
  <2>1. Others'
    BY <1>18 DEF Others, BroadcastStart, pumps, closers, casts, bounds, history
  <2>2. queue' = queue /\ kicked' = kicked
    BY <1>18 DEF BroadcastStart, pumps, closers, casts, bounds, history
  <2> QED BY <2>1, <2>2, QueuesUntouched
<1>19. ASSUME Close PROVE IInv'
  <2>1. Others'
    BY <1>19 DEF Others, Close, pumps, closers, casts, bounds, history
  <2>2. queue' = queue /\ kicked' = kicked
    BY <1>19 DEF Close, pumps, closers, casts, bounds, history
  <2> QED BY <2>1, <2>2, QueuesUntouched
<1>20. CASE UNCHANGED vars
  <2>1. Others'
    BY <1>20 DEF Others, vars, pumps, closers, casts, bounds, history
  <2>2. queue' = queue /\ kicked' = kicked
    BY <1>20 DEF vars, pumps, closers, casts, bounds, history
  <2> QED BY <2>1, <2>2, QueuesUntouched
<1> QED BY <1>2, <1>3, <1>4, <1>5, <1>6, <1>7, <1>8, <1>9, <1>10, <1>11, <1>12, <1>13, <1>14, <1>15, <1>16, <1>17, <1>18, <1>19, <1>20 DEF Next

\* The type invariant holds in every reachable state, and only kicked connections are told.
THEOREM TypeCorrect == Spec => []TypeOK
<1>1. IInv => TypeOK
  BY DEF IInv
<1> QED BY InitIInv, StepIInv, <1>1, PTL DEF Spec

-----------------------------------------------------------------------------
(* A broadcast and the room it goes round. *)

\* Whoever writes the map waits until nobody walks it; whoever walks takes the map as it is.
LEMMA StepWalks == TypeOK /\ BroadcastWalksTheRoom /\ [Next]_vars => BroadcastWalksTheRoom'
<1> SUFFICES ASSUME TypeOK, BroadcastWalksTheRoom, [Next]_vars PROVE BroadcastWalksTheRoom'
  OBVIOUS
<1>1. todo \in [Caster -> SUBSET Conn]
  BY DEF TypeOK
<1> USE <1>1 DEF BroadcastWalksTheRoom
<1>2. ASSUME NEW c \in Conn, AddClient(c) PROVE BroadcastWalksTheRoom'
  BY <1>2 DEF AddClient, NoReaders, casts
<1>3. ASSUME NEW c \in Conn, QueueState(c) PROVE BroadcastWalksTheRoom'
  BY <1>3 DEF QueueState, casts
<1>4. ASSUME NEW c \in Conn, QueuePing(c) PROVE BroadcastWalksTheRoom'
  BY <1>4 DEF QueuePing, casts
<1>5. ASSUME NEW c \in Conn, ReadPong(c) PROVE BroadcastWalksTheRoom'
  BY <1>5 DEF ReadPong, casts
<1>6. ASSUME NEW c \in Conn, ReadCommand(c) PROVE BroadcastWalksTheRoom'
  BY <1>6 DEF ReadCommand, casts
<1>7. ASSUME NEW c \in Conn, ReadRefused(c) PROVE BroadcastWalksTheRoom'
  BY <1>7 DEF ReadRefused, casts
<1>8. ASSUME NEW c \in Conn, ReadFails(c) PROVE BroadcastWalksTheRoom'
  BY <1>8 DEF ReadFails, casts
<1>9. ASSUME NEW c \in Conn, RemoveClient(c) PROVE BroadcastWalksTheRoom'
  BY <1>9 DEF RemoveClient, NoReaders, casts
<1>10. ASSUME NEW c \in Conn, Write(c) PROVE BroadcastWalksTheRoom'
  BY <1>10 DEF Write, casts
<1>11. ASSUME NEW c \in Conn, WriteFails(c) PROVE BroadcastWalksTheRoom'
  BY <1>11 DEF WriteFails, casts
<1>12. ASSUME NEW c \in Conn, CloseCheck(c) PROVE BroadcastWalksTheRoom'
  BY <1>12 DEF CloseCheck, casts
<1>13. ASSUME NEW c \in Conn, CloseCommit(c) PROVE BroadcastWalksTheRoom'
  BY <1>13 DEF CloseCommit, casts
<1>14. ASSUME NEW c \in Conn, DisconnectMember(c) PROVE BroadcastWalksTheRoom'
  BY <1>14 DEF DisconnectMember, casts
<1>15. ASSUME NEW c \in Conn, Lose(c) PROVE BroadcastWalksTheRoom'
  BY <1>15 DEF Lose, casts
<1>16. ASSUME NEW q \in Request, BroadcastRoomState(q) PROVE BroadcastWalksTheRoom'
  BY <1>16 DEF BroadcastRoomState
<1>17. ASSUME NEW g \in Caster, BroadcastStart(g) PROVE BroadcastWalksTheRoom'
  BY <1>17 DEF BroadcastStart
<1>18. ASSUME NEW g \in Caster, NEW c \in Conn, BroadcastTo(g, c) PROVE BroadcastWalksTheRoom'
  BY <1>18 DEF BroadcastTo
<1>19. ASSUME Close PROVE BroadcastWalksTheRoom'
  BY <1>19 DEF Close, NoReaders, casts
<1>20. CASE UNCHANGED vars
  BY <1>20 DEF vars, casts
<1> QED BY <1>2, <1>3, <1>4, <1>5, <1>6, <1>7, <1>8, <1>9, <1>10, <1>11, <1>12, <1>13, <1>14, <1>15, <1>16, <1>17, <1>18, <1>19, <1>20 DEF Next

\* The map of the room is the same from the first client a broadcast reaches to the last.
THEOREM WalksCorrect == Spec => []BroadcastWalksTheRoom
<1>1. Init => BroadcastWalksTheRoom
  BY DEF Init, BroadcastWalksTheRoom
<1> QED BY <1>1, TypeCorrect, StepWalks, PTL DEF Spec

-----------------------------------------------------------------------------
(* A registered connection and the goroutine that removes it. *)

\* The handler hands its connection to the reader, and the reader leaves with removeClient.
LEMMA StepKeeper == TypeOK /\ RegisteredHasKeeper /\ [Next]_vars => RegisteredHasKeeper'
<1> SUFFICES ASSUME TypeOK, RegisteredHasKeeper, [Next]_vars PROVE RegisteredHasKeeper'
  OBVIOUS
<1>1. /\ hub \subseteq Conn
      /\ handler \in [Conn -> {"idle", "state", "ping", "started"}]
      /\ reader \in [Conn -> {"off", "reading", "leaving", "gone"}]
  BY DEF TypeOK
<1> USE <1>1 DEF RegisteredHasKeeper
<1>2. ASSUME NEW c \in Conn, AddClient(c) PROVE RegisteredHasKeeper'
  BY <1>2 DEF AddClient, pumps
<1>3. ASSUME NEW c \in Conn, QueueState(c) PROVE RegisteredHasKeeper'
  BY <1>3 DEF QueueState, pumps
<1>4. ASSUME NEW c \in Conn, QueuePing(c) PROVE RegisteredHasKeeper'
  BY <1>4 DEF QueuePing, pumps
<1>5. ASSUME NEW c \in Conn, ReadPong(c) PROVE RegisteredHasKeeper'
  BY <1>5 DEF ReadPong, pumps
<1>6. ASSUME NEW c \in Conn, ReadCommand(c) PROVE RegisteredHasKeeper'
  BY <1>6 DEF ReadCommand, pumps
<1>7. ASSUME NEW c \in Conn, ReadRefused(c) PROVE RegisteredHasKeeper'
  BY <1>7 DEF ReadRefused, pumps
<1>8. ASSUME NEW c \in Conn, ReadFails(c) PROVE RegisteredHasKeeper'
  BY <1>8 DEF ReadFails, pumps
<1>9. ASSUME NEW c \in Conn, RemoveClient(c) PROVE RegisteredHasKeeper'
  BY <1>9 DEF RemoveClient, pumps
<1>10. ASSUME NEW c \in Conn, Write(c) PROVE RegisteredHasKeeper'
  BY <1>10 DEF Write, pumps
<1>11. ASSUME NEW c \in Conn, WriteFails(c) PROVE RegisteredHasKeeper'
  BY <1>11 DEF WriteFails, pumps
<1>12. ASSUME NEW c \in Conn, CloseCheck(c) PROVE RegisteredHasKeeper'
  BY <1>12 DEF CloseCheck, pumps
<1>13. ASSUME NEW c \in Conn, CloseCommit(c) PROVE RegisteredHasKeeper'
  BY <1>13 DEF CloseCommit, pumps
<1>14. ASSUME NEW c \in Conn, DisconnectMember(c) PROVE RegisteredHasKeeper'
  BY <1>14 DEF DisconnectMember, pumps
<1>15. ASSUME NEW c \in Conn, Lose(c) PROVE RegisteredHasKeeper'
  BY <1>15 DEF Lose, pumps
<1>16. ASSUME NEW q \in Request, BroadcastRoomState(q) PROVE RegisteredHasKeeper'
  BY <1>16 DEF BroadcastRoomState, pumps
<1>17. ASSUME NEW g \in Caster, BroadcastStart(g) PROVE RegisteredHasKeeper'
  BY <1>17 DEF BroadcastStart, pumps
<1>18. ASSUME NEW g \in Caster, NEW c \in Conn, BroadcastTo(g, c) PROVE RegisteredHasKeeper'
  BY <1>18 DEF BroadcastTo, pumps
<1>19. ASSUME Close PROVE RegisteredHasKeeper'
  BY <1>19 DEF Close
<1>20. CASE UNCHANGED vars
  BY <1>20 DEF vars, pumps
<1> QED BY <1>2, <1>3, <1>4, <1>5, <1>6, <1>7, <1>8, <1>9, <1>10, <1>11, <1>12, <1>13, <1>14, <1>15, <1>16, <1>17, <1>18, <1>19, <1>20 DEF Next

\* No connection stays in the hub with nobody left to take it out.
THEOREM KeeperCorrect == Spec => []RegisteredHasKeeper
<1>1. Init => RegisteredHasKeeper
  BY DEF Init, RegisteredHasKeeper
<1> QED BY <1>1, TypeCorrect, StepKeeper, PTL DEF Spec

-----------------------------------------------------------------------------
(* A dropped message and the end of the connection. *)

\* Calls of close() may become closed connections, but are never forgotten.
LEMMA MissedKept ==
  ASSUME TypeOK, MissedIsClosing, closing' \in [Conn -> Nat], latched' \in [Conn -> Nat],
         done \subseteq done', missed' \subseteq Conn,
         \A d \in Conn : closing'[d] + latched'[d] >= closing[d] + latched[d],
         \A d \in missed' \ missed : closing'[d] > 0
  PROVE  MissedIsClosing'
<1>1. ASSUME NEW d \in missed' PROVE d \in done' \/ closing'[d] + latched'[d] > 0
  <2>1. d \in Conn /\ closing[d] \in Nat /\ latched[d] \in Nat
        /\ closing'[d] \in Nat /\ latched'[d] \in Nat
    BY DEF TypeOK
  <2>2. CASE d \in missed
    <3>1. d \in done \/ closing[d] + latched[d] > 0
      BY <2>2 DEF MissedIsClosing, CutOff
    <3>2. closing'[d] + latched'[d] >= closing[d] + latched[d]
      BY <2>1
    <3> QED BY <2>1, <3>1, <3>2
  <2>3. CASE d \notin missed
    <3>1. closing'[d] > 0
      BY <2>3
    <3> QED BY <2>1, <3>1
  <2> QED BY <2>2, <2>3
<1> QED BY <1>1 DEF MissedIsClosing, CutOff

\* The same of a step that offers a message.
LEMMA MissedOffered ==
  ASSUME TypeOK, MissedIsClosing, NEW c \in Conn, NEW message \in Payload, NEW n \in Nat,
         TrySend(c, message, n), latched' = latched, done' = done
  PROVE  MissedIsClosing'
<1>1. Queues /\ closing \in [Conn -> Nat] /\ missed \subseteq Conn /\ latched \in [Conn -> Nat]
  BY TypeParts DEF TypeOK
<1>2. /\ closing' \in [Conn -> Nat] /\ missed' \subseteq Conn
      /\ \A d \in Conn : closing'[d] >= closing[d]
      /\ \A d \in missed' \ missed : closing'[d] > 0
  BY <1>1, Offered
<1>3. \A d \in Conn : closing'[d] + latched'[d] >= closing[d] + latched[d]
  BY <1>1, <1>2
<1> QED BY <1>1, <1>2, <1>3, MissedKept

\* Every step leaves whoever missed a message closed or about to be.
LEMMA StepMissed == TypeOK /\ MissedIsClosing /\ [Next]_vars => MissedIsClosing'
<1> SUFFICES ASSUME TypeOK, MissedIsClosing, [Next]_vars PROVE MissedIsClosing'
  OBVIOUS
<1>1. /\ closing \in [Conn -> Nat] /\ latched \in [Conn -> Nat]
      /\ missed \subseteq Conn
  BY DEF TypeOK
<1>2. ASSUME NEW c \in Conn, AddClient(c) PROVE MissedIsClosing'
  BY <1>2 DEF MissedIsClosing, CutOff, AddClient, closers, history
<1>3. ASSUME NEW c \in Conn, QueueState(c) PROVE MissedIsClosing'
  BY <1>3 DEF MissedIsClosing, CutOff, QueueState, closers, history
<1>4. ASSUME NEW c \in Conn, QueuePing(c) PROVE MissedIsClosing'
  BY <1>4 DEF MissedIsClosing, CutOff, QueuePing, closers, history
<1>5. ASSUME NEW c \in Conn, ReadPong(c) PROVE MissedIsClosing'
  BY <1>5 DEF MissedIsClosing, CutOff, ReadPong, closers, history
<1>6. ASSUME NEW c \in Conn, ReadCommand(c) PROVE MissedIsClosing'
  BY <1>6 DEF MissedIsClosing, CutOff, ReadCommand, closers, history
<1>7. ASSUME NEW c \in Conn, ReadRefused(c) PROVE MissedIsClosing'
  <2>1. TrySend(c, "news", 0) /\ "news" \in Payload /\ 0 \in Nat /\ latched' = latched /\ done' = done
    BY <1>7 DEF ReadRefused, Payload
  <2> QED BY <2>1, MissedOffered
<1>8. ASSUME NEW c \in Conn, ReadFails(c) PROVE MissedIsClosing'
  BY <1>8 DEF MissedIsClosing, CutOff, ReadFails, closers, history
<1>9. ASSUME NEW c \in Conn, RemoveClient(c) PROVE MissedIsClosing'
  <2>1. closing' \in [Conn -> Nat] /\ latched' \in [Conn -> Nat] /\ done' = done /\ missed' = missed
    BY <1>1, <1>9 DEF RemoveClient, history
  <2>2. \A d \in Conn : closing'[d] + latched'[d] >= closing[d] + latched[d]
    BY <1>1, <1>9 DEF RemoveClient
  <2> QED BY <1>1, <2>1, <2>2, MissedKept
<1>10. ASSUME NEW c \in Conn, Write(c) PROVE MissedIsClosing'
  BY <1>10 DEF MissedIsClosing, CutOff, Write, closers, history
<1>11. ASSUME NEW c \in Conn, WriteFails(c) PROVE MissedIsClosing'
  <2>1. closing' \in [Conn -> Nat] /\ latched' \in [Conn -> Nat] /\ done' = done /\ missed' = missed
    BY <1>1, <1>11 DEF WriteFails, history
  <2>2. \A d \in Conn : closing'[d] + latched'[d] >= closing[d] + latched[d]
    BY <1>1, <1>11 DEF WriteFails
  <2> QED BY <1>1, <2>1, <2>2, MissedKept
<1>12. ASSUME NEW c \in Conn, CloseCheck(c) PROVE MissedIsClosing'
  <2>1. closing' \in [Conn -> Nat] /\ latched' \in [Conn -> Nat] /\ done' = done /\ missed' = missed
    BY <1>1, <1>12 DEF CloseCheck, history
  <2>2. CASE c \in done
    BY <1>1, <1>12, <2>1, <2>2 DEF CloseCheck, MissedIsClosing, CutOff
  <2>3. CASE c \notin done
    <3>1. \A d \in Conn : closing'[d] + latched'[d] = closing[d] + latched[d]
      BY <1>1, <1>12, <2>3 DEF CloseCheck
    <3> QED BY <2>1, <3>1 DEF MissedIsClosing, CutOff, TypeOK
  <2> QED BY <2>2, <2>3
<1>13. ASSUME NEW c \in Conn, CloseCommit(c) PROVE MissedIsClosing'
  <2>1. done' = done \cup {c} /\ missed' = missed /\ closing' = closing
        /\ \A d \in Conn \ {c} : latched'[d] = latched[d]
    BY <1>1, <1>13 DEF CloseCommit, history
  <2> QED BY <1>1, <2>1 DEF MissedIsClosing, CutOff
<1>14. ASSUME NEW c \in Conn, DisconnectMember(c) PROVE MissedIsClosing'
  <2>1. TrySend(c, "kicked", 1) /\ "kicked" \in Payload /\ 1 \in Nat /\ latched' = latched /\ done' = done
    BY <1>14 DEF DisconnectMember, Payload
  <2> QED BY <2>1, MissedOffered
<1>15. ASSUME NEW c \in Conn, Lose(c) PROVE MissedIsClosing'
  BY <1>15 DEF MissedIsClosing, CutOff, Lose, closers, history
<1>16. ASSUME NEW q \in Request, BroadcastRoomState(q) PROVE MissedIsClosing'
  BY <1>16 DEF MissedIsClosing, CutOff, BroadcastRoomState, closers, history
<1>17. ASSUME NEW g \in Caster, BroadcastStart(g) PROVE MissedIsClosing'
  BY <1>17 DEF MissedIsClosing, CutOff, BroadcastStart, closers, history
<1>18. ASSUME NEW g \in Caster, NEW c \in Conn, BroadcastTo(g, c) PROVE MissedIsClosing'
  <2>1. TrySend(c, "news", 0) /\ "news" \in Payload /\ 0 \in Nat /\ latched' = latched /\ done' = done
    BY <1>18 DEF BroadcastTo, Payload
  <2> QED BY <2>1, MissedOffered
<1>19. ASSUME Close PROVE MissedIsClosing'
  <2>1. closing' \in [Conn -> Nat] /\ latched' = latched /\ done' = done /\ missed' = missed
    BY <1>1, <1>19 DEF Close, history
  <2>2. \A d \in Conn : closing'[d] + latched'[d] >= closing[d] + latched[d]
    BY <1>1, <1>19, <2>1 DEF Close
  <2> QED BY <1>1, <2>1, <2>2, MissedKept
<1>20. CASE UNCHANGED vars
  BY <1>20 DEF MissedIsClosing, CutOff, vars, closers, history
<1> QED BY <1>2, <1>3, <1>4, <1>5, <1>6, <1>7, <1>8, <1>9, <1>10, <1>11, <1>12, <1>13, <1>14, <1>15, <1>16, <1>17, <1>18, <1>19, <1>20 DEF Next

\* Whoever misses a message is cut off: nobody stays connected with a gap.
THEOREM MissedCorrect == Spec => []MissedIsClosing
<1>1. Init => MissedIsClosing
  BY DEF Init, MissedIsClosing, CutOff
<1> QED BY <1>1, TypeCorrect, StepMissed, PTL DEF Spec

-----------------------------------------------------------------------------
(* Who is out. *)

\* A call of close() ends with the connection closed, and nothing reopens it.
LEMMA StepCutOff == TypeOK /\ [Next]_vars => \A d \in Conn : CutOff(d) => CutOff(d)'
<1> SUFFICES ASSUME TypeOK, [Next]_vars, NEW d \in Conn, CutOff(d) PROVE CutOff(d)'
  OBVIOUS
<1>1. closing \in [Conn -> Nat] /\ latched \in [Conn -> Nat] /\ Queues
  BY TypeParts DEF TypeOK
<1>2. ASSUME NEW c \in Conn,
             \/ AddClient(c) \/ QueueState(c) \/ QueuePing(c) \/ ReadPong(c) \/ ReadCommand(c)
             \/ ReadFails(c) \/ Write(c) \/ Lose(c)
      PROVE  CutOff(d)'
  BY <1>2 DEF CutOff, AddClient, QueueState, QueuePing, ReadPong, ReadCommand, ReadFails, Write,
     Lose, closers
<1>3. ASSUME \/ \E q \in Request : BroadcastRoomState(q)
             \/ \E g \in Caster : BroadcastStart(g)
             \/ UNCHANGED vars
      PROVE  CutOff(d)'
  BY <1>3 DEF CutOff, BroadcastRoomState, BroadcastStart, vars, closers
<1>4. ASSUME closing'[d] \in Nat, closing'[d] >= closing[d], latched' = latched, done' = done
      PROVE  CutOff(d)'
  BY <1>1, <1>4 DEF CutOff
<1>5. ASSUME NEW c \in Conn, NEW message \in Payload, NEW n \in Nat,
             TrySend(c, message, n), latched' = latched, done' = done
      PROVE  CutOff(d)'
  <2>1. closing' \in [Conn -> Nat] /\ closing'[d] >= closing[d]
    BY <1>1, <1>5, TypeParts, Offered DEF TypeOK
  <2> QED BY <1>4, <1>5, <2>1
<1>6. ASSUME NEW c \in Conn, ReadRefused(c) PROVE CutOff(d)'
  BY <1>5, <1>6 DEF ReadRefused, Payload
<1>7. ASSUME NEW c \in Conn, DisconnectMember(c) PROVE CutOff(d)'
  BY <1>5, <1>7 DEF DisconnectMember, Payload
<1>8. ASSUME NEW g \in Caster, NEW c \in Conn, BroadcastTo(g, c) PROVE CutOff(d)'
  BY <1>5, <1>8 DEF BroadcastTo, Payload
<1>9. ASSUME NEW c \in Conn, RemoveClient(c) \/ WriteFails(c) PROVE CutOff(d)'
  <2>1. closing' = [closing EXCEPT ![c] = @ + 1] /\ latched' = latched /\ done' = done
    BY <1>9 DEF RemoveClient, WriteFails
  <2> QED BY <1>1, <1>4, <2>1
<1>10. ASSUME Close PROVE CutOff(d)'
  <2>1. closing'[d] = closing[d] + IF d \in hub THEN 1 ELSE 0
    BY <1>10 DEF Close
  <2> QED BY <1>1, <1>4, <1>10, <2>1 DEF Close
<1>11. ASSUME NEW c \in Conn, CloseCheck(c) PROVE CutOff(d)'
  <2>1. CASE c \in done
    BY <1>1, <1>11, <2>1 DEF CloseCheck, CutOff
  <2>2. CASE c \notin done
    <3>1. closing'[d] + latched'[d] = closing[d] + latched[d] /\ done' = done
      BY <1>1, <1>11, <2>2 DEF CloseCheck
    <3> QED BY <3>1 DEF CutOff
  <2> QED BY <2>1, <2>2
<1>12. ASSUME NEW c \in Conn, CloseCommit(c) PROVE CutOff(d)'
  BY <1>1, <1>12 DEF CloseCommit, CutOff
<1> QED BY <1>2, <1>3, <1>6, <1>7, <1>8, <1>9, <1>10, <1>11, <1>12 DEF Next

\* Nothing is heard on it any more.
Out(c) == c \in Departed \/ writer[c] = "gone"

LEMMA OutParts == OutIsCutOff <=> \A c \in Conn : Out(c) => CutOff(c)
  BY DEF OutIsCutOff, Out

\* The steps that put a connection out call close() for it.
LEMMA StepOut == TypeOK /\ OutIsCutOff /\ [Next]_vars => OutIsCutOff'
<1> SUFFICES ASSUME TypeOK, OutIsCutOff, [Next]_vars, NEW d \in Conn, Out(d)'
             PROVE  CutOff(d)'
  BY DEF OutIsCutOff, Out
<1>1. CASE Out(d)
  BY <1>1, OutParts, StepCutOff
<1>2. CASE ~Out(d)
  <2>1. /\ closing \in [Conn -> Nat] /\ latched \in [Conn -> Nat]
        /\ handler \in [Conn -> {"idle", "state", "ping", "started"}]
        /\ writer \in [Conn -> {"off", "running", "gone"}]
    BY DEF TypeOK
  <2>2. ASSUME handler' = handler, hub' = hub, writer' = writer PROVE FALSE
    BY <1>2, <2>2 DEF Out, Departed
  <2>3. ASSUME NEW c \in Conn, AddClient(c) PROVE FALSE
    BY <1>2, <2>1, <2>3 DEF Out, Departed, AddClient
  <2>4. ASSUME NEW c \in Conn, QueueState(c) \/ QueuePing(c) PROVE FALSE
    BY <1>2, <2>1, <2>4 DEF Out, Departed, QueueState, QueuePing
  <2>5. ASSUME NEW c \in Conn, RemoveClient(c) PROVE CutOff(d)'
    <3>1. c = d
      BY <1>2, <2>5 DEF Out, Departed, RemoveClient
    <3> QED BY <2>1, <2>5, <3>1 DEF RemoveClient, CutOff
  <2>6. ASSUME NEW c \in Conn, WriteFails(c) PROVE CutOff(d)'
    <3>1. c = d
      BY <1>2, <2>1, <2>6 DEF Out, Departed, WriteFails
    <3> QED BY <2>1, <2>6, <3>1 DEF WriteFails, CutOff
  <2>7. ASSUME Close PROVE CutOff(d)'
    <3>1. d \in hub
      BY <1>2, <2>7 DEF Out, Departed, Close, pumps
    <3>2. closing'[d] = closing[d] + 1 /\ latched' = latched
      BY <2>7, <3>1 DEF Close
    <3> QED BY <2>1, <3>2 DEF CutOff
  <2>8. ASSUME NEW c \in Conn,
               \/ ReadPong(c) \/ ReadCommand(c) \/ ReadRefused(c) \/ ReadFails(c) \/ Write(c)
               \/ CloseCheck(c) \/ CloseCommit(c) \/ DisconnectMember(c) \/ Lose(c)
        PROVE  FALSE
    BY <2>2, <2>8 DEF ReadPong, ReadCommand, ReadRefused, ReadFails, Write, CloseCheck,
       CloseCommit, DisconnectMember, Lose, pumps
  <2>9. ASSUME \/ \E q \in Request : BroadcastRoomState(q)
               \/ \E g \in Caster : BroadcastStart(g) \/ \E c \in Conn : BroadcastTo(g, c)
               \/ UNCHANGED vars
        PROVE  FALSE
    BY <2>2, <2>9 DEF BroadcastRoomState, BroadcastStart, BroadcastTo, vars, pumps
  <2> QED BY <2>3, <2>4, <2>5, <2>6, <2>7, <2>8, <2>9 DEF Next
<1> QED BY <1>1, <1>2

\* No connection stays open that the hub does not know, or that has no writer.
THEOREM OutCorrect == Spec => []OutIsCutOff
<1>1. Init => OutIsCutOff
  BY DEF Init, OutIsCutOff, Departed
<1> QED BY <1>1, TypeCorrect, StepOut, PTL DEF Spec

-----------------------------------------------------------------------------
(* What the hub promises of a connection. *)

\* Who is cut off, for the promise.
Closed == {c \in Conn : CutOff(c)}

LEMMA LifetimeInit == Init => Lifetime!Init
  BY DEF Init, Lifetime!Init, Departed, CutOff

\* A step that leaves the map alone, and cuts off nobody but c, who alone may have missed
\* something and is then cut off.
LEMMA CuttingStep ==
  ASSUME TypeOK, [Next]_vars, hub' = hub, Departed' = Departed, NEW c \in Conn,
         \A d \in Conn \ {c} : CutOff(d)' => CutOff(d),
         missed' = missed \/ (missed' = missed \cup {c} /\ CutOff(c)')
  PROVE  [Lifetime!Next]_(Lifetime!vars)
<1>1. Closed' = Closed \/ Closed' = Closed \cup {c}
  BY StepCutOff DEF Closed
<1>2. CASE missed' = missed /\ Closed' = Closed
  BY <1>2 DEF Lifetime!vars, Closed
<1>3. CASE missed' = missed /\ Closed' = Closed \cup {c}
  <2>1. Lifetime!Cut(c)
    BY <1>3 DEF Lifetime!Cut, Closed
  <2> QED BY <2>1 DEF Lifetime!Next
<1>4. CASE missed' = missed \cup {c} /\ CutOff(c)'
  <2>1. Closed' = Closed \cup {c}
    BY <1>1, <1>4 DEF Closed
  <2>2. Lifetime!Miss(c)
    BY <1>4, <2>1 DEF Lifetime!Miss, Closed
  <2> QED BY <2>2 DEF Lifetime!Next
<1> QED BY <1>1, <1>2, <1>3, <1>4

\* A step that takes some out of the map, and cuts off them and nobody else.
LEMMA LeavingStep ==
  ASSUME TypeOK, [Next]_vars, OutIsCutOff, NEW C \in SUBSET Conn,
         handler' = handler, hub' = hub \ C, missed' = missed,
         \A d \in Conn \ C : CutOff(d)' => CutOff(d), \A d \in C : CutOff(d)',
         \A d \in C : handler[d] # "idle"
  PROVE  [Lifetime!Next]_(Lifetime!vars)
<1>1. \A d \in C \ hub : CutOff(d)
  BY DEF OutIsCutOff, Departed
<1>2. Closed' = Closed \cup (C \cap hub)
  BY <1>1, StepCutOff DEF Closed
<1>3. Departed' = Departed \cup (C \cap hub) /\ hub \subseteq Conn
  BY DEF Departed, TypeOK
<1>4. Lifetime!Leave(C \cap hub)
  BY <1>2, <1>3 DEF Lifetime!Leave, Closed
<1> QED BY <1>3, <1>4 DEF Lifetime!Next

-----------------------------------------------------------------------------
(* The notice of a kick. *)

HasNotice(q) == \E i \in 1..Len(q) : q[i] = "kicked"

\* A notice stays in a queue, or comes into it, when a message is added.
LEMMA NoticeAppended ==
  ASSUME NEW q \in Seq(Payload), NEW message \in Payload, HasNotice(q) \/ message = "kicked"
  PROVE  HasNotice(Append(q, message))
<1>1. CASE HasNotice(q)
  <2>1. PICK i \in 1..Len(q) : q[i] = "kicked"
    BY <1>1 DEF HasNotice
  <2>2. i \in 1..Len(Append(q, message)) /\ Append(q, message)[i] = "kicked"
    BY <2>1
  <2> QED BY <2>2 DEF HasNotice
<1>2. CASE message = "kicked"
  <2>1. Len(q) + 1 \in 1..Len(Append(q, message)) /\ Append(q, message)[Len(q) + 1] = "kicked"
    BY <1>2
  <2> QED BY <2>1 DEF HasNotice
<1> QED BY <1>1, <1>2

\* A notice stays in a queue when another message is taken.
LEMMA NoticeRest ==
  ASSUME NEW q \in Seq(Payload), q # <<>>, HasNotice(q), Head(q) # "kicked"
  PROVE  HasNotice(Tail(q))
<1>1. PICK i \in 1..Len(q) : q[i] = "kicked"
  BY DEF HasNotice
<1>2. i # 1
  BY <1>1
<1>3. i - 1 \in 1..Len(Tail(q)) /\ Tail(q)[i - 1] = "kicked"
  BY <1>1, <1>2
<1> QED BY <1>3 DEF HasNotice

\* NoticeKept of one connection.
Kept(c) == c \in told \cup lost \cup done \/ HasNotice(queue[c])

LEMMA KeptParts == NoticeKept <=> \A c \in kicked \ missed : Kept(c)
  BY DEF NoticeKept, Kept, HasNotice

\* A step that leaves the queues and the kicks alone.
LEMMA KeptUntouched ==
  ASSUME NoticeKept, queue' = queue, kicked' = kicked, missed' = missed, told' = told,
         done \subseteq done', lost \subseteq lost'
  PROVE  NoticeKept'
  BY DEF NoticeKept

\* A step that puts a message at the end of the queue of c, the notice if c is kicked by it.
LEMMA KeptAppended ==
  ASSUME TypeOK, NoticeKept, NEW c \in Conn, NEW message \in Payload,
         queue' = [queue EXCEPT ![c] = Append(@, message)],
         kicked' \subseteq kicked \cup {c}, c \in kicked' \ kicked => message = "kicked",
         missed' = missed, told' = told, done' = done, lost' = lost
  PROVE  NoticeKept'
<1>1. queue \in [Conn -> Seq(Payload)] /\ kicked \subseteq Conn
  BY DEF TypeOK, Payload
<1>2. ASSUME NEW d \in kicked' \ missed' PROVE Kept(d)'
  <2>1. CASE d # c
    <3>1. d \in kicked \ missed /\ queue'[d] = queue[d]
      BY <1>1, <1>2, <2>1
    <3>2. Kept(d)
      BY <3>1, KeptParts
    <3> QED BY <3>1, <3>2 DEF Kept, HasNotice
  <2>2. CASE d = c
    <3>1. queue'[c] = Append(queue[c], message) /\ queue[c] \in Seq(Payload)
      BY <1>1
    <3>2. CASE c \in kicked
      <4>1. Kept(c)
        BY <1>2, <2>2, <3>2, KeptParts
      <4>2. CASE c \in told \cup lost \cup done
        BY <2>2, <4>2 DEF Kept
      <4>3. CASE HasNotice(queue[c])
        <5>1. HasNotice(queue'[c])
          BY <3>1, <4>3, NoticeAppended
        <5> QED BY <2>2, <5>1 DEF Kept, HasNotice
      <4> QED BY <4>1, <4>2, <4>3 DEF Kept
    <3>3. CASE c \notin kicked
      <4>1. HasNotice(queue'[c])
        BY <1>2, <2>2, <3>1, <3>3, NoticeAppended
      <4> QED BY <2>2, <4>1 DEF Kept, HasNotice
    <3> QED BY <3>2, <3>3
  <2> QED BY <2>1, <2>2
<1> QED BY <1>2 DEF NoticeKept, Kept, HasNotice

\* A step that offers a message: a full queue drops it, and the connection counts as missed.
LEMMA KeptOffered ==
  ASSUME TypeOK, NoticeKept, NEW c \in Conn, NEW message \in Payload, NEW n \in Nat,
         TrySend(c, message, n),
         kicked' \subseteq kicked \cup {c}, c \in kicked' \ kicked => message = "kicked",
         told' = told, done' = done, lost' = lost
  PROVE  NoticeKept'
<1>1. CASE Full(c)
  <2>1. queue' = queue /\ missed' = missed \cup {c}
    BY <1>1 DEF TrySend
  <2>2. kicked' \ missed' \subseteq kicked \ missed
    BY <2>1
  <2> QED BY <2>1, <2>2 DEF NoticeKept
<1>2. CASE ~Full(c)
  <2>1. queue' = [queue EXCEPT ![c] = Append(@, message)] /\ missed' = missed
    BY <1>2 DEF TrySend
  <2> QED BY <2>1, KeptAppended
<1> QED BY <1>1, <1>2

\* A step that takes the first message, sent unless the peer is gone.
LEMMA KeptTaken ==
  ASSUME TypeOK, NoticeKept, NEW c \in Conn, queue[c] # <<>>,
         queue' = [queue EXCEPT ![c] = Tail(@)],
         c \in lost \cup done \/ Head(queue[c]) = "kicked" => c \in told' \cup lost' \cup done',
         kicked' = kicked, missed' = missed, told \subseteq told', done' = done, lost' = lost
  PROVE  NoticeKept'
<1>1. queue \in [Conn -> Seq(Payload)] /\ kicked \subseteq Conn
  BY DEF TypeOK, Payload
<1>2. ASSUME NEW d \in kicked' \ missed' PROVE Kept(d)'
  <2>0. Kept(d)
    BY <1>2, KeptParts
  <2>1. CASE d # c
    <3>1. queue'[d] = queue[d]
      BY <1>1, <1>2, <2>1
    <3> QED BY <2>0, <3>1 DEF Kept, HasNotice
  <2>2. CASE d = c
    <3>1. queue'[c] = Tail(queue[c]) /\ queue[c] \in Seq(Payload)
      BY <1>1
    <3>2. CASE c \in told \cup lost \cup done \/ Head(queue[c]) = "kicked"
      BY <2>2, <3>2 DEF Kept
    <3>3. CASE ~(c \in told \cup lost \cup done \/ Head(queue[c]) = "kicked")
      <4>1. HasNotice(queue[c])
        BY <2>0, <2>2, <3>3 DEF Kept
      <4>2. HasNotice(queue'[c])
        BY <3>1, <3>3, <4>1, NoticeRest
      <4> QED BY <2>2, <4>2 DEF Kept, HasNotice
    <3> QED BY <3>2, <3>3
  <2> QED BY <2>1, <2>2
<1> QED BY <1>2 DEF NoticeKept, Kept, HasNotice

\* Every step keeps the notice of a kick.
LEMMA StepKept == TypeOK /\ NoticeKept /\ [Next]_vars => NoticeKept'
<1> SUFFICES ASSUME TypeOK, NoticeKept, [Next]_vars PROVE NoticeKept'
  OBVIOUS
<1>1. ASSUME NEW c \in Conn, AddClient(c) PROVE NoticeKept'
  <2>1. /\ queue' = queue /\ kicked' = kicked /\ missed' = missed /\ told' = told
        /\ done \subseteq done' /\ lost \subseteq lost'
    BY <1>1 DEF AddClient, pumps, closers, casts, bounds, history
  <2> QED BY <2>1, KeptUntouched
<1>2. ASSUME NEW c \in Conn, ReadPong(c) PROVE NoticeKept'
  <2>1. /\ queue' = queue /\ kicked' = kicked /\ missed' = missed /\ told' = told
        /\ done \subseteq done' /\ lost \subseteq lost'
    BY <1>2 DEF ReadPong, pumps, closers, casts, bounds, history
  <2> QED BY <2>1, KeptUntouched
<1>3. ASSUME NEW c \in Conn, ReadCommand(c) PROVE NoticeKept'
  <2>1. /\ queue' = queue /\ kicked' = kicked /\ missed' = missed /\ told' = told
        /\ done \subseteq done' /\ lost \subseteq lost'
    BY <1>3 DEF ReadCommand, pumps, closers, casts, bounds, history
  <2> QED BY <2>1, KeptUntouched
<1>4. ASSUME NEW c \in Conn, ReadFails(c) PROVE NoticeKept'
  <2>1. /\ queue' = queue /\ kicked' = kicked /\ missed' = missed /\ told' = told
        /\ done \subseteq done' /\ lost \subseteq lost'
    BY <1>4 DEF ReadFails, pumps, closers, casts, bounds, history
  <2> QED BY <2>1, KeptUntouched
<1>5. ASSUME NEW c \in Conn, RemoveClient(c) PROVE NoticeKept'
  <2>1. /\ queue' = queue /\ kicked' = kicked /\ missed' = missed /\ told' = told
        /\ done \subseteq done' /\ lost \subseteq lost'
    BY <1>5 DEF RemoveClient, pumps, closers, casts, bounds, history
  <2> QED BY <2>1, KeptUntouched
<1>6. ASSUME NEW c \in Conn, CloseCheck(c) PROVE NoticeKept'
  <2>1. /\ queue' = queue /\ kicked' = kicked /\ missed' = missed /\ told' = told
        /\ done \subseteq done' /\ lost \subseteq lost'
    BY <1>6 DEF CloseCheck, pumps, closers, casts, bounds, history
  <2> QED BY <2>1, KeptUntouched
<1>7. ASSUME NEW c \in Conn, CloseCommit(c) PROVE NoticeKept'
  <2>1. /\ queue' = queue /\ kicked' = kicked /\ missed' = missed /\ told' = told
        /\ done \subseteq done' /\ lost \subseteq lost'
    BY <1>7 DEF CloseCommit, pumps, closers, casts, bounds, history
  <2> QED BY <2>1, KeptUntouched
<1>8. ASSUME NEW c \in Conn, Lose(c) PROVE NoticeKept'
  <2>1. /\ queue' = queue /\ kicked' = kicked /\ missed' = missed /\ told' = told
        /\ done \subseteq done' /\ lost \subseteq lost'
    BY <1>8 DEF Lose, pumps, closers, casts, bounds, history
  <2> QED BY <2>1, KeptUntouched
<1>9. ASSUME NEW c \in Conn, QueueState(c) PROVE NoticeKept'
  <2>1. /\ queue' = [queue EXCEPT ![c] = Append(@, "news")] /\ "news" \in Payload
        /\ kicked' = kicked /\ missed' = missed /\ told' = told /\ done' = done /\ lost' = lost
    BY <1>9 DEF QueueState, Payload, pumps, closers, casts, bounds, history
  <2> QED BY <2>1, KeptAppended
<1>10. ASSUME NEW c \in Conn, QueuePing(c) PROVE NoticeKept'
  <2>1. /\ queue' = [queue EXCEPT ![c] = Append(@, "news")] /\ "news" \in Payload
        /\ kicked' = kicked /\ missed' = missed /\ told' = told /\ done' = done /\ lost' = lost
    BY <1>10 DEF QueuePing, Payload, pumps, closers, casts, bounds, history
  <2> QED BY <2>1, KeptAppended
<1>11. ASSUME NEW c \in Conn, ReadRefused(c) PROVE NoticeKept'
  <2>1. /\ TrySend(c, "news", 0) /\ "news" \in Payload /\ 0 \in Nat
        /\ kicked' = kicked
        /\ told' = told /\ done' = done /\ lost' = lost
    BY <1>11 DEF ReadRefused, Payload, pumps, closers, casts, bounds, history
  <2> QED BY <2>1, KeptOffered
<1>12. ASSUME NEW g \in Caster, NEW c \in Conn, BroadcastTo(g, c) PROVE NoticeKept'
  <2>1. /\ TrySend(c, "news", 0) /\ "news" \in Payload /\ 0 \in Nat
        /\ kicked' = kicked
        /\ told' = told /\ done' = done /\ lost' = lost
    BY <1>12 DEF BroadcastTo, Payload, pumps, closers, casts, bounds, history
  <2> QED BY <2>1, KeptOffered
<1>13. ASSUME NEW c \in Conn, DisconnectMember(c) PROVE NoticeKept'
  <2>1. /\ TrySend(c, "kicked", 1) /\ "kicked" \in Payload /\ 1 \in Nat
        /\ kicked' = kicked \cup {c}
        /\ told' = told /\ done' = done /\ lost' = lost
    BY <1>13 DEF DisconnectMember, Payload, pumps, closers, casts, bounds, history
  <2> QED BY <2>1, KeptOffered
<1>14. ASSUME NEW c \in Conn, Write(c) PROVE NoticeKept'
  <2>1. /\ queue[c] # <<>> /\ queue' = [queue EXCEPT ![c] = Tail(@)] /\ c \notin done
        /\ told' = IF Head(queue[c]) = "kicked" /\ c \notin lost THEN told \cup {c} ELSE told
        /\ kicked' = kicked /\ missed' = missed /\ done' = done /\ lost' = lost
    BY <1>14 DEF Write, pumps, closers, casts, bounds, history
  <2>2. /\ c \in lost \cup done \/ Head(queue[c]) = "kicked" => c \in told' \cup lost' \cup done'
        /\ told \subseteq told'
    BY <2>1
  <2> QED BY <2>1, <2>2, KeptTaken
<1>15. ASSUME NEW c \in Conn, WriteFails(c) PROVE NoticeKept'
  <2>1. /\ kicked' = kicked /\ missed' = missed /\ told' = told /\ done' = done /\ lost' = lost
        /\ c \in lost \cup done
        /\ queue' = queue \/ (queue[c] # <<>> /\ queue' = [queue EXCEPT ![c] = Tail(@)])
    BY <1>15 DEF WriteFails, pumps, closers, casts, bounds, history
  <2>2. c \in told' \cup lost' \cup done' /\ told \subseteq told'
    BY <2>1
  <2>3. CASE queue' = queue
    BY <2>1, <2>3, KeptUntouched
  <2>4. CASE queue[c] # <<>> /\ queue' = [queue EXCEPT ![c] = Tail(@)]
    BY <2>1, <2>2, <2>4, KeptTaken
  <2> QED BY <2>1, <2>3, <2>4
<1>16. ASSUME NEW q \in Request, BroadcastRoomState(q) PROVE NoticeKept'
  <2>1. /\ queue' = queue /\ kicked' = kicked /\ missed' = missed /\ told' = told
        /\ done \subseteq done' /\ lost \subseteq lost'
    BY <1>16 DEF BroadcastRoomState, pumps, closers, casts, bounds, history
  <2> QED BY <2>1, KeptUntouched
<1>17. ASSUME NEW g \in Caster, BroadcastStart(g) PROVE NoticeKept'
  <2>1. /\ queue' = queue /\ kicked' = kicked /\ missed' = missed /\ told' = told
        /\ done \subseteq done' /\ lost \subseteq lost'
    BY <1>17 DEF BroadcastStart, pumps, closers, casts, bounds, history
  <2> QED BY <2>1, KeptUntouched
<1>18. ASSUME Close PROVE NoticeKept'
  <2>1. /\ queue' = queue /\ kicked' = kicked /\ missed' = missed /\ told' = told
        /\ done \subseteq done' /\ lost \subseteq lost'
    BY <1>18 DEF Close, pumps, closers, casts, bounds, history
  <2> QED BY <2>1, KeptUntouched
<1>19. CASE UNCHANGED vars
  <2>1. /\ queue' = queue /\ kicked' = kicked /\ missed' = missed /\ told' = told
        /\ done \subseteq done' /\ lost \subseteq lost'
    BY <1>19 DEF vars, pumps, closers, casts, bounds, history
  <2> QED BY <2>1, KeptUntouched
<1> QED BY <1>1, <1>2, <1>3, <1>4, <1>5, <1>6, <1>7, <1>8, <1>9, <1>10, <1>11, <1>12, <1>13, <1>14, <1>15, <1>16, <1>17, <1>18, <1>19 DEF Next

\* A kicked connection whose queue had room has been told, still has the notice in its queue,
\* or is gone: the notice is never just dropped.
THEOREM NoticeCorrect == Spec => []NoticeKept
<1>1. Init => NoticeKept
  BY DEF Init, NoticeKept
<1> QED BY <1>1, TypeCorrect, StepKept, PTL DEF Spec

\* The pumps are started by the handler, once it is done.
HandlerFirst == \A c \in Conn : reader[c] # "off" => handler[c] = "started"

LEMMA StepHandlerFirst == TypeOK /\ HandlerFirst /\ [Next]_vars => HandlerFirst'
<1> SUFFICES ASSUME TypeOK, HandlerFirst, [Next]_vars PROVE HandlerFirst'
  OBVIOUS
<1> USE DEF HandlerFirst
<1>1. /\ handler \in [Conn -> {"idle", "state", "ping", "started"}]
      /\ reader \in [Conn -> {"off", "reading", "leaving", "gone"}]
  BY DEF TypeOK
<1>2. ASSUME NEW c \in Conn, AddClient(c) \/ QueueState(c) PROVE HandlerFirst'
  BY <1>1, <1>2 DEF AddClient, QueueState
<1>3. ASSUME NEW c \in Conn, QueuePing(c) PROVE HandlerFirst'
  BY <1>1, <1>3 DEF QueuePing
<1>4. ASSUME NEW c \in Conn, ReadFails(c) \/ RemoveClient(c) PROVE HandlerFirst'
  BY <1>1, <1>4 DEF ReadFails, RemoveClient
<1>5. ASSUME NEW c \in Conn,
             \/ ReadPong(c) \/ ReadCommand(c) \/ ReadRefused(c) \/ Write(c) \/ WriteFails(c)
             \/ CloseCheck(c) \/ CloseCommit(c) \/ DisconnectMember(c) \/ Lose(c)
      PROVE  HandlerFirst'
  BY <1>5 DEF ReadPong, ReadCommand, ReadRefused, Write, WriteFails, CloseCheck, CloseCommit,
     DisconnectMember, Lose, pumps
<1>6. ASSUME \/ \E q \in Request : BroadcastRoomState(q)
             \/ \E g \in Caster : BroadcastStart(g) \/ \E c \in Conn : BroadcastTo(g, c)
             \/ Close
             \/ UNCHANGED vars
      PROVE  HandlerFirst'
  BY <1>6 DEF BroadcastRoomState, BroadcastStart, BroadcastTo, Close, vars, pumps
<1> QED BY <1>2, <1>3, <1>4, <1>5, <1>6 DEF Next

\* What the promise rests on.
LifetimeInv == TypeOK /\ RegisteredHasKeeper /\ OutIsCutOff /\ HandlerFirst

LEMMA NobodyIsEarly ==
  ASSUME LifetimeInv
  PROVE  \A c \in Conn : handler[c] = "idle" => c \notin hub
  BY DEF LifetimeInv, RegisteredHasKeeper, HandlerFirst

\* Only the client that is offered a message may be cut off for it.
LEMMA OfferingStep ==
  ASSUME TypeOK, [Next]_vars, NEW c \in Conn, NEW message \in Payload, NEW n \in Nat,
         TrySend(c, message, n), hub' = hub, handler' = handler, latched' = latched, done' = done
  PROVE  [Lifetime!Next]_(Lifetime!vars)
<1>1. closing \in [Conn -> Nat] /\ latched \in [Conn -> Nat]
  BY DEF TypeOK
<1>2. \A d \in Conn \ {c} : closing'[d] = closing[d]
  BY <1>1 DEF TrySend
<1>3. \A d \in Conn \ {c} : CutOff(d)' => CutOff(d)
  BY <1>2 DEF CutOff
<1>4. missed' = missed \/ (missed' = missed \cup {c} /\ CutOff(c)')
  <2>1. CASE Full(c)
    <3>1. closing'[c] > 0 /\ closing'[c] \in Nat
      BY <1>1, <2>1 DEF TrySend
    <3> QED BY <1>1, <2>1, <3>1 DEF TrySend, CutOff
  <2> QED BY <2>1 DEF TrySend
<1> QED BY <1>3, <1>4, CuttingStep DEF Departed

\* Every step is one the promise allows, or changes nothing it speaks of.
LEMMA LifetimeStep == LifetimeInv /\ [Next]_vars => [Lifetime!Next]_(Lifetime!vars)
<1> SUFFICES ASSUME LifetimeInv, [Next]_vars PROVE [Lifetime!Next]_(Lifetime!vars)
  OBVIOUS
<1>1. /\ TypeOK /\ RegisteredHasKeeper /\ OutIsCutOff /\ HandlerFirst /\ hub \subseteq Conn
      /\ closing \in [Conn -> Nat] /\ latched \in [Conn -> Nat]
      /\ handler \in [Conn -> {"idle", "state", "ping", "started"}]
  BY DEF LifetimeInv, TypeOK
<1>2. ASSUME UNCHANGED <<hub, Departed, missed>>, UNCHANGED <<closing, latched, done>>
      PROVE  [Lifetime!Next]_(Lifetime!vars)
  BY <1>2 DEF Lifetime!vars, CutOff
<1>3. ASSUME NEW c \in Conn, AddClient(c) PROVE Lifetime!Next
  <2>1. c \notin hub \cup Departed
    BY <1>3, NobodyIsEarly DEF AddClient, Departed
  <2>2. Departed' = Departed
    BY <1>1, <1>3, <2>1 DEF AddClient, Departed
  <2>3. Lifetime!Enter(c)
    BY <1>3, <2>1, <2>2 DEF AddClient, Lifetime!Enter, CutOff, closers, history
  <2> QED BY <2>3 DEF Lifetime!Next
<1>4. ASSUME NEW c \in Conn, QueueState(c) \/ QueuePing(c) PROVE [Lifetime!Next]_(Lifetime!vars)
  <2>1. Departed' = Departed
    BY <1>1, <1>4 DEF QueueState, QueuePing, Departed
  <2> QED BY <1>2, <1>4, <2>1 DEF QueueState, QueuePing, closers, history
<1>5. ASSUME NEW c \in Conn,
             ReadPong(c) \/ ReadCommand(c) \/ ReadFails(c) \/ Write(c) \/ Lose(c)
      PROVE  [Lifetime!Next]_(Lifetime!vars)
  <2>1. Departed' = Departed
    BY <1>5 DEF ReadPong, ReadCommand, ReadFails, Write, Lose, Departed, pumps
  <2> QED BY <1>2, <1>5, <2>1 DEF ReadPong, ReadCommand, ReadFails, Write, Lose, closers, history
<1>6. ASSUME NEW c \in Conn, ReadRefused(c) PROVE [Lifetime!Next]_(Lifetime!vars)
  BY <1>1, <1>6, OfferingStep DEF ReadRefused, Payload, pumps
<1>7. ASSUME NEW c \in Conn, DisconnectMember(c) PROVE [Lifetime!Next]_(Lifetime!vars)
  BY <1>1, <1>7, OfferingStep DEF DisconnectMember, Payload, pumps
<1>8. ASSUME NEW g \in Caster, NEW c \in Conn, BroadcastTo(g, c)
      PROVE  [Lifetime!Next]_(Lifetime!vars)
  BY <1>1, <1>8, OfferingStep DEF BroadcastTo, Payload, pumps
<1>9. ASSUME NEW c \in Conn, WriteFails(c) \/ CloseCheck(c) \/ CloseCommit(c)
      PROVE  [Lifetime!Next]_(Lifetime!vars)
  <2>1. hub' = hub /\ Departed' = Departed /\ missed' = missed
    BY <1>9 DEF WriteFails, CloseCheck, CloseCommit, Departed, pumps, history
  <2>2. \A d \in Conn \ {c} : /\ closing'[d] = closing[d] /\ latched'[d] = latched[d]
                              /\ d \in done' <=> d \in done
    BY <1>1, <1>9 DEF WriteFails, CloseCheck, CloseCommit
  <2>3. \A d \in Conn \ {c} : CutOff(d)' => CutOff(d)
    BY <2>2 DEF CutOff
  <2> QED BY <1>1, <2>1, <2>3, CuttingStep
<1>10. ASSUME NEW c \in Conn, RemoveClient(c) PROVE [Lifetime!Next]_(Lifetime!vars)
  <2>1. handler' = handler /\ hub' = hub \ {c} /\ missed' = missed /\ handler[c] # "idle"
    BY <1>1, <1>10 DEF RemoveClient, HandlerFirst, history
  <2>2. /\ \A d \in Conn \ {c} : closing'[d] = closing[d]
        /\ closing'[c] = closing[c] + 1 /\ latched' = latched /\ done' = done
    BY <1>1, <1>10 DEF RemoveClient
  <2>3. (\A d \in Conn \ {c} : CutOff(d)' => CutOff(d)) /\ CutOff(c)'
    BY <1>1, <2>2 DEF CutOff
  <2>4. /\ {c} \in SUBSET Conn /\ \A d \in {c} : CutOff(d)'
        /\ \A d \in {c} : handler[d] # "idle"
    BY <2>1, <2>3
  <2> QED BY <1>1, <2>1, <2>3, <2>4, LeavingStep
<1>11. ASSUME Close PROVE [Lifetime!Next]_(Lifetime!vars)
  <2>1. handler' = handler /\ hub' = hub \ hub /\ missed' = missed /\ latched' = latched
        /\ done' = done
    BY <1>11 DEF Close, pumps, history
  <2>2. \A d \in Conn : closing'[d] = closing[d] + IF d \in hub THEN 1 ELSE 0
    BY <1>11 DEF Close
  <2>3. \A d \in Conn \ hub : CutOff(d)' => CutOff(d)
    BY <1>1, <2>1, <2>2 DEF CutOff
  <2>4. \A d \in hub : CutOff(d)'
    BY <1>1, <2>1, <2>2 DEF CutOff
  <2>5. \A d \in hub : handler[d] # "idle"
    BY <1>1, NobodyIsEarly
  <2> QED BY <1>1, <2>1, <2>3, <2>4, <2>5, LeavingStep
<1>12. ASSUME \/ \E q \in Request : BroadcastRoomState(q)
              \/ \E g \in Caster : BroadcastStart(g)
              \/ UNCHANGED vars
       PROVE  [Lifetime!Next]_(Lifetime!vars)
  <2>1. Departed' = Departed
    BY <1>12 DEF BroadcastRoomState, BroadcastStart, Departed, vars, pumps
  <2> QED BY <1>2, <1>12, <2>1 DEF BroadcastRoomState, BroadcastStart, vars, closers, history
<1> QED BY <1>3, <1>4, <1>5, <1>6, <1>7, <1>8, <1>9, <1>10, <1>11, <1>12 DEF Next

\* The hub implements Link: a connection enters once and leaves once, and is cut off whenever
\* it misses a message or leaves, for any number of connections and broadcasts.
THEOREM ImplementsLink == Spec => LifetimeKept
<1>1. Init => HandlerFirst
  BY DEF Init, HandlerFirst
<1>2. Spec => []HandlerFirst
  BY <1>1, TypeCorrect, StepHandlerFirst, PTL DEF Spec
<1>3. Spec => []LifetimeInv
  BY <1>2, TypeCorrect, KeeperCorrect, OutCorrect, PTL DEF LifetimeInv
<1> QED BY <1>3, LifetimeInit, LifetimeStep, PTL DEF Spec, LifetimeKept, Lifetime!Spec
=============================================================================
