-------------------------------- MODULE Link --------------------------------
(***************************************************************************)
(* What the hub promises of the connections of a room, with no goroutines, *)
(* queues or locks: a connection enters the room once and leaves it for    *)
(* good; once it is cut off it stays so; and it is cut off whenever it     *)
(* misses a message and whenever it leaves.  Hub implements this           *)
(* specification.                                                          *)
(***************************************************************************)
CONSTANT Conn  \* connections

VARIABLES live,   \* those the room's messages go to
          out,    \* those they no longer go to
          cut,    \* those that have been cut off
          missed  \* those a message did not get to

vars == <<live, out, cut, missed>>

Init == live = {} /\ out = {} /\ cut = {} /\ missed = {}

Enter(c) ==
  /\ c \notin live \cup out
  /\ live' = live \cup {c}
  /\ UNCHANGED <<out, cut, missed>>

Cut(c) ==
  /\ cut' = cut \cup {c}
  /\ UNCHANGED <<live, out, missed>>

Miss(c) ==
  /\ missed' = missed \cup {c}
  /\ cut' = cut \cup {c}
  /\ UNCHANGED <<live, out>>

\* One after another, or all at once when the server stops.
Leave(C) ==
  /\ C \subseteq live
  /\ live' = live \ C
  /\ out' = out \cup C
  /\ cut' = cut \cup C
  /\ UNCHANGED missed

Next ==
  \/ \E c \in Conn : Enter(c) \/ Cut(c) \/ Miss(c)
  \/ \E C \in SUBSET Conn : Leave(C)

Spec == Init /\ [][Next]_vars
=============================================================================
