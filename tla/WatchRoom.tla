----------------------------- MODULE WatchRoom -----------------------------
(***************************************************************************)
(* What a watch room promises about its people, with no tables and no SQL: *)
(* a room has one host, who is one of its members; nobody is admitted      *)
(* while it is locked; the host is never removed; the host may be handed   *)
(* to another member.  Rooms implements this specification.                *)
(***************************************************************************)
CONSTANTS User,    \* accounts
          Room,    \* room identifiers
          NoUser   \* the host of a room that has not been opened

VARIABLES host,     \* host[r], NoUser before the room is opened
          members,  \* members[r], the set of the room's members
          locked    \* locked[r], TRUE while nobody new is admitted

vars == <<host, members, locked>>

Init ==
  /\ host = [r \in Room |-> NoUser]
  /\ members = [r \in Room |-> {}]
  /\ locked = [r \in Room |-> FALSE]

Open(r, u) ==
  /\ host[r] = NoUser
  /\ host' = [host EXCEPT ![r] = u]
  /\ members' = [members EXCEPT ![r] = {u}]
  /\ UNCHANGED locked

Admit(r, u) ==
  /\ host[r] # NoUser /\ ~locked[r]
  /\ members' = [members EXCEPT ![r] = @ \cup {u}]
  /\ UNCHANGED <<host, locked>>

Remove(r, u) ==
  /\ u \in members[r] /\ u # host[r]
  /\ members' = [members EXCEPT ![r] = @ \ {u}]
  /\ UNCHANGED <<host, locked>>

SetLock(r, b) ==
  /\ host[r] # NoUser
  /\ locked' = [locked EXCEPT ![r] = b]
  /\ UNCHANGED <<host, members>>

HandOver(r, u) ==
  /\ u \in members[r]
  /\ host' = [host EXCEPT ![r] = u]
  /\ UNCHANGED <<members, locked>>

Next ==
  \E r \in Room :
    \/ \E u \in User : Open(r, u) \/ Admit(r, u) \/ Remove(r, u) \/ HandOver(r, u)
    \/ \E b \in BOOLEAN : SetLock(r, b)

Spec == Init /\ [][Next]_vars
=============================================================================
