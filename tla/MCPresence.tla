----------------------------- MODULE MCPresence -----------------------------
(* Presence for TLC: a time, and one that no ping takes. *)
EXTENDS Presence

MCRoundTrip == {40, -5}

\* Users are alike: one of the places is of the first, the others of anybody.
MCInit == Init /\ user[CHOOSE c \in Conn : TRUE] = CHOOSE u \in User : TRUE

MCSpec == MCInit /\ [][Next]_vars

MCFairSpec == MCSpec /\ Fairness
=============================================================================
