------------------------------- MODULE MCTab -------------------------------
(* Tab for TLC: one other user chats in one of the rooms, on connections that are alike. *)
EXTENDS Tab, TLC

CONSTANT r1

MCSeat == [s \in Sender |-> [user |-> "guest", room |-> r1]]

Symmetry == Permutations(Sender)
=============================================================================
