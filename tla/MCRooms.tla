------------------------------ MODULE MCRooms ------------------------------
(* Rooms with their library for TLC: positions on both sides of each bound of store.go:364. *)
EXTENDS Library

MCSought == {-1, 0, 86400, 86401}
=============================================================================
