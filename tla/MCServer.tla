------------------------------ MODULE MCServer ------------------------------
(* RoomServer for TLC: who asks for what. *)
EXTENDS RoomServer

CONSTANTS alice, bob

\* The host plays, kicks and hands the room over; the member seeks, comes back by the invite,
\* and locks the room once it is his.
MCVerb == ({alice} \X {"play", "transfer", "kick"}) \cup ({bob} \X {"seek", "join", "lock"})

\* Everybody does everything that ends in a broadcast of the playback or the lock ...
MCWrite == User \X {"play", "pause", "seek", "lock", "unlock"}

\* ... or that changes who is a member and who the host.
MCMember == User \X {"transfer", "kick", "join"}
=============================================================================
