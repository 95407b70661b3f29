------------------------------- MODULE MCRoomFeed -------------------------------
(* RoomFeed on small sets; the rooms are interchangeable. *)
EXTENDS RoomFeed, TLC

Symmetry == Permutations(Rooms)
=================================================================================
