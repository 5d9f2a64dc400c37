----------------------------- MODULE MCRoomStatus -----------------------------
(* Small instances of the room status tasks.                               *)
EXTENDS RoomStatus
===============================================================================
